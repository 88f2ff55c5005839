\* Two apps, by app guid and process guid, two handlers, three requests, faults.
SPECIFICATION ListingSpec
CONSTANTS
    a1 = a1   a2 = a2
    h1 = h1   h2 = h2
    u1 = u1   u2 = u2   bad = bad
    s1 = s1   s2 = s2
    Apps <- MCApps
    Handlers = {h1, h2}
    Uris = {u1, u2, bad}
    ValidUris = {u1, u2}
    RuleOf <- MCRuleOf
    Specs = {s1, s2}
    NoSpec = NoSpec
    Faults = TRUE
    MaxRequests = 3
    Routings <- MCRoutings
SYMMETRY MCSymmetry
INVARIANTS
    ListedCanBeStopped
    AckedIsDeployed
    IngressSane
    IInv
    ListingInv
PROPERTIES
    UpdateRepairs
    ImplementsRuleTable
    DroppedRoutesAnnounced
