\* One app and two handlers: two requests overlap after a third, and the collector is blocked.
SPECIFICATION FairEiriniSpec
CONSTANTS
    a1 = a1   a2 = a2
    h1 = h1   h2 = h2
    u1 = u1
    s1 = s1
    Apps = {a1}
    Handlers = {h1, h2}
    Uris = {u1}
    ValidUris = {u1}
    RuleOf <- MCRuleOf
    UrisOf <- MCUrisOf
    Specs = {s1}
    NoSpec = NoSpec
    Faults = FALSE
    MaxRequests = 3
    TTL = 5
    MaxWait = 1
    MaxLost = 0
INVARIANTS
    RoutesAvailable
    RoutesUpheld
PROPERTIES
    RouterConverges
