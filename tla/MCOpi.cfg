\* One app; start-ups fail, a serving process crashes, publishes are lost.
SPECIFICATION FairOpiSpec
CONSTANTS
    a1 = a1
    h1 = h1   h2 = h2
    u1 = u1
    s1 = s1
    Apps = {a1}
    Handlers = {h1, h2}
    Uris = {u1}
    ValidUris = {u1}
    RuleOf <- MCRuleOf
    UrisOf <- MCUrisOf
    Specs = {s1}
    NoSpec = NoSpec
    Faults = TRUE
    MaxRequests = 2
    TTL = 5
    MaxWait = 1
    MaxLost = 2
INVARIANTS
    OpiTypeOK
PROPERTIES
    RequestsAnswered
    RouterConverges
