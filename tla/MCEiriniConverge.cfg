\* Two apps that share a URI, a failure and crashes: the router converges.
SPECIFICATION FairEiriniSpec
CONSTANTS
    a1 = a1   a2 = a2
    h1 = h1   h2 = h2
    u1 = u1
    s1 = s1
    Apps = {a1, a2}
    Handlers = {h1}
    Uris = {u1}
    ValidUris = {u1}
    RuleOf <- MCRuleOf
    UrisOf <- MCUrisOf
    Specs = {s1}
    NoSpec = NoSpec
    Faults = TRUE
    MaxRequests = 3
    TTL = 3
    MaxWait = 0
    MaxLost = 2
PROPERTIES
    RouterConverges
