\* A Stop of the only app, which has no routes: NoOrphanService fails.
SPECIFICATION Spec
CONSTANTS
    a1 = a1   a2 = a2
    h1 = h1   h2 = h2
    u1 = u1   bad = bad
    s1 = s1   s2 = s2
    Apps = {a1}
    Handlers = {h1}
    Uris = {u1}
    ValidUris = {u1}
    RuleOf <- MCRuleOf
    Specs = {s1}
    NoSpec = NoSpec
    Faults = FALSE
    MaxRequests = 2
INVARIANT
    NoOrphanService
