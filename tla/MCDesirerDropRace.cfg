\* A Stop of one app drops the Ingress under another: RulesComplete fails.
SPECIFICATION Spec
CONSTANTS
    a1 = a1   a2 = a2
    h1 = h1   h2 = h2
    u1 = u1   bad = bad
    s1 = s1   s2 = s2
    Apps = {a1, a2}
    Handlers = {h1, h2}
    Uris = {u1}
    ValidUris = {u1}
    RuleOf <- MCRuleOf
    Specs = {s1}
    NoSpec = NoSpec
    Faults = FALSE
    MaxRequests = 3
SYMMETRY MCSymmetry
INVARIANT
    RulesComplete
