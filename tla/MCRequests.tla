----------------------------- MODULE MCRequests -----------------------------
(***************************************************************************)
(* A small instance of Listing for TLC: two apps with a process guid each, *)
(* two handlers, and URIs one of which is rejected.                        *)
(***************************************************************************)
EXTENDS Listing, TLC

CONSTANTS
    a1, a2,             \* app guids
    h1, h2,             \* handlers
    u1, u2, bad,        \* route URIs; validateURL rejects bad
    s1, s2              \* instance counts with their last_updated

MCApps == {<<a1>>, <<a1, "v1">>, <<a2>>, <<a2, "v1">>}

\* No route, one route, and one route beside another that is rejected.
MCRoutings == {{}, {{u1}}, {{u2}}, {{u1}, {bad}}, {{u2}, {bad}}}

\* Every valid URI has a rule of its own.
MCRuleOf == [u \in ValidUris |-> u]

MCSymmetry ==
    Permutations({a1, a2}) \cup Permutations({h1, h2})
        \cup Permutations({u1, u2}) \cup Permutations({s1, s2})
=============================================================================
