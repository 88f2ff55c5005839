------------------------------ MODULE MCDesirer ------------------------------
(***************************************************************************)
(* Small instances of Desirer for TLC.                                     *)
(***************************************************************************)
EXTENDS Desirer, TLC

CONSTANTS
    a1, a2,             \* apps
    h1, h2,             \* handlers
    u1, bad,            \* route URIs; validateURL rejects bad
    s1, s2              \* instance counts with their last_updated

\* One valid URI; validateURL rejects the other.
MCRuleOf == u1 :> "rule1"

MCSymmetry == Permutations({a1, a2}) \cup Permutations({h1, h2})
=============================================================================
