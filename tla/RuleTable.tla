------------------------------ MODULE RuleTable ------------------------------
(***************************************************************************)
(* What KubeIngressManager promises of the one Ingress that all apps       *)
(* share: it is a table with an entry per app, and requests that run       *)
(* concurrently for different apps look as if each replaced the entry of   *)
(* its own app in one step, by the rules of one list of URIs.  The table   *)
(* may also be emptied as a whole, which is how the manager drops the      *)
(* Ingress when it believes that no rule is left.                          *)
(***************************************************************************)
CONSTANTS
    Apps,               \* the apps that share the table
    RuleSets            \* for each app, the entries it can have

VARIABLE table          \* the rules of each app

Init == table = [a \in Apps |-> {}]

SetRules(a) ==
    \E R \in RuleSets[a] : table' = [table EXCEPT ![a] = R]

Wipe == table' = [a \in Apps |-> {}]

Next == (\E a \in Apps : SetRules(a)) \/ Wipe

Spec == Init /\ [][Next]_table
=============================================================================
