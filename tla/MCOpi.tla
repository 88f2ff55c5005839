-------------------------------- MODULE MCOpi --------------------------------
(***************************************************************************)
(* A small instance of Opi for TLC.                                        *)
(***************************************************************************)
EXTENDS Opi

CONSTANTS
    a1,                 \* an app
    h1, h2,             \* handlers
    u1,                 \* a route URI, valid
    s1                  \* the one instance count

MCRuleOf == [u \in Uris |-> u]

MCUrisOf == [a \in Apps |-> Uris]
=============================================================================
