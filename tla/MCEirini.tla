------------------------------ MODULE MCEirini ------------------------------
(***************************************************************************)
(* Small instances of Eirini for TLC.                                      *)
(***************************************************************************)
EXTENDS Eirini

CONSTANTS
    a1, a2,             \* apps
    h1, h2,             \* handlers
    u1,                 \* a route URI, valid
    s1                  \* the one instance count

\* Every URI has a rule of its own.
MCRuleOf == [u \in Uris |-> u]

\* All apps may have all URIs.
MCUrisOf == [a \in Apps |-> Uris]
=============================================================================
