------------------------------ MODULE MCImages ------------------------------
(***************************************************************************)
(* Small instances of Images for TLC.                                      *)
(***************************************************************************)
EXTENDS Images, TLC

CONSTANTS
    a1, a2,             \* apps
    c1, c2,             \* conversions and goroutines of the registry
    d1, d2,             \* droplet hashes
    l1, l2              \* layers

MCHashOf == (l1 :> d1) @@ (l2 :> d2)

\* The two droplets change places, each with its hash.
MCSwap == (l1 :> l2) @@ (l2 :> l1) @@ (d1 :> d2) @@ (d2 :> d1)

MCSymmetry == Permutations({c1, c2}) \cup Permutations({a1, a2}) \cup {MCSwap}
=============================================================================
