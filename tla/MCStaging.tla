------------------------------ MODULE MCStaging ------------------------------
(***************************************************************************)
(* A small instance of Staging for TLC.                                    *)
(***************************************************************************)
EXTENDS Staging

CONSTANT g1             \* a staging guid
=============================================================================
