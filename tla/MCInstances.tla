----------------------------- MODULE MCInstances -----------------------------
(***************************************************************************)
(* A small instance of Instances for TLC.  A second has two milliseconds   *)
(* and a probe comes every second; an int32 has three bits.                *)
(***************************************************************************)
EXTENDS Instances

\* Nothing, or variables that eirini sets too.
MCEnvironments == {{}, {"START_COMMAND", "POD_NAME", "PORT"}}
=============================================================================
