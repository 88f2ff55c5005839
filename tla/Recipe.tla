------------------------------- MODULE Recipe -------------------------------
(***************************************************************************)
(* What the container of a staging job does (ExecuteRecipe in              *)
(* recipe/execute.go): the app is installed, which is Unzip, the builder   *)
(* makes a droplet of it, the droplet is uploaded, and Buildpacks modifies *)
(* the builder's result.  Whatever fails is the end of it: it is reported, *)
(* but for an error that comes after the upload, where the recipe just     *)
(* exits.  Staging is about these reports and has one step for each of the *)
(* steps that are taken apart here.                                        *)
(***************************************************************************)
EXTENDS Unzip, Buildpacks

recipeVars == <<vars, modifierVars>>

RecipeInit == Init /\ ModifierInit

Install == Next /\ UNCHANGED modifierVars

\* The builder is external.  It replaces what was installed by its droplet.
Build ==
    /\ pc = "done"
    /\ pc' \in {"built", "failed"}
    /\ archive' = << >>
    /\ next' = 1
    /\ fs' = [p \in {} |-> 0]
    /\ UNCHANGED modifierVars

\* Mutant: an upload that fails ends the recipe without a report.
UploadUnreported ==
    /\ pc = "built"
    /\ pc' \in {"uploaded", "exited"}
    /\ UNCHANGED <<archive, next, fs, modifierVars>>

Upload ==
    /\ pc = "built"
    /\ pc' \in {"uploaded", "failed"}
    /\ UNCHANGED <<archive, next, fs, modifierVars>>

\* getStagingResult reads what the builder has written, and may fail.
createSuccessResponse ==
    /\ pc = "uploaded"
    /\ \/ pc' = "read" /\ Modify
       \/ pc' = "exited" /\ UNCHANGED modifierVars
    /\ UNCHANGED <<archive, next, fs>>

RecipeNext ==
    \/ Install \/ Build \/ Upload \/ createSuccessResponse
    \/ ModifierNext /\ UNCHANGED vars

RecipeSpec == RecipeInit /\ [][RecipeNext]_recipeVars
-----------------------------------------------------------------------------
Staged == pc = "read" /\ modifier = "done"
Exited == pc = "exited" \/ (pc = "read" /\ modifier = "failed")

\* Where Staging says the pod is.
PodLabel ==
    CASE pc \in Working             -> "install"
      [] pc = "done"                -> "build"
      [] pc = "built"               -> "upload"
      [] pc = "failed" \/ Staged    -> "report"
      [] Exited                     -> "failed"
      [] OTHER                      -> "result"

ThePod == <<1, 1>>

Stg == INSTANCE Staging WITH
        Stagings  <- {1},
        MaxPods   <- 1,
        answer    <- [g \in {1} |-> "accepted"],
        jobs      <- {1},
        expired   <- {},
        pod       <- [p \in {ThePod} |-> PodLabel],
        verdict   <- [p \in {ThePod} |-> IF pc = "failed" THEN "failed"
                                         ELSE IF Staged THEN "staged" ELSE "none"],
        call      <- [p \in {ThePod} |-> "none"],
        uploaded  <- IF pc \in {"uploaded", "read", "exited"} THEN {1} ELSE {},
        told      <- {},
        disturbed <- {}

(***************************************************************************)
(* Taken apart, file by file and buildpack by buildpack, the recipe does   *)
(* what the recipe of a pod does in Staging: a failure up to the upload is *)
(* reported as one, a success only after the upload, the installation, the *)
(* build and all replacements, and nothing after an error that is not      *)
(* reported (ExecuteRecipe in recipe/execute.go).                          *)
(***************************************************************************)
ImplementsStagingRecipe ==
    PodLabel = "install" /\ [][Stg!Recipe(ThePod)]_(Stg!vars)
=============================================================================
