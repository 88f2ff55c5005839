---------------------------- MODULE StagingProofs ----------------------------
(***************************************************************************)
(* Proofs about Staging, for any set of stagings and any backoff limit.    *)
(***************************************************************************)
EXTENDS Staging, WellFoundedInduction, TLAPS

\* The first component of a pod is the staging it works for.
LEMMA PodStaging == \A p \in Pods : p[1] \in Stagings
  BY DEF Pods

\* A step of the recipe keeps the types.
LEMMA RecipeTypes ==
    ASSUME StagingTypeOK, NEW p \in Pods, Recipe(p) PROVE StagingTypeOK'
<1>1. CASE MainFails(p)
  BY <1>1 DEF MainFails, StagingTypeOK, PodLabels, Succeeds
<1>2. CASE Install(p)
  BY <1>2 DEF Install, StagingTypeOK, PodLabels, Succeeds, respondWithFailure
<1>3. CASE Build(p)
  BY <1>3 DEF Build, StagingTypeOK, PodLabels, Succeeds, respondWithFailure
<1>4. CASE Upload(p)
  BY <1>4, PodStaging DEF Upload, StagingTypeOK, PodLabels, Succeeds,
     respondWithFailure
<1>5. CASE createSuccessResponse(p)
  BY <1>5 DEF createSuccessResponse, StagingTypeOK, PodLabels, Succeeds
<1>6. CASE sendCompleteResponse(p)
  BY <1>6 DEF sendCompleteResponse, StagingTypeOK, PodLabels, CallLabels, Succeeds
<1>7. CASE ExecuteRecipeReturns(p)
  BY <1>7 DEF ExecuteRecipeReturns, StagingTypeOK, PodLabels, Succeeds
<1>8. QED  BY <1>1, <1>2, <1>3, <1>4, <1>5, <1>6, <1>7 DEF Recipe

\* Every step keeps the types.
LEMMA NextTypes == StagingTypeOK /\ [Next]_vars => StagingTypeOK'
<1> SUFFICES ASSUME StagingTypeOK, [Next]_vars PROVE StagingTypeOK'
  OBVIOUS
<1>1. ASSUME NEW g \in Stagings, Stage(g) \/ StageRefused(g) \/ Deadline(g)
      PROVE  StagingTypeOK'
  BY <1>1 DEF Stage, StageRefused, Deadline, Answer, StagingTypeOK, PodLabels
<1>2. ASSUME NEW p \in Pods, StartPod(p) \/ Collected(p) \/ PodLost(p)
      PROVE  StagingTypeOK'
  BY <1>2, PodStaging DEF StartPod, CanStart, Collected, PodLost, StagingTypeOK, PodLabels
<1>3. ASSUME NEW p \in Pods, Recipe(p) PROVE StagingTypeOK'
  BY <1>3, RecipeTypes
<1>4. ASSUME NEW p \in Pods, executeRequest(p) PROVE StagingTypeOK'
  BY <1>4, PodStaging DEF executeRequest, CallGoes, StagingTypeOK, CallLabels
<1>5. ASSUME NEW p \in Pods, DeleteTask(p) PROVE StagingTypeOK'
  BY <1>5, PodStaging DEF DeleteTask, CallGoes, StagingTypeOK, CallLabels
<1>6. CASE OpiCrash
  BY <1>6, PodStaging DEF OpiCrash, StagingTypeOK, CallLabels
<1>7. CASE UNCHANGED vars
  BY <1>7 DEF vars, StagingTypeOK
<1>8. QED
  BY <1>1, <1>2, <1>3, <1>4, <1>5, <1>6, <1>7 DEF Next, CompleteStaging
-----------------------------------------------------------------------------
\* The initial state satisfies the inductive invariant.
LEMMA InitInv == Init => StagingInv
<1> SUFFICES ASSUME Init PROVE StagingInv
  OBVIOUS
<1>1. StagingTypeOK
  BY DEF Init, StagingTypeOK, PodLabels, CallLabels
<1>2. QED
  BY <1>1, PodStaging DEF Init, StagingInv, Requested, JobKeptUntilTold, ReportShape,
     Answered, FailedUntold, StartedKept, RetriedIsSilent, Earlier

\* The request, the Job controller and the garbage collector preserve it.
LEMMA OutsideInv ==
    ASSUME StagingInv,
           \/ \E g \in Stagings : Stage(g) \/ StageRefused(g) \/ Deadline(g)
           \/ \E p \in Pods : StartPod(p) \/ Collected(p) \/ PodLost(p)
    PROVE  StagingInv'
<1>1. ASSUME NEW g \in Stagings, Stage(g) \/ StageRefused(g) PROVE StagingInv'
  <2>1. StagingTypeOK'
    BY <1>1, NextTypes DEF Next, StagingInv
  <2>2. QED
    BY <1>1, <2>1, PodStaging DEF Stage, StageRefused, Answer, StagingInv,
       StagingTypeOK, Requested, JobKeptUntilTold, ReportShape, Answered,
       FailedUntold, StartedKept, RetriedIsSilent, Earlier
<1>2. ASSUME NEW g \in Stagings, Deadline(g) PROVE StagingInv'
  <2>1. StagingTypeOK'
    BY <1>2, NextTypes DEF Next, StagingInv
  <2>2. QED
    BY <1>2, <2>1, PodStaging DEF Deadline, Active, StagingInv, StagingTypeOK,
       Requested, JobKeptUntilTold, ReportShape, Answered, FailedUntold,
       StartedKept, RetriedIsSilent, Earlier
<1>3. ASSUME NEW p \in Pods, StartPod(p) PROVE StagingInv'
  <2>1. StagingTypeOK'
    BY <1>3, NextTypes DEF Next, StagingInv
  <2>2. QED
    BY <1>3, <2>1, PodStaging DEF StartPod, CanStart, StagingInv, StagingTypeOK, Requested,
       JobKeptUntilTold, ReportShape, Answered, FailedUntold, StartedKept,
       RetriedIsSilent, Earlier
<1>4. ASSUME NEW p \in Pods, Collected(p) \/ PodLost(p) PROVE StagingInv'
  <2>1. StagingTypeOK'
    BY <1>4, NextTypes DEF Next, StagingInv
  <2>2. QED
    BY <1>4, <2>1, PodStaging DEF Collected, PodLost, Active, StagingInv, StagingTypeOK,
       Requested, JobKeptUntilTold, ReportShape, Answered, FailedUntold, StartedKept,
       RetriedIsSilent, Earlier
<1>5. QED  BY <1>1, <1>2, <1>3, <1>4

\* A step of the recipe preserves it.
LEMMA RecipeInv ==
    ASSUME StagingInv, NEW p \in Pods, Recipe(p) PROVE StagingInv'
<1>1. StagingTypeOK'
  BY RecipeTypes DEF StagingInv
<1>2. CASE MainFails(p)
  BY <1>1, <1>2, PodStaging DEF MainFails, Succeeds, StagingInv, StagingTypeOK,
     Requested, JobKeptUntilTold, ReportShape, Answered, FailedUntold, StartedKept,
     RetriedIsSilent, Earlier
<1>3. CASE Install(p)
  BY <1>1, <1>3, PodStaging DEF Install, Succeeds, respondWithFailure, StagingInv,
     StagingTypeOK, Requested, JobKeptUntilTold, ReportShape, Answered,
     FailedUntold, StartedKept, RetriedIsSilent, Earlier
<1>4. CASE Build(p)
  BY <1>1, <1>4, PodStaging DEF Build, Succeeds, respondWithFailure, StagingInv,
     StagingTypeOK, Requested, JobKeptUntilTold, ReportShape, Answered,
     FailedUntold, StartedKept, RetriedIsSilent, Earlier
<1>5. CASE Upload(p)
  BY <1>1, <1>5, PodStaging DEF Upload, Succeeds, respondWithFailure, StagingInv,
     StagingTypeOK, Requested, JobKeptUntilTold, ReportShape, Answered,
     FailedUntold, StartedKept, RetriedIsSilent, Earlier
<1>6. CASE createSuccessResponse(p)
  BY <1>1, <1>6, PodStaging DEF createSuccessResponse, Succeeds, StagingInv,
     StagingTypeOK, Requested, JobKeptUntilTold, ReportShape, Answered,
     FailedUntold, StartedKept, RetriedIsSilent, Earlier
<1>7. CASE sendCompleteResponse(p)
  BY <1>1, <1>7, PodStaging DEF sendCompleteResponse, Succeeds, StagingInv,
     StagingTypeOK, Requested, JobKeptUntilTold, ReportShape, Answered,
     FailedUntold, StartedKept, RetriedIsSilent, Earlier
<1>8. CASE ExecuteRecipeReturns(p)
  BY <1>1, <1>8, PodStaging DEF ExecuteRecipeReturns, Succeeds, StagingInv,
     StagingTypeOK, Requested, JobKeptUntilTold, ReportShape, Answered,
     FailedUntold, StartedKept, RetriedIsSilent, Earlier
<1>9. QED
  BY <1>2, <1>3, <1>4, <1>5, <1>6, <1>7, <1>8 DEF Recipe

\* So does opi's handling of a report, and its crash.
LEMMA CompleteStagingInv ==
    ASSUME StagingInv, (\E p \in Pods : CompleteStaging(p)) \/ OpiCrash
    PROVE  StagingInv'
<1>1. StagingTypeOK'
  BY NextTypes DEF StagingInv, Next
<1>2. ASSUME NEW p \in Pods, executeRequest(p) PROVE StagingInv'
  BY <1>1, <1>2, PodStaging DEF executeRequest, CallGoes, StagingInv, StagingTypeOK,
     Requested, JobKeptUntilTold, ReportShape, Answered, FailedUntold, StartedKept,
     RetriedIsSilent, Earlier
<1>3. ASSUME NEW p \in Pods, DeleteTask(p) PROVE StagingInv'
  BY <1>1, <1>3, PodStaging DEF DeleteTask, CallGoes, StagingInv, StagingTypeOK,
     Requested, JobKeptUntilTold, ReportShape, Answered, FailedUntold, StartedKept,
     RetriedIsSilent, Earlier
<1>4. CASE OpiCrash
  BY <1>1, <1>4, PodStaging DEF OpiCrash, StagingInv, StagingTypeOK, Requested,
     JobKeptUntilTold, ReportShape, Answered, FailedUntold, StartedKept,
     RetriedIsSilent, Earlier
<1>5. QED  BY <1>2, <1>3, <1>4 DEF CompleteStaging

\* Every step preserves the inductive invariant.
LEMMA NextInv == StagingInv /\ [Next]_vars => StagingInv'
<1> SUFFICES ASSUME StagingInv, [Next]_vars PROVE StagingInv'
  OBVIOUS
<1>1. CASE UNCHANGED vars
  BY <1>1, PodStaging DEF vars, StagingInv, StagingTypeOK, Requested,
     JobKeptUntilTold, ReportShape, Answered, FailedUntold, StartedKept,
     RetriedIsSilent, Earlier
<1>2. CASE Next
  BY <1>2, OutsideInv, RecipeInv, CompleteStagingInv DEF Next
<1>3. QED  BY <1>1, <1>2

(***************************************************************************)
(* StagingInv holds always: requests, retries, deadlines, crashes and lost *)
(* answers in any order.                                                   *)
(***************************************************************************)
THEOREM StagingInvariance == Spec => []StagingInv
  BY InitInv, NextInv, PTL DEF Spec

(***************************************************************************)
(* Every variable of a staging keeps its type, for any stagings and any    *)
(* backoff limit: no step of the recipe, of the Job controller or of       *)
(* CompleteStaging leaves the states the others expect.                    *)
(***************************************************************************)
THEOREM StagingTypeCorrect == Spec => []StagingTypeOK
<1>1. StagingInv => StagingTypeOK
  BY DEF StagingInv
<1>2. QED  BY <1>1, StagingInvariance, PTL

(***************************************************************************)
(* The CC is never told of a success without having the droplet: the       *)
(* recipe gets to a success through the upload only.                       *)
(***************************************************************************)
THEOREM DropletFirst == Spec => []SuccessHasDroplet
<1>1. StagingInv => SuccessHasDroplet
  BY DEF StagingInv, StagingTypeOK, ReportShape, SuccessHasDroplet
<1>2. QED  BY <1>1, StagingInvariance, PTL

(***************************************************************************)
(* The Job of an accepted staging stays until the CC has taken a verdict,  *)
(* whichever of the two calls of CompleteStaging fails.                    *)
(***************************************************************************)
THEOREM JobStaysUntilTold == Spec => []JobKeptUntilTold
<1>1. StagingInv => JobKeptUntilTold
  BY DEF StagingInv
<1>2. QED  BY <1>1, StagingInvariance, PTL

(***************************************************************************)
(* The CC takes one verdict of a staging that nothing disturbed, for any   *)
(* number of retries: a pod that was tried again has told nothing.         *)
(***************************************************************************)
THEOREM OneVerdict == Spec => []ToldOnce
<1>1. ASSUME StagingInv, NEW p \in told, NEW q \in told,
             p[1] = q[1], p[1] \notin disturbed
      PROVE  p = q
  <2>1. p \in Pods /\ q \in Pods
    BY <1>1 DEF StagingInv, StagingTypeOK
  <2>2. pod[p] # "none" /\ pod[q] # "none"
    BY <1>1, <2>1 DEF StagingInv, ReportShape
  <2>3. ~Earlier(p, q) /\ ~Earlier(q, p)
    BY <1>1, <2>1, <2>2 DEF StagingInv, RetriedIsSilent, Earlier
  <2>4. QED  BY <1>1, <2>1, <2>3, StagingAssumption DEF Earlier, Pods
<1>2. StagingInv => ToldOnce
  BY <1>1 DEF ToldOnce
<1>3. QED  BY <1>2, StagingInvariance, PTL
-----------------------------------------------------------------------------
(***************************************************************************)
(* A staging is never stuck.                                               *)
(***************************************************************************)
\* A set of natural numbers that is not empty has a least element.
LEMMA LeastNumber ==
    ASSUME NEW T, T \subseteq Nat, T # {}
    PROVE  \E m \in T : \A n \in T : m <= n
<1>1. PICK m \in T : \A n \in T : ~(<<n, m>> \in OpToRel(<, Nat))
  BY WFMin, NatLessThanWellFounded, Zenon
<1>2. \A n \in T : <<n, m>> \in OpToRel(<, Nat) <=> n < m
  BY Zenon DEF OpToRel
<1>3. \A n \in T : ~(n < m)
  BY <1>1, <1>2, Zenon
<1>4. QED  BY <1>3

\* When pods are left and those that were started have failed, the first of
\* the others can be started.
LEMMA FirstLeftCanStart ==
    ASSUME StagingInv, NEW g \in jobs \ expired, NEW p \in Pods,
           p[1] = g, pod[p] = "none",
           \A q \in Pods : q[1] = g => pod[q] \in {"none", "failed"}
    PROVE  \E q \in Pods : q[1] = g /\ CanStart(q)
<1> DEFINE T == {n \in 1..MaxPods : pod[<<g, n>>] = "none"}
<1>1. g \in Stagings
  BY DEF StagingInv, StagingTypeOK
<1>2. p = <<g, p[2]>> /\ p[2] \in 1..MaxPods
  BY DEF Pods
<1>3. T \subseteq Nat /\ T # {}
  BY <1>2, StagingAssumption
<1>4. PICK m \in T : \A n \in T : m <= n
  BY <1>3, LeastNumber
<1>5. <<g, m>> \in Pods
  BY <1>1, <1>4 DEF Pods
<1>6. ASSUME NEW q \in Pods, Earlier(q, <<g, m>>) PROVE pod[q] = "failed"
  <2>1. q = <<g, q[2]>> /\ q[2] \in 1..MaxPods /\ q[2] < m
    BY <1>6 DEF Earlier, Pods
  <2>2. q[2] \notin T
    BY <1>4, <2>1, StagingAssumption
  <2>3. QED  BY <2>1, <2>2
<1>7. CanStart(<<g, m>>)
  BY <1>4, <1>6 DEF CanStart
<1>8. QED  BY <1>5, <1>7

(***************************************************************************)
(* An accepted staging of which the CC was told nothing has given up or    *)
(* can go on, for any backoff limit and after any crashes and lost         *)
(* answers: no pod waits for a report that nobody handles, and the Job     *)
(* controller is not waiting for a pod that is gone (recipe/execute.go,    *)
(* stager/stager.go).                                                      *)
(***************************************************************************)
THEOREM StagingNeverStuck == Spec => []NeverStuck
<1>1. ASSUME StagingInv, NEW g \in Stagings, answer[g] = "accepted",
             ~GaveUp(g), ~ \E p \in told : p[1] = g
      PROVE  \E p \in Pods : /\ p[1] = g
                             /\ CanStart(p) \/ Active(p)
                             /\ pod[p] = "wait" => call[p] # "none"
  <2>1. g \in jobs
    BY <1>1 DEF StagingInv, JobKeptUntilTold
  <2>2. CASE \E p \in Pods : p[1] = g /\ Active(p)
    BY <1>1, <2>2 DEF StagingInv, ReportShape
  <2>3. CASE ~ \E p \in Pods : p[1] = g /\ Active(p)
    <3>1. g \notin expired /\ \E p \in Pods : p[1] = g /\ pod[p] # "failed"
      BY <1>1, <2>3 DEF GaveUp
    <3>2. \A p \in Pods : p[1] = g => pod[p] \in {"none", "failed"}
      BY <1>1, <2>3 DEF StagingInv, StagingTypeOK, PodLabels, ReportShape, Active
    <3>3. PICK p \in Pods : p[1] = g /\ pod[p] = "none"
      BY <3>1, <3>2
    <3>4. PICK q \in Pods : q[1] = g /\ CanStart(q)
      BY <1>1, <2>1, <3>1, <3>2, <3>3, FirstLeftCanStart
    <3>5. QED  BY <3>4 DEF CanStart
  <2>4. QED  BY <2>2, <2>3
<1>2. StagingInv => NeverStuck
  BY <1>1 DEF NeverStuck
<1>3. QED  BY <1>2, StagingInvariance, PTL
-----------------------------------------------------------------------------
(***************************************************************************)
(* Staging implements Verdicts.                                            *)
(***************************************************************************)
Heard == [p \in Pods |-> IF p \in told THEN verdict[p] ELSE "none"]

\* A staging was heard of if one of its pods is among those that told.
LEMMA HeardOfTold ==
    ASSUME StagingInv, NEW g \in Stagings
    PROVE  V!HeardOf(g) <=> \E q \in told : q[1] = g
  BY DEF V!HeardOf, V!All, Pods, StagingInv, StagingTypeOK, ReportShape

\* Pods and what becomes of them is not seen by the CC.
LEMMA OutsideRefines ==
    ASSUME StagingInv,
           \/ \E g \in Stagings : Stage(g) \/ StageRefused(g) \/ Deadline(g)
           \/ \E p \in Pods : StartPod(p) \/ Collected(p) \/ PodLost(p)
    PROVE  [V!Next]_(V!vars)
<1>1. ASSUME NEW g \in Stagings, Stage(g) \/ StageRefused(g) PROVE V!Ask(g)
  BY <1>1 DEF Stage, StageRefused, Answer, V!Ask
<1>2. ASSUME NEW g \in Stagings, Deadline(g) PROVE UNCHANGED V!vars
  BY <1>2 DEF Deadline, V!vars
<1>3. ASSUME NEW p \in Pods, StartPod(p) \/ Collected(p) PROVE UNCHANGED V!vars
  BY <1>3 DEF StartPod, CanStart, Collected, V!vars
<1>4. ASSUME NEW p \in Pods, PodLost(p) PROVE V!Disturb({p[1]})
  BY <1>4 DEF PodLost, Active, V!Disturb, StagingInv, Requested
<1>5. QED  BY <1>1, <1>2, <1>3, <1>4, PodStaging DEF V!Next

\* The recipe settles what a pod will report before opi has its report.
LEMMA RecipeRefines ==
    ASSUME StagingInv, NEW p \in Pods, Recipe(p)
    PROVE  [V!Next]_(V!vars)
<1>1. CASE Upload(p)
  <2>1. Heard' = Heard
    BY <1>1 DEF Upload, Succeeds, respondWithFailure, Heard, StagingInv,
       StagingTypeOK, ReportShape
  <2>2. answer[p[1]] # "none"
    BY <1>1 DEF Upload, Succeeds, respondWithFailure, StagingInv, Requested
  <2>3. V!Upload(p[1]) \/ UNCHANGED V!vars
    BY <1>1, <2>1, <2>2 DEF Upload, V!Upload, V!vars, Heard
  <2>4. QED  BY <2>3, PodStaging DEF V!Next
<1>2. CASE ~Upload(p)
  <2>1. Heard' = Heard /\ UNCHANGED <<answer, jobs, uploaded, disturbed>>
    BY <1>2 DEF Recipe, MainFails, Install, Build, createSuccessResponse,
       sendCompleteResponse, ExecuteRecipeReturns, Succeeds, respondWithFailure, Heard,
       StagingInv, StagingTypeOK, ReportShape
  <2>2. QED  BY <2>1 DEF V!vars, Heard
<1>3. QED  BY <1>1, <1>2

\* A report that opi passes on is the first of a staging that nothing
\* disturbed, and comes while the Job is there.
LEMMA FirstReport ==
    ASSUME StagingInv, NEW p \in Pods, call[p] = "post", p[1] \notin disturbed
    PROVE  p[1] \in jobs /\ ~V!HeardOf(p[1])
<1>1. ASSUME NEW q \in told, q[1] = p[1] PROVE FALSE
  <2>1. q \in Pods /\ q # p
    BY <1>1 DEF StagingInv, StagingTypeOK, ReportShape
  <2>2. pod[p] # "none" /\ pod[q] # "none"
    BY <1>1, <2>1 DEF StagingInv, ReportShape
  <2>3. Earlier(p, q) \/ Earlier(q, p)
    BY <1>1, <2>1, StagingAssumption DEF Earlier, Pods
  <2>4. QED  BY <1>1, <2>1, <2>2, <2>3 DEF StagingInv, RetriedIsSilent, Earlier
<1>2. pod[p] # "none"
  BY DEF StagingInv, ReportShape
<1>3. QED  BY <1>1, <1>2, HeardOfTold, PodStaging DEF StagingInv, StartedKept

\* Calling the CC back tells it, and only then the Job is deleted.
LEMMA CompleteStagingRefines ==
    ASSUME StagingInv, (\E p \in Pods : CompleteStaging(p)) \/ OpiCrash
    PROVE  [V!Next]_(V!vars)
<1>1. ASSUME NEW p \in Pods, executeRequest(p) PROVE [V!Next]_(V!vars)
  <2>1. CASE UNCHANGED told
    <3>1. disturbed' \in {disturbed, disturbed \cup {p[1]}} /\ answer[p[1]] # "none"
      BY <1>1 DEF executeRequest, CallGoes, StagingInv, Requested, ReportShape
    <3>2. V!Disturb({p[1]}) \/ UNCHANGED V!vars
      BY <1>1, <2>1, <3>1 DEF executeRequest, V!Disturb, V!vars
    <3>3. QED  BY <3>2, PodStaging DEF V!Next
  <2>2. CASE told' = told \cup {p}
    <3>1. call[p] = "post" /\ disturbed' \in {disturbed, disturbed \cup {p[1]}}
      BY <1>1 DEF executeRequest, CallGoes
    <3>2. PICK v \in {"staged", "failed"} : v = verdict[p]
      BY <3>1 DEF StagingInv, StagingTypeOK, ReportShape
    <3>3. Heard' = [Heard EXCEPT ![p] = v]
      BY <1>1, <2>2, <3>2 DEF executeRequest, Heard
    <3>4. Heard[p] = "none"
      BY <3>1 DEF Heard, StagingInv, ReportShape
    <3>5. v = "staged" => p[1] \in uploaded
      BY <3>2 DEF StagingInv, ReportShape
    <3>6. V!Tell(p, v)
      BY <1>1, <3>1, <3>3, <3>4, <3>5, FirstReport DEF executeRequest, V!Tell, Heard
    <3>7. QED  BY <3>6 DEF V!Next, V!All, Pods
  <2>3. QED  BY <1>1, <2>1, <2>2 DEF executeRequest
<1>2. ASSUME NEW p \in Pods, DeleteTask(p) PROVE [V!Next]_(V!vars)
  <2>1. p \in told /\ answer[p[1]] # "none"
    BY <1>2 DEF DeleteTask, CallGoes, StagingInv, ReportShape, Requested
  <2>2. V!HeardOf(p[1])
    BY <2>1, HeardOfTold, PodStaging
  <2>3. V!Drop(p[1]) \/ V!Disturb({p[1]}) \/ UNCHANGED V!vars
    BY <1>2, <2>1, <2>2 DEF DeleteTask, V!Drop, V!Disturb, V!vars
  <2>4. QED  BY <2>3, PodStaging DEF V!Next
<1>3. CASE OpiCrash
  <2> DEFINE G == {p[1] : p \in {q \in Pods : call[q] \in {"post", "delete"}}}
  <2>1. G \in SUBSET Stagings
    BY PodStaging
  <2>2. \A g \in G : answer[g] # "none"
    BY DEF StagingInv, Requested, ReportShape
  <2>3. V!Disturb(G)
    BY <1>3, <2>2 DEF OpiCrash, V!Disturb
  <2>4. QED  BY <2>1, <2>3 DEF V!Next
<1>4. QED  BY <1>1, <1>2, <1>3 DEF CompleteStaging

(***************************************************************************)
(* Staging implements Verdicts, for any stagings and any backoff limit:    *)
(* through retries, deadlines, crashes of opi and lost answers the CC sees *)
(* each report once, a success only with its droplet, and one verdict of   *)
(* an undisturbed staging, taken before its Job goes (stager/stager.go,    *)
(* recipe/execute.go).                                                     *)
(***************************************************************************)
THEOREM StagingRefinesVerdicts == Spec => ImplementsVerdicts
<1>1. Init => V!Init
  BY DEF Init, V!Init, V!All, Pods
<1>2. StagingInv /\ [Next]_vars => [V!Next]_(V!vars)
  <2> SUFFICES ASSUME StagingInv, [Next]_vars PROVE [V!Next]_(V!vars)
    OBVIOUS
  <2>1. CASE UNCHANGED vars
    BY <2>1 DEF vars, V!vars
  <2>2. CASE Next
    BY <2>2, OutsideRefines, RecipeRefines, CompleteStagingRefines DEF Next
  <2>3. QED  BY <2>1, <2>2
<1>3. QED
  BY <1>1, <1>2, StagingInvariance, PTL DEF Spec, V!Spec, ImplementsVerdicts
=============================================================================
