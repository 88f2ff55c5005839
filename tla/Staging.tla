------------------------------- MODULE Staging -------------------------------
(***************************************************************************)
(* Staging of an app: the Cloud Controller (CC) asks opi to stage          *)
(* (handler/stage_handler.go, stager/stager.go), opi creates a Kubernetes  *)
(* Job (k8s/desiretask.go), a pod of the Job runs the recipe               *)
(* (recipe/cmd/recipe.go, recipe/execute.go) and reports to opi, opi calls *)
(* the CC back and deletes the Job.                                        *)
(*                                                                         *)
(* The CC, the Job controller and the garbage collector are external.  The *)
(* Job's pods are never restarted (RestartPolicyNever), but the controller *)
(* starts another pod when one fails, up to its backoff limit, and none    *)
(* after ActiveDeadlineSeconds.  The n-th pod of staging g is <<g, n>>; it *)
(* reports at most once, so it also names opi's handling of its report.    *)
(* The HTTP server finishes a handler whose client is gone.                *)
(***************************************************************************)
EXTENDS Naturals

CONSTANTS
    Stagings,           \* staging guids
    MaxPods             \* pods a Job may start: its backoff limit and one

ASSUME StagingAssumption == MaxPods \in Nat \ {0}

Pods == Stagings \X (1..MaxPods)

VARIABLES
    answer,             \* opi's answer to the staging request
    jobs,               \* Jobs in the cluster, named by their staging
    expired,            \* Jobs past their deadline
    pod,                \* where the recipe of a pod is
    verdict,            \* what the pod reports
    call,               \* where opi is with the report of a pod
    uploaded,           \* stagings whose droplet the CC has
    told,               \* pods whose verdict the CC has taken
    disturbed           \* history: stagings hit by a lost answer, pod or process

vars == <<answer, jobs, expired, pod, verdict, call, uploaded, told, disturbed>>

PodLabels  == {"none", "install", "build", "upload", "result", "report", "wait",
               "done", "failed"}
CallLabels == {"none", "post", "delete", "ok", "error"}

Active(p) == pod[p] \in {"install", "build", "upload", "result", "report", "wait"}

Earlier(p, q) == p[1] = q[1] /\ p[2] < q[2]

Init ==
    /\ answer = [g \in Stagings |-> "none"]
    /\ jobs = {}
    /\ expired = {}
    /\ pod = [p \in Pods |-> "none"]
    /\ verdict = [p \in Pods |-> "none"]
    /\ call = [p \in Pods |-> "none"]
    /\ uploaded = {}
    /\ told = {}
    /\ disturbed = {}
-----------------------------------------------------------------------------
(***************************************************************************)
(* The staging request.  It is turned down, with no effect, when the body  *)
(* or the lifecycle data cannot be parsed or the Job cannot be created.    *)
(***************************************************************************)
Answer(g, a) == answer' = [answer EXCEPT ![g] = a]

Stage(g) ==
    /\ answer[g] = "none"
    /\ jobs' = jobs \cup {g}
    /\ \/ Answer(g, "accepted")
       \/ Answer(g, "refused")          \* the answer of the API server is lost
    /\ UNCHANGED <<expired, pod, verdict, call, uploaded, told, disturbed>>

StageRefused(g) ==
    /\ answer[g] = "none"
    /\ Answer(g, "refused")
    /\ UNCHANGED <<jobs, expired, pod, verdict, call, uploaded, told, disturbed>>
-----------------------------------------------------------------------------
(***************************************************************************)
(* The Job controller and the garbage collector.                           *)
(***************************************************************************)
\* Another pod when all those before it have failed.
CanStart(p) ==
    /\ p[1] \in jobs \ expired
    /\ pod[p] = "none"
    /\ \A q \in Pods : Earlier(q, p) => pod[q] = "failed"

StartPod(p) ==
    /\ CanStart(p)
    /\ pod' = [pod EXCEPT ![p] = "install"]
    /\ UNCHANGED <<answer, jobs, expired, verdict, call, uploaded, told, disturbed>>

\* ActiveDeadlineSeconds are over: the pod is killed, no other one is started.
Deadline(g) ==
    /\ g \in jobs \ expired
    /\ expired' = expired \cup {g}
    /\ pod' = [p \in Pods |-> IF p[1] = g /\ Active(p) THEN "failed" ELSE pod[p]]
    /\ UNCHANGED <<answer, jobs, verdict, call, uploaded, told, disturbed>>

\* A deleted Job takes its pod along (background propagation).
Collected(p) ==
    /\ Active(p)
    /\ p[1] \notin jobs
    /\ pod' = [pod EXCEPT ![p] = "failed"]
    /\ UNCHANGED <<answer, jobs, expired, verdict, call, uploaded, told, disturbed>>

\* A pod goes down with its node, or is evicted.
PodLost(p) ==
    /\ Active(p)
    /\ p[1] \in jobs
    /\ pod' = [pod EXCEPT ![p] = "failed"]
    /\ disturbed' = disturbed \cup {p[1]}
    /\ UNCHANGED <<answer, jobs, expired, verdict, call, uploaded, told>>
-----------------------------------------------------------------------------
(***************************************************************************)
(* The recipe.  A step that fails is reported, unless it comes before the  *)
(* first step (main) or after the upload (createSuccessResponse).          *)
(***************************************************************************)
Succeeds(p, from, to) ==
    /\ pod[p] = from
    /\ pod' = [pod EXCEPT ![p] = to]
    /\ UNCHANGED verdict

respondWithFailure(p, from) ==
    /\ pod[p] = from
    /\ pod' = [pod EXCEPT ![p] = "report"]
    /\ verdict' = [verdict EXCEPT ![p] = "failed"]

\* The client of the CC cannot be set up: the recipe exits.
MainFails(p) ==
    /\ Succeeds(p, "install", "failed")
    /\ UNCHANGED <<answer, jobs, expired, call, uploaded, told, disturbed>>

Install(p) ==
    /\ Succeeds(p, "install", "build") \/ respondWithFailure(p, "install")
    /\ UNCHANGED <<answer, jobs, expired, call, uploaded, told, disturbed>>

Build(p) ==
    /\ Succeeds(p, "build", "upload") \/ respondWithFailure(p, "build")
    /\ UNCHANGED <<answer, jobs, expired, call, uploaded, told, disturbed>>

\* Mutant: the error of the upload is not looked at.
UploadUnchecked(p) ==
    /\ Succeeds(p, "upload", "result")
    /\ uploaded' \in {uploaded, uploaded \cup {p[1]}}
    /\ UNCHANGED <<answer, jobs, expired, call, told, disturbed>>

\* An upload that fails may still have arrived.
Upload(p) ==
    /\ \/ /\ Succeeds(p, "upload", "result")
          /\ uploaded' = uploaded \cup {p[1]}
       \/ /\ respondWithFailure(p, "upload")
          /\ uploaded' \in {uploaded, uploaded \cup {p[1]}}
    /\ UNCHANGED <<answer, jobs, expired, call, told, disturbed>>

\* result.json is missing or malformed, or names a buildpack the CC did not
\* provide: the recipe exits.
createSuccessResponse(p) ==
    /\ pod[p] = "result"
    /\ \/ /\ pod' = [pod EXCEPT ![p] = "report"]
          /\ verdict' = [verdict EXCEPT ![p] = "staged"]
       \/ Succeeds(p, "result", "failed")
    /\ UNCHANGED <<answer, jobs, expired, call, uploaded, told, disturbed>>

\* The report reaches opi, or it does not and the recipe exits.
sendCompleteResponse(p) ==
    /\ \/ /\ Succeeds(p, "report", "wait")
          /\ call' = [call EXCEPT ![p] = "post"]
       \/ /\ Succeeds(p, "report", "failed")
          /\ UNCHANGED call
    /\ UNCHANGED <<answer, jobs, expired, uploaded, told, disturbed>>

\* The recipe has its answer and exits.  A pod that reported a failure fails.
ExecuteRecipeReturns(p) ==
    /\ pod[p] = "wait"
    /\ call[p] \in {"ok", "error"}
    /\ Succeeds(p, "wait", IF call[p] = "ok" /\ verdict[p] = "staged"
                           THEN "done" ELSE "failed")
    /\ UNCHANGED <<answer, jobs, expired, call, uploaded, told, disturbed>>
-----------------------------------------------------------------------------
(***************************************************************************)
(* CompleteStaging: call the CC back, then delete the Job.                 *)
(***************************************************************************)
CallGoes(p, from, to) ==
    /\ call[p] = from
    /\ call' = [call EXCEPT ![p] = to]

\* Mutant: the handler goes on whatever the CC answers.
executeRequestUnchecked(p) ==
    /\ CallGoes(p, "post", "delete")
    /\ told' \in {told, told \cup {p}}
    /\ UNCHANGED <<answer, jobs, expired, pod, verdict, uploaded, disturbed>>

\* Mutant: the report is answered before the Job is deleted.
executeRequestAnswered(p) ==
    /\ \/ CallGoes(p, "post", "ok") /\ told' = told \cup {p}
       \/ CallGoes(p, "post", "error") /\ UNCHANGED told
    /\ UNCHANGED <<answer, jobs, expired, pod, verdict, uploaded, disturbed>>

\* Mutant: the error of the CC is logged and the report answered with a 200.
executeRequestSwallowed(p) ==
    /\ \/ CallGoes(p, "post", "delete") /\ told' = told \cup {p}
       \/ CallGoes(p, "post", "ok") /\ UNCHANGED told
    /\ UNCHANGED <<answer, jobs, expired, pod, verdict, uploaded, disturbed>>

\* The CC takes the verdict, or turns it down, or takes it and its answer is lost.
executeRequest(p) ==
    /\ \/ /\ CallGoes(p, "post", "delete")
          /\ told' = told \cup {p}
          /\ UNCHANGED disturbed
       \/ /\ CallGoes(p, "post", "error")
          /\ UNCHANGED <<told, disturbed>>
       \/ /\ CallGoes(p, "post", "error")
          /\ told' = told \cup {p}
          /\ disturbed' = disturbed \cup {p[1]}
    /\ UNCHANGED <<answer, jobs, expired, pod, verdict, uploaded>>

DeleteTask(p) ==
    /\ \/ /\ CallGoes(p, "delete", "ok")
          /\ p[1] \in jobs
          /\ jobs' = jobs \ {p[1]}
          /\ UNCHANGED disturbed
       \/ /\ CallGoes(p, "delete", "error")
          /\ p[1] \notin jobs
          /\ UNCHANGED <<jobs, disturbed>>
       \/ /\ CallGoes(p, "delete", "error")       \* done or not, the call fails
          /\ jobs' \in {jobs, jobs \ {p[1]}}
          /\ disturbed' = disturbed \cup {p[1]}
    /\ UNCHANGED <<answer, expired, pod, verdict, uploaded, told>>

\* The opi process dies: the reports it was handling are not answered.
OpiCrash ==
    LET open == {p \in Pods : call[p] \in {"post", "delete"}} IN
    /\ open # {}
    /\ call' = [p \in Pods |-> IF p \in open THEN "error" ELSE call[p]]
    /\ disturbed' = disturbed \cup {p[1] : p \in open}
    /\ UNCHANGED <<answer, jobs, expired, pod, verdict, uploaded, told>>
-----------------------------------------------------------------------------
Recipe(p) ==
    \/ MainFails(p) \/ Install(p) \/ Build(p) \/ Upload(p)
    \/ createSuccessResponse(p) \/ sendCompleteResponse(p)
    \/ ExecuteRecipeReturns(p)

CompleteStaging(p) == executeRequest(p) \/ DeleteTask(p)

Next ==
    \/ \E g \in Stagings : Stage(g) \/ StageRefused(g) \/ Deadline(g)
    \/ \E p \in Pods : StartPod(p) \/ Collected(p) \/ PodLost(p)
    \/ \E p \in Pods : Recipe(p) \/ CompleteStaging(p)
    \/ OpiCrash

Spec == Init /\ [][Next]_vars

(***************************************************************************)
(* The Job controller starts pods it may start, recipes and handlers that  *)
(* can go on do.  Nobody has to fail, and the deadline need not be reached.*)
(***************************************************************************)
Fairness ==
    \A p \in Pods : /\ WF_vars(StartPod(p))
                    /\ WF_vars(Recipe(p))
                    /\ WF_vars(CompleteStaging(p))

FairSpec == Spec /\ Fairness
-----------------------------------------------------------------------------
\* Every variable has its type.
StagingTypeOK ==
    /\ answer \in [Stagings -> {"none", "accepted", "refused"}]
    /\ jobs \subseteq Stagings
    /\ expired \subseteq Stagings
    /\ pod \in [Pods -> PodLabels]
    /\ verdict \in [Pods -> {"none", "staged", "failed"}]
    /\ call \in [Pods -> CallLabels]
    /\ uploaded \subseteq Stagings
    /\ told \subseteq Pods
    /\ disturbed \subseteq Stagings

(***************************************************************************)
(* The CC is told of a success only when it has the droplet, whatever      *)
(* failed on the way and however often the recipe was tried                *)
(* (recipe/execute.go).                                                    *)
(***************************************************************************)
SuccessHasDroplet ==
    \A p \in told : verdict[p] = "staged" => p[1] \in uploaded

(***************************************************************************)
(* Eirini deletes the Job of a staging only when the CC has taken its      *)
(* verdict: until then the Job can try again (CompleteStaging in           *)
(* stager/stager.go).                                                      *)
(***************************************************************************)
JobKeptUntilTold ==
    \A g \in Stagings : answer[g] = "accepted" /\ g \notin jobs =>
        \E p \in told : p[1] = g

(***************************************************************************)
(* A pod that reports a failure fails, and a failed pod is tried again;    *)
(* the CC still takes one verdict only, because the Job is deleted before  *)
(* the pod is answered (CompleteStaging).  This is for stagings that no    *)
(* lost answer, pod or process disturbed: those may be told again.         *)
(***************************************************************************)
ToldOnce ==
    \A p, q \in told : p[1] = q[1] /\ p[1] \notin disturbed => p = q

(***************************************************************************)
(* All that the CC sees of a staging is what Verdicts promises: nothing    *)
(* but a request makes a Job, a report is heard once and never taken back, *)
(* and what was heard of an undisturbed staging was heard while its Job    *)
(* was there (stager/stager.go, recipe/execute.go).  This follows every    *)
(* step, where the three properties above look at single states.           *)
(***************************************************************************)
V == INSTANCE Verdicts WITH
        Reports  <- 1..MaxPods,
        droplets <- uploaded,
        heard    <- [p \in Pods |-> IF p \in told THEN verdict[p] ELSE "none"]

ImplementsVerdicts == V!Spec

\* The Job of a staging will not start another pod, and none of its pods runs.
GaveUp(g) ==
    LET mine == {p \in Pods : p[1] = g} IN
    /\ g \in expired \/ \A p \in mine : pod[p] = "failed"
    /\ \A p \in mine : ~Active(p)

(***************************************************************************)
(* An accepted staging of which the CC has heard nothing is never stuck:   *)
(* the Job has given up, or it can start a pod, or one is at work, and one *)
(* that waits for opi has a report that is handled or answered, also when  *)
(* opi has crashed (recipe/execute.go, stager/stager.go).  This is what    *)
(* StagingEnds needs besides fairness.                                     *)
(***************************************************************************)
NeverStuck ==
    \A g \in Stagings : answer[g] = "accepted" =>
        \/ GaveUp(g)
        \/ \E p \in told : p[1] = g
        \/ \E p \in Pods :
              /\ p[1] = g
              /\ CanStart(p) \/ Active(p)
              /\ pod[p] = "wait" => call[p] # "none"

(***************************************************************************)
(* An accepted staging comes to an end: the CC takes a verdict or the Job  *)
(* has failed.  No pod waits forever for opi and no report is left         *)
(* unanswered, even if opi crashes (recipe/execute.go, stager/stager.go).  *)
(***************************************************************************)
StagingEnds ==
    \A g \in Stagings :
        answer[g] = "accepted" ~> (GaveUp(g) \/ \E p \in told : p[1] = g)
-----------------------------------------------------------------------------
(***************************************************************************)
(* The inductive invariant behind the theorems of StagingProofs.           *)
(***************************************************************************)
\* Jobs and pods are those of requests that came.
Requested ==
    /\ \A g \in jobs : answer[g] # "none"
    /\ \A p \in Pods : pod[p] # "none" => answer[p[1]] # "none"

\* A pod reports once, at the end, and a success only with the droplet.
ReportShape(p) ==
    /\ call[p] # "none" => pod[p] \in {"wait", "done", "failed"}
    /\ pod[p] = "wait" => call[p] # "none"
    /\ pod[p] = "done" => call[p] = "ok"
    /\ p \in told => call[p] \in {"delete", "ok", "error"}
    /\ call[p] \in {"delete", "ok"} => p \in told
    /\ pod[p] = "report" \/ call[p] # "none" => verdict[p] # "none"
    /\ pod[p] = "result" \/ verdict[p] = "staged" => p[1] \in uploaded

\* The Job of a pod that was started goes only when the CC was told.
StartedKept(p) ==
    pod[p] # "none" /\ p[1] \notin jobs => \E q \in told : q[1] = p[1]

\* A report that was answered with a success has cost the Job.
Answered(p) == call[p] = "ok" => p[1] \notin jobs

\* While its Job can try again, a failed pod has told the CC nothing.
FailedUntold(p) ==
    /\ p[1] \in jobs /\ p \in told => call[p] = "delete"
    /\ p[1] \in jobs \ expired /\ pod[p] = "failed" => call[p] \in {"none", "error"}

\* A pod that was tried again has failed, and will not be heard of any more.
RetriedIsSilent(p, q) ==
    Earlier(p, q) /\ pod[q] # "none" =>
        /\ pod[p] = "failed"
        /\ p[1] \notin disturbed => p \notin told /\ call[p] \in {"none", "error"}

(***************************************************************************)
(* A failed pod whose Job may start another one is over for the CC, unless *)
(* its staging was disturbed; a pod has told the CC before its Job goes.   *)
(***************************************************************************)
StagingInv ==
    /\ StagingTypeOK
    /\ Requested
    /\ JobKeptUntilTold
    /\ \A p \in Pods : ReportShape(p) /\ Answered(p) /\ StartedKept(p)
    /\ \A p \in Pods : p[1] \notin disturbed => FailedUntold(p)
    /\ \A p, q \in Pods : RetriedIsSilent(p, q)
=============================================================================
