------------------------------ MODULE Verdicts -------------------------------
(***************************************************************************)
(* What staging promises the Cloud Controller (CC), whatever happens       *)
(* between its request and the callback.  Only requests make Jobs.  Every  *)
(* report is heard at most once and says that the app is staged only when  *)
(* its droplet is there; a Job goes only when its staging was heard of;    *)
(* and a staging that nothing disturbed is heard of once, while its Job is *)
(* there.  Pods, retries, deadlines and the opi process do not appear.     *)
(***************************************************************************)
CONSTANTS
    Stagings,           \* staging guids
    Reports             \* the reports there can be of one staging

VARIABLES
    answer,             \* the answer to the staging request
    jobs,               \* stagings that have a Job
    droplets,           \* stagings whose droplet the CC has
    heard,              \* what the CC was told by each report
    disturbed           \* stagings hit by a lost answer, pod or process

vars == <<answer, jobs, droplets, heard, disturbed>>

All == Stagings \X Reports

HeardOf(g) == \E r \in All : r[1] = g /\ heard[r] # "none"

Init ==
    /\ answer = [g \in Stagings |-> "none"]
    /\ jobs = {}
    /\ droplets = {}
    /\ heard = [r \in All |-> "none"]
    /\ disturbed = {}

\* A refused request may have left a Job behind, an accepted one has one.
Ask(g) ==
    /\ answer[g] = "none"
    /\ \/ /\ answer' = [answer EXCEPT ![g] = "accepted"]
          /\ jobs' = jobs \cup {g}
       \/ /\ answer' = [answer EXCEPT ![g] = "refused"]
          /\ jobs' \in {jobs, jobs \cup {g}}
    /\ UNCHANGED <<droplets, heard, disturbed>>

Upload(g) ==
    /\ answer[g] # "none"
    /\ droplets' = droplets \cup {g}
    /\ UNCHANGED <<answer, jobs, heard, disturbed>>

\* The staging may be disturbed in the same step: the CC's answer is lost.
Tell(r, v) ==
    /\ heard[r] = "none"
    /\ v = "staged" => r[1] \in droplets
    /\ r[1] \notin disturbed => r[1] \in jobs /\ ~HeardOf(r[1])
    /\ heard' = [heard EXCEPT ![r] = v]
    /\ disturbed' \in {disturbed, disturbed \cup {r[1]}}
    /\ UNCHANGED <<answer, jobs, droplets>>

Drop(g) ==
    /\ g \in jobs
    /\ HeardOf(g)
    /\ jobs' = jobs \ {g}
    /\ disturbed' \in {disturbed, disturbed \cup {g}}
    /\ UNCHANGED <<answer, droplets, heard>>

\* A process dies or a call is lost: that may concern many stagings.
Disturb(G) ==
    /\ \A g \in G : answer[g] # "none"
    /\ disturbed' = disturbed \cup G
    /\ UNCHANGED <<answer, jobs, droplets, heard>>

Next ==
    \/ \E g \in Stagings : Ask(g) \/ Upload(g) \/ Drop(g)
    \/ \E r \in All, v \in {"staged", "failed"} : Tell(r, v)
    \/ \E G \in SUBSET Stagings : Disturb(G)

Spec == Init /\ [][Next]_vars
=============================================================================
