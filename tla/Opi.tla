--------------------------------- MODULE Opi ---------------------------------
(***************************************************************************)
(* The life of the opi process (cmd/opi/cmd/connect.go): it reads its      *)
(* configuration, makes its clients, launches the emitter and the          *)
(* collector and serves requests.  Whatever fails on the way ends it, and  *)
(* it is started again.  Eirini is the process that has come up; here the  *)
(* parts of Eirini run only when they have been started, and a crash is    *)
(* followed by a new start-up during which the router goes on forgetting.  *)
(***************************************************************************)
EXTENDS Eirini

VARIABLES
    boot,               \* the step of connect that comes next
    goroutines          \* what launchRouteEmitter has started

opiVars == <<boot, goroutines>>
ovars == <<allVars, opiVars>>

Steps == {"config", "stager", "bifrost", "routes", "listen", "serving"}

OpiInit == EiriniInit /\ boot = "config" /\ goroutines = {}

Pass(from, to) ==
    /\ boot = from
    /\ boot' = to
    /\ UNCHANGED allVars

setConfigFromFile == Pass("config", "stager") /\ UNCHANGED goroutines

\* A Kubernetes client is made of the configuration.
initStager == Pass("stager", "bifrost") /\ UNCHANGED goroutines

\* The Cloud Controller is asked for its endpoints.
initBifrost == Pass("bifrost", "routes") /\ UNCHANGED goroutines

\* Mutant: the collector is never started.
launchRouteEmitterOnly == Pass("routes", "listen") /\ goroutines' = {"emitter"}

\* Mutant: neither goroutine is started.
launchNobody == Pass("routes", "listen") /\ UNCHANGED goroutines

\* NATS is connected and the two goroutines start.
launchRouteEmitter ==
    /\ Pass("routes", "listen")
    /\ goroutines' = {"emitter", "collector"}

ListenAndServe == Pass("listen", "serving") /\ UNCHANGED goroutines

(***************************************************************************)
(* exitWithError, or the process is ended while it serves nobody: it       *)
(* starts again, with nothing in its memory.  See ProcessCrash for the end *)
(* of a process that is serving.                                           *)
(***************************************************************************)
Exit ==
    /\ \A h \in Handlers : pc[h] = "idle"
    /\ R!Lose
    /\ boot' = "config"
    /\ goroutines' = {}
    /\ collecting' = FALSE
    /\ snapshot' = {}
    /\ waited' = 0
    /\ emitting' = {}
    /\ UNCHANGED <<vars, table, age>>

Crashes == ProcessCrash /\ boot' = "config" /\ goroutines' = {}

\* External: the router's clock goes on without the collector.
RouterWaits ==
    /\ "collector" \notin goroutines
    /\ R!Age
    /\ UNCHANGED <<vars, collecting, snapshot, waited, emitting, table, lost, opiVars>>
-----------------------------------------------------------------------------
Connect ==
    \/ setConfigFromFile \/ initStager \/ initBifrost \/ launchRouteEmitter
    \/ ListenAndServe

\* Requests come when the process listens, and the handler's steps follow.
Serves(h) == boot = "serving" /\ RequestComes(h) /\ UNCHANGED opiVars

Handles(h) == HandlerAlone(h) /\ UNCHANGED opiVars

Fails(h) == RequestFails(h) /\ UNCHANGED opiVars

Sends(h) == "emitter" \in goroutines /\ SendRoutes(h) /\ UNCHANGED opiVars

Ticks ==
    /\ "collector" \in goroutines
    /\ R!Tick \/ R!TickFails
    /\ UNCHANGED <<vars, opiVars>>

Waits == R!TickBlocked /\ UNCHANGED <<vars, opiVars>>

Collects ==
    /\ {"collector", "emitter"} \subseteq goroutines
    /\ R!Collect
    /\ UNCHANGED <<vars, opiVars>>

Emits == "emitter" \in goroutines /\ R!Emit /\ UNCHANGED <<vars, opiVars>>

Prunes(u) == R!Prune(u) /\ UNCHANGED <<vars, opiVars>>

OpiNext ==
    \/ Connect \/ Exit \/ Crashes \/ RouterWaits
    \/ \E h \in Handlers : Serves(h) \/ Handles(h) \/ Fails(h) \/ Sends(h)
    \/ Ticks \/ Waits \/ Collects \/ Emits
    \/ \E u \in Uris : Prunes(u)

OpiSpec == OpiInit /\ [][OpiNext]_ovars

\* As for Eirini; and a start-up that nothing goes wrong with comes to its end.
FairOpiSpec ==
    /\ OpiSpec
    /\ WF_ovars(Connect)
    /\ \A h \in Handlers : WF_ovars(Handles(h)) /\ SF_ovars(Sends(h))
    /\ WF_ovars(Ticks) /\ SF_ovars(Collects) /\ WF_ovars(Emits)
    /\ \A u \in Uris : WF_ovars(Prunes(u))
-----------------------------------------------------------------------------
\* Requests are handled by a process that has come up, and has both goroutines.
BootOrder ==
    /\ boot \in Steps
    /\ goroutines \subseteq {"emitter", "collector"}
    /\ boot \in {"listen", "serving"} => goroutines = {"emitter", "collector"}
    /\ boot # "serving" => \A h \in Handlers : pc[h] = "idle"

\* Every variable has its type, and the start-up its order (connect in connect.go).
OpiTypeOK == EiriniTypeOK /\ BootOrder

(***************************************************************************)
(* RequestsAnswered says here that the emitter runs before the first       *)
(* request is taken on, so that none waits on the channel for somebody who *)
(* is not there.  RouterConverges says that every start-up, however often  *)
(* it failed before, brings the router's table back to the routes of the   *)
(* Services.  RoutesAvailable, which EiriniProofs shows of Opi too, says   *)
(* that no app settles before the collector runs.                          *)
(***************************************************************************)
-----------------------------------------------------------------------------
\* While no collector runs there is nothing to collect, or something is lost:
\* the process that had the routes announced is dead.
NothingToCollect ==
    "collector" \notin goroutines /\ lost = 0 => \A a \in Apps : routes[a] = {}
=============================================================================
