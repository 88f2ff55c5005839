------------------------------- MODULE Eirini -------------------------------
(***************************************************************************)
(* The opi process: app requests (Desirer) and the propagation of routes   *)
(* (Routes) together.  They meet in two places: a handler hands its routes *)
(* message to the emitter over the unbuffered channel (cmd/opi/cmd/        *)
(* connect.go), so it waits while the emitter is busy and competes with    *)
(* the collector, and the collector reads the Services that handlers       *)
(* write.                                                                  *)
(***************************************************************************)
EXTENDS Desirer

CONSTANTS
    UrisOf,             \* the URIs that users may map to an app
    TTL,                \* see Routes
    MaxWait,
    MaxLost

ASSUME EiriniAssumption ==
    /\ UrisOf \in [Apps -> SUBSET Uris]
    /\ TTL \in Nat /\ MaxWait \in Nat /\ MaxLost \in Nat

\* An entry outlives two waits of the collector, which may list a route just too
\* late for one batch, and the tick between them: 120s against ticks of 15s.
ASSUME TTLAssumption == TTL > 2 * MaxWait + 1

VARIABLES collecting, snapshot, waited, emitting, table, age, lost

\* The Services that ListRoutes looks at: those of apps, and no headless ones.
AppServices == [a \in {b \in Apps : Svc(b) \in live} |-> routes[a]]

R == INSTANCE Routes WITH services <- AppServices

routingVars == <<collecting, snapshot, waited, emitting, table, age, lost>>
allVars == <<vars, routingVars>>

EiriniInit == Init /\ R!RoutesInit

\* The rendezvous on the routes channel.
SendRoutes(h) ==
    /\ Send(h)
    /\ R!Receive({RoutesMessage(h)})
    /\ UNCHANGED <<collecting, snapshot, waited, table, age, lost>>

\* Any other step of a handler.
HandlerAlone(h) == HandlerStep(h) /\ UNCHANGED routingVars

RequestComes(h) ==
    /\ Arrive(h)
    /\ req'[h].uris \subseteq UrisOf[req'[h].app]
    /\ UNCHANGED routingVars

RequestFails(h) == CallFails(h) /\ UNCHANGED routingVars

\* Handlers, collector and emitter are goroutines of one process.
ProcessCrash == Crash /\ R!Restart

RoutesStep == R!RoutesNext /\ UNCHANGED vars

EiriniNext ==
    \/ \E h \in Handlers :
          RequestComes(h) \/ HandlerAlone(h) \/ SendRoutes(h) \/ RequestFails(h)
    \/ ProcessCrash
    \/ RoutesStep

(***************************************************************************)
(* Goroutines that can run do run.  A goroutine blocked on the channel     *)
(* gets its turn if the emitter comes back to receive again and again:     *)
(* Go queues blocked senders first in, first out.  No request has to come  *)
(* and no call has to fail.                                                *)
(***************************************************************************)
Fairness ==
    /\ \A h \in Handlers : WF_allVars(HandlerAlone(h)) /\ SF_allVars(SendRoutes(h))
    /\ WF_allVars(R!Tick /\ UNCHANGED vars)
    /\ SF_allVars(R!Collect /\ UNCHANGED vars)
    /\ WF_allVars(R!Emit /\ UNCHANGED vars)
    /\ \A u \in Uris : WF_allVars(R!Prune(u) /\ UNCHANGED vars)

EiriniSpec == EiriniInit /\ [][EiriniNext]_allVars

FairEiriniSpec == EiriniSpec /\ Fairness
-----------------------------------------------------------------------------
\* Every variable of the composition has its type.
EiriniTypeOK == TypeOK /\ R!RoutesTypeOK

(***************************************************************************)
(* No route of a settled app is missing from the router: it is in the      *)
(* table, or the emitter is about to publish it, however requests for this *)
(* app and others, ticks and slow publishes interleave, and it does not    *)
(* expire meanwhile, nor while the collector is blocked for up to MaxWait  *)
(* ticks (k8s/service.go, route/collector.go).  This is for URIs that no   *)
(* other app can have, while nothing was lost.                             *)
(***************************************************************************)
Exclusive(u, a) == \A b \in Apps \ {a} : u \notin UrisOf[b]

RoutesAvailable ==
    \A a \in Apps : Settled(a) /\ lost = 0 =>
        \A u \in routes[a] : Exclusive(u, a) =>
            u \in table \/ \E m \in emitting : u \in m.routes

(***************************************************************************)
(* Every request is answered: a handler that waits for the emitter is      *)
(* served in spite of the collector and the other handlers, so none hangs  *)
(* on the unbuffered channel (cmd/opi/cmd/connect.go).                     *)
(***************************************************************************)
RequestsAnswered ==
    \A h \in Handlers : pc[h] # "idle" ~> pc[h] = "idle"

(***************************************************************************)
(* Once no more requests come, the router ends up with exactly the routes  *)
(* the Services are annotated with: collector and expiry repair lost       *)
(* publishes, crashes, stale snapshots and URIs that another app           *)
(* unregistered (route/collector.go, route/emitter.go).                    *)
(***************************************************************************)
RouterConverges == <>[](table = UNION {routes[a] : a \in Apps})
-----------------------------------------------------------------------------
(***************************************************************************)
(* The inductive invariant behind RoutesAvailable.                         *)
(***************************************************************************)
Messages == [routes : SUBSET Uris, app : Apps, unregistered : SUBSET Uris]

\* Batches are messages, and the collector, which holds one only while it
\* waits for the emitter, never unregisters a route.
Batches ==
    /\ snapshot \cup emitting \subseteq Messages
    /\ \A m \in snapshot : m.unregistered = {}
    /\ ~collecting => snapshot = {}

\* A handler has changed the routes of the Service and not sent them yet, or
\* has announced that they go and not deleted the Service yet.
Unannounced(a) ==
    \E h \in Busy(a) : \/ pc[h] = "send" /\ req[h].op # "stop"
                       \/ pc[h] = "deleteSvc"

\* How old an entry may be: it was registered since the collector's last list, or,
\* when it is on that list, since the one before.
Youth(u) == IF \E m \in snapshot : u \in m.routes THEN MaxWait + 1 + waited ELSE waited

\* The URI is on its way to the router, or was so lately that the collector will
\* have it published again before the entry expires.
Upheld(u) ==
    /\ \A m \in emitting : u \notin m.unregistered
    /\ \/ \E m \in emitting : u \in m.routes
       \/ u \in table /\ age[u] <= Youth(u)

\* What Services have, and what handlers write and have read, are URIs of the app.
OwnUris ==
    /\ \A a \in Apps : routes[a] \subseteq UrisOf[a]
    /\ \A h \in Handlers :
          IF pc[h] = "idle" THEN old[h] = {}
          ELSE req[h].uris \subseteq UrisOf[App(h)] /\ old[h] \subseteq UrisOf[App(h)]

\* Announced routes that are one app's only are upheld while nothing is lost.
AnnouncedUpheld ==
    \A a \in Apps : lost = 0 /\ a \notin tainted /\ ~Unannounced(a) =>
        \A u \in routes[a] : Exclusive(u, a) => Upheld(u)

(***************************************************************************)
(* Apps keep to their URIs, and every announced route that is one app's    *)
(* only is upheld, also while requests are in progress (k8s/service.go,    *)
(* route/collector.go, route/emitter.go).                                  *)
(***************************************************************************)
RoutesUpheld == OwnUris /\ AnnouncedUpheld
=============================================================================
