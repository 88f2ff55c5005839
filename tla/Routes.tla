------------------------------- MODULE Routes -------------------------------
(***************************************************************************)
(* How the routes of apps get from the Services' annotations into the      *)
(* Cloud Foundry router: the collector (route/collector.go, k8s/routes.go, *)
(* started every 15s by the ticker of route/scheduler.go), the emitter     *)
(* (route/emitter.go) and the unbuffered channel workChan between them and *)
(* the app handlers (cmd/opi/cmd/connect.go).                              *)
(*                                                                         *)
(* A batch on the channel is a set of messages.  Only the collector sends  *)
(* several at once and all of these are registrations, so their order does *)
(* not matter.                                                             *)
(*                                                                         *)
(* NATS and the router are external.  NATS keeps the order of one client's *)
(* messages and may lose them.  Every message names the same host and      *)
(* ports, those of the Kubernetes endpoint, so to the router a route is a  *)
(* URI and nothing more: apps that share a URI share its entry.  The       *)
(* router forgets an entry that is not registered again for TTL ticks.     *)
(***************************************************************************)
EXTENDS Naturals

CONSTANTS
    Uris,               \* route URIs
    TTL,                \* life of an entry of the router, in ticks
    MaxWait,            \* bound on the ticks that pass while the collector is blocked
    MaxLost             \* bound on failed lists, lost publishes and restarts

VARIABLES
    services,           \* routes annotation of every app's Service
    collecting,         \* the collector is blocked on the channel
    snapshot,           \* the batch it wants to send
    waited,             \* ticks that passed while it was blocked with its last batch
    emitting,           \* messages of its batch the emitter has not dealt with
    table,              \* URIs in the router's table
    age,                \* ticks since a URI was last registered
    lost                \* failures so far

RoutesTypeOK ==
    /\ collecting \in BOOLEAN
    /\ \A m \in snapshot \cup emitting :
          m.routes \subseteq Uris /\ m.unregistered \subseteq Uris
    /\ waited \in 0..MaxWait
    /\ table \subseteq Uris
    /\ age \in [Uris -> 0..TTL]
    /\ lost \in 0..MaxLost

RoutesInit ==
    /\ collecting = FALSE
    /\ snapshot = {}
    /\ waited = 0
    /\ emitting = {}
    /\ table = {}
    /\ age = [u \in Uris |-> 0]
    /\ lost = 0

Lose == lost < MaxLost /\ lost' = lost + 1
-----------------------------------------------------------------------------
(***************************************************************************)
(* The collector.                                                          *)
(***************************************************************************)
\* Mutant: the filter of ListRoutes is inverted and leaves every app out.
ListRoutesNone == {}

\* One message for each Service of an app; headless ones are left out.
ListRoutes ==
    {[routes |-> services[a], app |-> a, unregistered |-> {}] :
        a \in DOMAIN services}

\* External: a tick of the scheduler is a tick of the router's clock.
Age == age' = [u \in Uris |-> IF age[u] < TTL THEN age[u] + 1 ELSE TTL]

Tick ==
    /\ ~collecting
    /\ collecting' = TRUE
    /\ snapshot' = ListRoutes
    /\ waited' = 0
    /\ Age
    /\ UNCHANGED <<emitting, table, lost>>

\* Mutant: the collector gives its batch up when the next tick finds it blocked.
TickBlockedGivesUp ==
    /\ collecting
    /\ collecting' = FALSE
    /\ snapshot' = {}
    /\ Age
    /\ UNCHANGED <<waited, emitting, table, lost>>

\* A tick while the collector is blocked.  The ticker keeps one of those and drops
\* the others, so the next list comes no later than with a tick of its own.
TickBlocked ==
    /\ collecting
    /\ waited < MaxWait
    /\ waited' = waited + 1
    /\ Age
    /\ UNCHANGED <<collecting, snapshot, emitting, table, lost>>

\* The list fails: the error is printed and the collector waits for a tick.
TickFails ==
    /\ ~collecting
    /\ Lose
    /\ Age
    /\ UNCHANGED <<collecting, snapshot, waited, emitting, table>>
-----------------------------------------------------------------------------
(***************************************************************************)
(* The emitter.                                                            *)
(***************************************************************************)
\* It takes a batch from the channel when it is done with the one before.
Receive(batch) ==
    /\ emitting = {}
    /\ emitting' = {m \in batch : m.routes # {} \/ m.unregistered # {}}

Collect ==
    /\ collecting
    /\ Receive(snapshot)
    /\ collecting' = FALSE
    /\ snapshot' = {}
    /\ UNCHANGED <<waited, table, age, lost>>

\* Mutant: the loop over the batch does not advance.
RegisterAgain(m) == emitting' = emitting

\* A message is dealt with when its two parts, where it has them, are published.
RegisterDone(m) ==
    emitting' = (emitting \ {m}) \cup
                   (IF m.unregistered = {} THEN {} ELSE {[m EXCEPT !.routes = {}]})

Register(m) ==
    /\ m.routes # {}
    /\ RegisterDone(m)
    /\ table' = table \cup m.routes
    /\ age' = [u \in Uris |-> IF u \in m.routes THEN 0 ELSE age[u]]
    /\ UNCHANGED <<collecting, snapshot, waited, lost>>

RegisterLost(m) ==
    /\ m.routes # {}
    /\ RegisterDone(m)
    /\ Lose
    /\ UNCHANGED <<collecting, snapshot, waited, table, age>>

Unregister(m) ==
    /\ m.routes = {}
    /\ emitting' = emitting \ {m}
    /\ table' = table \ m.unregistered
    /\ UNCHANGED <<collecting, snapshot, waited, age, lost>>

UnregisterLost(m) ==
    /\ m.routes = {}
    /\ emitting' = emitting \ {m}
    /\ Lose
    /\ UNCHANGED <<collecting, snapshot, waited, table, age>>

Emit ==
    \E m \in emitting :
        Register(m) \/ RegisterLost(m) \/ Unregister(m) \/ UnregisterLost(m)
-----------------------------------------------------------------------------
\* External: the router drops an entry that nobody has refreshed for too long.
Prune(u) ==
    /\ u \in table
    /\ age[u] = TTL
    /\ table' = table \ {u}
    /\ UNCHANGED <<collecting, snapshot, waited, emitting, age, lost>>

\* The opi process restarts: what was in its memory is gone, the router goes on.
Restart ==
    /\ Lose
    /\ collecting' = FALSE
    /\ snapshot' = {}
    /\ waited' = 0
    /\ emitting' = {}
    /\ UNCHANGED <<table, age>>

RoutesNext ==
    \/ Tick \/ TickBlocked \/ TickFails \/ Collect \/ Emit
    \/ \E u \in Uris : Prune(u)
=============================================================================
