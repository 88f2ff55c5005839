---------------------------- MODULE EiriniProofs ----------------------------
(***************************************************************************)
(* The composition keeps what Desirer promises: the emitter and the        *)
(* collector only ever delay a handler, so every theorem about Desirer     *)
(* holds of the whole opi process.                                         *)
(***************************************************************************)
EXTENDS Opi, DesirerProofs

\* A step of the process is a step of its app requests, or none of theirs.
LEMMA EiriniStep == [EiriniNext]_allVars => [Next]_vars
<1> SUFFICES ASSUME [EiriniNext]_allVars PROVE [Next]_vars
  OBVIOUS
<1>1. ASSUME NEW h \in Handlers,
             RequestComes(h) \/ HandlerAlone(h) \/ SendRoutes(h) \/ RequestFails(h)
      PROVE  Next
  BY <1>1 DEF RequestComes, HandlerAlone, SendRoutes, RequestFails, Next
<1>2. CASE ProcessCrash
  BY <1>2 DEF ProcessCrash, Next
<1>3. CASE RoutesStep
  BY <1>3 DEF RoutesStep
<1>4. CASE UNCHANGED allVars
  BY <1>4 DEF allVars
<1>5. QED  BY <1>1, <1>2, <1>3, <1>4 DEF EiriniNext

(***************************************************************************)
(* With the handlers' sends tied to the emitter, and the emitter shared    *)
(* with the collector, the process still takes only steps of Desirer.      *)
(***************************************************************************)
THEOREM EiriniImplementsDesirer == EiriniSpec => Spec
<1>1. EiriniInit => Init
  BY DEF EiriniInit
<1>2. QED  BY <1>1, EiriniStep, PTL DEF EiriniSpec, Spec

(***************************************************************************)
(* Isolation of apps (AckedIsDeployed) in the whole process, including     *)
(* crashes that lose the routes in flight.                                 *)
(***************************************************************************)
THEOREM EiriniIsolation == EiriniSpec => []AckedIsDeployed
  BY EiriniImplementsDesirer, Isolation, PTL

-----------------------------------------------------------------------------
(***************************************************************************)
(* Types of the routes in flight.                                          *)
(***************************************************************************)
\* What a handler puts on the channel is a message.
LEMMA MessageTypes ==
    ASSUME TypeOK, NEW h \in Handlers, pc[h] # "idle"
    PROVE  RoutesMessage(h) \in Messages
<1>1. /\ App(h) \in Apps /\ req[h].uris \in SUBSET Uris
      /\ old[h] \in SUBSET Uris
  BY BusyRequest DEF TypeOK, MemoryTypes
<1>2. QED  BY <1>1 DEF RoutesMessage, Messages, getUnregisteredRoutes

\* What the collector reads from the Services is messages that register.
LEMMA ListTypes ==
    ASSUME TypeOK
    PROVE  R!ListRoutes \subseteq {m \in Messages : m.unregistered = {}}
<1> SUFFICES ASSUME NEW a \in DOMAIN AppServices
             PROVE  [routes |-> AppServices[a], app |-> a, unregistered |-> {}]
                      \in {m \in Messages : m.unregistered = {}}
  BY DEF R!ListRoutes
<1>1. a \in Apps /\ AppServices[a] \in SUBSET Uris
  BY DEF AppServices, TypeOK, DataTypes
<1>2. QED  BY <1>1 DEF Messages

\* The routes part of the state has its types, and the batches are messages.
RoutingTypes == R!RoutesTypeOK /\ Batches

\* A step of the collector, the emitter or the router keeps them.
LEMMA RoutesStepTypes ==
    ASSUME TypeOK, RoutingTypes, R!RoutesNext
    PROVE  RoutingTypes'
<1> USE EiriniAssumption DEF RoutingTypes, R!RoutesTypeOK, Batches
<1>1. CASE R!Tick
  <2>1. /\ age' \in [Uris -> 0..TTL] /\ lost' \in 0..MaxLost /\ table' \subseteq Uris
        /\ waited' \in 0..MaxWait
    BY <1>1 DEF R!Tick, R!Age
  <2>2. /\ snapshot' \subseteq Messages /\ emitting' \subseteq Messages
        /\ \A m \in snapshot' : m.unregistered = {}
    BY <1>1, ListTypes DEF R!Tick
  <2>3. \A m \in snapshot' \cup emitting' :
           m.routes \subseteq Uris /\ m.unregistered \subseteq Uris
    BY <2>2 DEF Messages
  <2>4. collecting'
    BY <1>1 DEF R!Tick
  <2>5. QED  BY <2>1, <2>2, <2>3, <2>4
<1>2. CASE R!TickFails
  BY <1>2 DEF R!TickFails, R!Age, R!Lose
<1>3. CASE R!TickBlocked
  BY <1>3 DEF R!TickBlocked, R!Age
<1>4. CASE R!Collect
  BY <1>4 DEF R!Collect, R!Receive
<1>5. ASSUME NEW m \in emitting,
             R!Register(m) \/ R!RegisterLost(m) \/ R!Unregister(m) \/ R!UnregisterLost(m)
      PROVE  RoutingTypes'
  <2>1. m \in Messages /\ [m EXCEPT !.routes = {}] \in Messages
    BY DEF Messages
  <2>2. emitting' \subseteq Messages
    BY <1>5, <2>1 DEF R!Register, R!RegisterLost, R!Unregister, R!UnregisterLost,
                      R!RegisterDone
  <2>3. \A n \in emitting' : n.routes \subseteq Uris /\ n.unregistered \subseteq Uris
    BY <2>2 DEF Messages
  <2>4. table' \subseteq Uris /\ age' \in [Uris -> 0..TTL] /\ lost' \in 0..MaxLost
    BY <1>5, <2>1 DEF R!Register, R!RegisterLost, R!Unregister, R!UnregisterLost,
                      R!Lose, Messages
  <2>5. UNCHANGED <<collecting, snapshot, waited>>
    BY <1>5 DEF R!Register, R!RegisterLost, R!Unregister, R!UnregisterLost
  <2>6. QED  BY <2>2, <2>3, <2>4, <2>5
<1>6. ASSUME NEW u \in Uris, R!Prune(u) PROVE RoutingTypes'
  BY <1>6 DEF R!Prune
<1>7. QED  BY <1>1, <1>2, <1>3, <1>4, <1>5, <1>6 DEF R!RoutesNext, R!Emit

\* So does every step of the process.
LEMMA EiriniStepTypes ==
    ASSUME TypeOK, RoutingTypes, [EiriniNext]_allVars
    PROVE  RoutingTypes'
<1>1. CASE UNCHANGED routingVars
  BY <1>1 DEF routingVars, RoutingTypes, R!RoutesTypeOK, Batches
<1>2. ASSUME NEW h \in Handlers, SendRoutes(h) PROVE RoutingTypes'
  <2>1. pc[h] # "idle"
    BY <1>2 DEF SendRoutes, Send, Step
  <2>2. RoutesMessage(h) \in Messages
    BY <2>1, MessageTypes
  <2>3. emitting' \subseteq {RoutesMessage(h)}
    BY <1>2 DEF SendRoutes, R!Receive
  <2>4. \A n \in emitting' : n.routes \subseteq Uris /\ n.unregistered \subseteq Uris
    BY <2>2, <2>3 DEF Messages
  <2>5. UNCHANGED <<collecting, snapshot, waited, table, age, lost>>
    BY <1>2 DEF SendRoutes
  <2>6. QED  BY <2>2, <2>3, <2>4, <2>5 DEF RoutingTypes, R!RoutesTypeOK, Batches
<1>3. CASE ProcessCrash
  <2>1. lost' \in 0..MaxLost /\ waited' \in 0..MaxWait /\ UNCHANGED <<table, age>>
    BY <1>3, EiriniAssumption
       DEF ProcessCrash, R!Restart, R!Lose, RoutingTypes, R!RoutesTypeOK
  <2>2. collecting' = FALSE /\ snapshot' = {} /\ emitting' = {}
    BY <1>3 DEF ProcessCrash, R!Restart
  <2>3. QED  BY <2>1, <2>2 DEF RoutingTypes, R!RoutesTypeOK, Batches
<1>4. CASE RoutesStep
  BY <1>4, RoutesStepTypes DEF RoutesStep
<1>5. QED
  BY <1>1, <1>2, <1>3, <1>4
     DEF EiriniNext, RequestComes, HandlerAlone, RequestFails, allVars, routingVars

\* Nothing is in flight at first.
LEMMA RoutingInitTypes == R!RoutesInit => RoutingTypes
<1> SUFFICES ASSUME R!RoutesInit PROVE RoutingTypes
  OBVIOUS
<1>1. /\ collecting = FALSE /\ snapshot = {} /\ emitting = {} /\ table = {}
      /\ age \in [Uris -> 0..TTL] /\ lost \in 0..MaxLost /\ waited \in 0..MaxWait
  BY EiriniAssumption DEF R!RoutesInit
<1>2. QED  BY <1>1 DEF RoutingTypes, R!RoutesTypeOK, Batches

(***************************************************************************)
(* Type correctness of the process (EiriniTypeOK), the messages on the     *)
(* routes channel and the router's clock included.                         *)
(***************************************************************************)
THEOREM EiriniTypeCorrect == EiriniSpec => []EiriniTypeOK
<1>1. EiriniInit => TypeOK /\ RoutingTypes
  BY InitTypes, RoutingInitTypes DEF EiriniInit
<1>2. TypeOK /\ RoutingTypes /\ [EiriniNext]_allVars => (TypeOK /\ RoutingTypes)'
  BY EiriniStep, NextTypes, EiriniStepTypes
<1>3. TypeOK /\ RoutingTypes => EiriniTypeOK
  BY DEF RoutingTypes, EiriniTypeOK
<1>4. QED  BY <1>1, <1>2, <1>3, PTL DEF EiriniSpec

-----------------------------------------------------------------------------
(***************************************************************************)
(* Routes of a settled app are available.                                  *)
(***************************************************************************)
\* A step of the only handler of the app that is not its send announces
\* nothing: it leaves routes alone that were announced, or has yet to send.
LEMMA StepOwes ==
    ASSUME IInv, NEW h \in Handlers, HandlerStep(h) \/ CallFails(h),
           NEW a \in Apps, a = App(h), a \notin tainted'
    PROVE  \/ routes'[a] = {}
           \/ Unannounced(a)'
           \/ routes'[a] = routes[a] /\ ~Unannounced(a)
<1>1. TakesStep(h)
  BY DEF TakesStep
<1>2. /\ TypeOK /\ HandlerInv(h) /\ pc[h] # "idle"
      /\ req[h].op \in {"desire", "update", "stop"}
  BY <1>1, StepKinds, BusyRequest DEF IInv
<1>3. /\ a \notin tainted
      /\ pc'[h] = "idle" \/ req'[h] = req[h]
      /\ \A i \in Handlers \ {h} : SameHandler(i)
  BY <1>1, <1>2, OneHandlerMoves
<1>4. Busy(a) = {h}
  BY <1>2, <1>3 DEF IInv, Untouched, Busy
<1>5. ~CallFails(h) /\ ~Refused(h)
  BY DEF CallFails, Refused, Fail
<1>6. pc[h] # "send"
  BY <1>5 DEF HandlerStep, Step, Exists, CreateSts, CreateHeadless, CreateSvc,
              GetLRP, GetSts, PutSts, GetSvc, PutSvc, DeleteSts, DeleteHeadless,
              DeleteSvc, ListIngress, GetIngress, PutIngress, CreateIngress,
              DropIngress
<1>7. CASE ServiceWrite(h)
  <2>1. CASE DeleteSvc(h)
    BY <1>2, <2>1 DEF DeleteSvc, TypeOK, DataTypes
  <2>2. CASE CreateSvc(h) \/ PutSvc(h)
    <3>1. pc'[h] = "send" /\ pc[h] \in {"createSvc", "putSvc"} /\ req' = req
      BY <1>2, <2>2 DEF CreateSvc, PutSvc, Step, Goto, TypeOK, MemoryTypes
    <3>2. req[h].op # "stop"
      BY <1>2, <3>1 DEF HandlerInv, RequestShape, Script
    <3>3. h \in Busy(a)'
      BY <3>1 DEF Busy, App
    <3>4. QED  BY <3>1, <3>2, <3>3 DEF Unannounced
  <2>3. QED  BY <1>7, <2>1, <2>2 DEF ServiceWrite
<1>8. CASE ~ServiceWrite(h)
  <2>1. routes' = routes
    BY <1>1, <1>2, <1>8, StepKinds, QuietCluster, WorkloadLocal, IngressLocal
       DEF clusterVars
  <2>2. pc[h] # "deleteSvc"
    BY <1>5, <1>8 DEF HandlerStep, ServiceWrite, Step, Exists, CreateSts,
       CreateHeadless, GetLRP, GetSts, PutSts, GetSvc, DeleteSts, DeleteHeadless,
       ListIngress, GetIngress, PutIngress, CreateIngress, DropIngress
  <2>3. ~Unannounced(a)
    BY <1>4, <1>6, <2>2 DEF Unannounced
  <2>4. QED  BY <2>1, <2>3
<1>9. QED  BY <1>7, <1>8

\* A step of another app's handler leaves the routes of the app alone.
LEMMA OthersOwe ==
    ASSUME IInv, NEW h \in Handlers, TakesStep(h),
           NEW a \in Apps, a # App(h)
    PROVE  /\ routes'[a] = routes[a]
           /\ a \in tainted <=> a \in tainted'
           /\ Unannounced(a)' <=> Unannounced(a)
<1>1. TypeOK /\ pc[h] # "idle"
  BY StepKinds DEF IInv
<1>2. /\ pc'[h] = "idle" \/ req'[h] = req[h]
      /\ \A i \in Handlers \ {h} : SameHandler(i)
      /\ a \in tainted <=> a \in tainted'
  BY <1>1, OneHandlerMoves
<1>3. routes'[a] = routes[a]
  BY StepLocal DEF SameApp
<1>4. h \notin Busy(a) /\ h \notin Busy(a)'
  BY <1>2 DEF Busy, App
<1>5. \A i \in Handlers \ {h} : /\ i \in Busy(a)' <=> i \in Busy(a)
                                /\ pc'[i] = pc[i] /\ req'[i] = req[i]
  BY <1>2 DEF Busy, App, SameHandler
<1>6. Unannounced(a)' <=> Unannounced(a)
  BY <1>4, <1>5 DEF Unannounced, Busy
<1>7. QED  BY <1>2, <1>3, <1>6

\* A handler writes to the Service what was asked for, and reads what is there.
LEMMA StepOwn ==
    ASSUME TypeOK, OwnUris, NEW h \in Handlers, TakesStep(h)
    PROVE  OwnUris'
<1>1. pc[h] # "idle" /\ App(h) \in Apps
  BY StepKinds, BusyRequest
<1>2. /\ pc'[h] = "idle" \/ req'[h] = req[h]
      /\ \A i \in Handlers \ {h} : SameHandler(i)
  BY OneHandlerMoves
<1>3. routes' = routes \/ routes' \in {[routes EXCEPT ![App(h)] = req[h].uris],
                                      [routes EXCEPT ![App(h)] = {}]}
  <2>1. CASE ServiceWrite(h)
    BY <2>1 DEF ServiceWrite, CreateSvc, PutSvc, DeleteSvc
  <2>2. CASE ~ServiceWrite(h)
    BY <1>1, <2>2, StepKinds, QuietCluster, WorkloadLocal, IngressLocal DEF clusterVars
  <2>3. QED  BY <2>1, <2>2
<1>4. \/ old'[h] = {}
      \/ pc'[h] # "idle" /\ old'[h] \in {old[h], routes[App(h)]}
  <2> USE DEF Step, Goto, Return, Ack, Fail, Finish, IngressDone, TypeOK, MemoryTypes
  <2>1. CASE Exists(h)         BY <2>1 DEF Exists
  <2>2. CASE CreateSts(h)      BY <2>2 DEF CreateSts
  <2>3. CASE CreateHeadless(h) BY <2>3 DEF CreateHeadless
  <2>4. CASE CreateSvc(h)      BY <2>4 DEF CreateSvc
  <2>5. CASE GetLRP(h)         BY <2>5 DEF GetLRP
  <2>6. CASE GetSts(h)         BY <2>6 DEF GetSts
  <2>7. CASE PutSts(h)         BY <2>7 DEF PutSts
  <2>8. CASE GetSvc(h)         BY <2>8 DEF GetSvc
  <2>9. CASE PutSvc(h)         BY <2>9 DEF PutSvc
  <2>10. CASE DeleteSts(h)     BY <2>10 DEF DeleteSts
  <2>11. CASE DeleteHeadless(h) BY <2>11 DEF DeleteHeadless
  <2>12. CASE DeleteSvc(h)     BY <2>12 DEF DeleteSvc
  <2>13. CASE ListIngress(h)   BY <2>13 DEF ListIngress
  <2>14. CASE GetIngress(h)    BY <2>14 DEF GetIngress
  <2>15. CASE PutIngress(h)    BY <2>15 DEF PutIngress
  <2>16. CASE CreateIngress(h) BY <2>16 DEF CreateIngress
  <2>17. CASE DropIngress(h)   BY <2>17 DEF DropIngress
  <2>18. CASE Refused(h)       BY <2>18 DEF Refused
  <2>19. CASE Send(h)          BY <2>19 DEF Send
  <2>20. CASE CallFails(h)     BY <2>20 DEF CallFails
  <2>21. QED
    BY <2>1, <2>2, <2>3, <2>4, <2>5, <2>6, <2>7, <2>8, <2>9, <2>10, <2>11, <2>12,
       <2>13, <2>14, <2>15, <2>16, <2>17, <2>18, <2>19, <2>20
       DEF TakesStep, HandlerStep
<1>5. \A a \in Apps : routes'[a] \subseteq UrisOf[a]
  BY <1>1, <1>3 DEF OwnUris, TypeOK, DataTypes
<1>6. ASSUME NEW i \in Handlers
      PROVE  IF pc'[i] = "idle" THEN old'[i] = {}
             ELSE /\ req'[i].uris \subseteq UrisOf[App(i)']
                  /\ old'[i] \subseteq UrisOf[App(i)']
  <2>1. CASE i = h
    BY <1>1, <1>2, <1>4, <2>1 DEF OwnUris, App
  <2>2. CASE i # h
    BY <1>2, <2>2 DEF OwnUris, App, SameHandler
  <2>3. QED  BY <2>1, <2>2
<1>7. QED  BY <1>5, <1>6 DEF OwnUris

\* What a request is, from the three ways in which one begins.
LEMMA ArriveBegins ==
    ASSUME NEW h \in Handlers, Arrive(h)
    PROVE  \E r \in Requests, first \in {"exists", "getLRP", "deleteSts"} :
              Begin(h, r, first)
<1>1. CASE Desire(h)
  BY <1>1, Zenon DEF Desire, Requests
<1>2. CASE Update(h)
  BY <1>2, Zenon DEF Update, Requests
<1>3. CASE Stop(h)
  BY <1>3, Zenon DEF Stop, Requests
<1>4. QED  BY <1>1, <1>2, <1>3 DEF Arrive

\* Announced routes stay upheld through such steps, and through an arrival.
LEMMA AloneUpheld ==
    ASSUME IInv, AnnouncedUpheld, NEW h \in Handlers,
           RequestComes(h) \/ HandlerAlone(h) \/ RequestFails(h)
    PROVE  AnnouncedUpheld'
<1> SUFFICES ASSUME NEW a \in Apps, lost' = 0, a \notin tainted',
                    ~Unannounced(a)', NEW u \in routes'[a], Exclusive(u, a)
             PROVE  Upheld(u)'
  BY DEF AnnouncedUpheld, Exclusive
<1>1. UNCHANGED routingVars
  BY DEF RequestComes, HandlerAlone, RequestFails
<1>2. Upheld(u)' <=> Upheld(u)
  BY <1>1 DEF Upheld, Youth, routingVars
<1>3. lost = 0
  BY <1>1 DEF routingVars
<1>4. CASE HandlerStep(h) \/ CallFails(h)
  <2>1. TypeOK /\ TakesStep(h)
    BY <1>4 DEF IInv, TakesStep
  <2>2. CASE a = App(h)
    <3>1. a \notin tainted
      BY <2>1, OneHandlerMoves
    <3>2. routes'[a] = routes[a] /\ ~Unannounced(a)
      BY <1>4, <2>2, StepOwes
    <3>3. QED  BY <1>2, <1>3, <3>1, <3>2 DEF AnnouncedUpheld
  <2>3. CASE a # App(h)
    BY <1>2, <1>3, <2>1, <2>3, OthersOwe DEF AnnouncedUpheld
  <2>4. QED  BY <2>2, <2>3
<1>5. CASE Arrive(h)
  <2>1. PICK r \in Requests, first \in {"exists", "getLRP", "deleteSts"} :
               Begin(h, r, first)
    BY <1>5, ArriveBegins
  <2>2. /\ UNCHANGED <<routes, live>>
        /\ pc[h] = "idle" /\ pc' = [pc EXCEPT ![h] = first]
        /\ req' = [req EXCEPT ![h] = r]
    BY <2>1 DEF Begin, Step, Goto
  <2>3. CASE a = r.app
    <3>1. Busy(a) = {}
      BY <2>1, <2>3 DEF Begin
    <3>2. CASE Gone(a)
      BY <2>2, <3>2 DEF Gone, IInv, RoutesKept
    <3>3. CASE ~Gone(a)
      <4>1. a \notin tainted
        BY <2>1, <2>3, <3>1, <3>3 DEF Begin
      <4>2. QED  BY <1>2, <1>3, <2>2, <3>1, <4>1 DEF AnnouncedUpheld, Unannounced
    <3>4. QED  BY <3>2, <3>3
  <2>4. CASE a # r.app
    <3>1. a \notin tainted
      BY <2>1, <2>4 DEF Begin
    <3>2. \A i \in Busy(a) : i \in Busy(a)' /\ pc'[i] = pc[i] /\ req'[i] = req[i]
      BY <2>2 DEF Busy, App, IInv, TypeOK, MemoryTypes
    <3>3. ~Unannounced(a)
      BY <3>2 DEF Unannounced
    <3>4. QED  BY <1>2, <1>3, <2>2, <3>1, <3>3 DEF AnnouncedUpheld
  <2>5. QED  BY <2>3, <2>4
<1>6. QED
  BY <1>4, <1>5 DEF RequestComes, HandlerAlone, RequestFails

\* Requests ask for URIs of their app, and steps of handlers go on with these.
LEMMA AloneOwn ==
    ASSUME IInv, OwnUris, NEW h \in Handlers,
           RequestComes(h) \/ HandlerAlone(h) \/ RequestFails(h)
    PROVE  OwnUris'
<1>1. TypeOK
  BY DEF IInv
<1>2. CASE HandlerStep(h) \/ CallFails(h)
  BY <1>1, <1>2, StepOwn DEF TakesStep
<1>3. CASE RequestComes(h)
  <2>1. PICK r \in Requests, first \in {"exists", "getLRP", "deleteSts"} :
               Begin(h, r, first)
    BY <1>3, ArriveBegins DEF RequestComes
  <2>2. /\ UNCHANGED <<routes, old>>
        /\ pc[h] = "idle" /\ pc' = [pc EXCEPT ![h] = first]
        /\ req' = [req EXCEPT ![h] = r]
        /\ req'[h].uris \subseteq UrisOf[req'[h].app]
    BY <1>3, <2>1 DEF RequestComes, Begin, Step, Goto
  <2>3. old[h] = {}
    BY <2>2 DEF OwnUris
  <2>4. QED  BY <1>1, <2>2, <2>3 DEF OwnUris, App, TypeOK, MemoryTypes
<1>4. QED  BY <1>2, <1>3 DEF HandlerAlone, RequestFails

\* With the send the routes of the Service are on their way to the router, and
\* no routes of other apps are taken away.
LEMMA SendUpheld ==
    ASSUME IInv, RoutingTypes, OwnUris, AnnouncedUpheld,
           NEW h \in Handlers, SendRoutes(h)
    PROVE  AnnouncedUpheld'
<1> SUFFICES ASSUME NEW a \in Apps, lost' = 0, a \notin tainted',
                    ~Unannounced(a)', NEW u \in routes'[a], Exclusive(u, a)
             PROVE  Upheld(u)'
  BY DEF AnnouncedUpheld, Exclusive
<1>1. /\ pc[h] = "send" /\ UNCHANGED <<routes, req, tainted, old>>
      /\ UNCHANGED <<snapshot, waited, table, age, lost>>
      /\ Goto(h, IF req[h].op = "stop" THEN "deleteSvc" ELSE "listIngress")
  BY DEF SendRoutes, Send, Step, clusterVars, historyVars
<1>2. TypeOK /\ App(h) \in Apps /\ a \notin tainted
  BY <1>1, BusyRequest DEF IInv
<1> DEFINE m == RoutesMessage(h)
<1>3. /\ emitting = {}
      /\ emitting' = {n \in {m} : n.routes # {} \/ n.unregistered # {}}
  BY DEF SendRoutes, R!Receive
<1>4. CASE a = App(h)
  <2>1. req[h].op # "stop"
    <3> SUFFICES ASSUME req[h].op = "stop" PROVE FALSE
      OBVIOUS
    <3>1. pc'[h] = "deleteSvc" /\ h \in Busy(a)'
      BY <1>1, <1>2, <1>4 DEF Goto, TypeOK, MemoryTypes, Busy, App
    <3>2. QED  BY <3>1 DEF Unannounced
  <2>2. routes[a] = req[h].uris
    BY <1>1, <1>2, <1>4, <2>1 DEF IInv, Untouched, Busy, Halfway
  <2>3. u \in m.routes /\ u \notin m.unregistered
    BY <1>1, <2>1, <2>2 DEF RoutesMessage, getUnregisteredRoutes
  <2>4. QED  BY <1>3, <2>3 DEF Upheld
<1>5. CASE a # App(h)
  <2>1. u \notin UrisOf[App(h)] /\ m.unregistered \subseteq old[h]
    BY <1>2, <1>5 DEF Exclusive, RoutesMessage, getUnregisteredRoutes
  <2>2. u \notin m.unregistered
    BY <1>1, <2>1 DEF OwnUris
  <2>3. ~Unannounced(a)
    BY <1>5, OthersOwe DEF SendRoutes, TakesStep
  <2>4. Upheld(u)
    BY <1>1, <1>2, <2>3 DEF AnnouncedUpheld
  <2>5. QED  BY <1>1, <1>3, <2>2, <2>4 DEF Upheld, Youth
<1>6. QED  BY <1>4, <1>5

\* Routes that the Services have stay upheld whatever collector, emitter and
\* router do, as long as nothing is lost.
LEMMA RoutesStepUpheld ==
    ASSUME IInv, RoutingTypes, AnnouncedUpheld, R!RoutesNext, UNCHANGED vars
    PROVE  AnnouncedUpheld'
<1> SUFFICES ASSUME NEW a \in Apps, lost' = 0, a \notin tainted',
                    ~Unannounced(a)', NEW u \in routes'[a], Exclusive(u, a)
             PROVE  Upheld(u)'
  BY DEF AnnouncedUpheld, Exclusive
<1>1. /\ lost \in Nat /\ table \subseteq Uris /\ age \in [Uris -> 0..TTL]
      /\ snapshot \subseteq Messages /\ emitting \subseteq Messages
      /\ ~collecting => snapshot = {}
      /\ \A m \in snapshot : m.unregistered = {}
      /\ waited \in 0..MaxWait /\ MaxWait \in Nat
      /\ TTL \in Nat /\ TTL > 2 * MaxWait + 1
  BY EiriniAssumption, TTLAssumption DEF RoutingTypes, R!RoutesTypeOK, Batches
<1>2. UNCHANGED <<live, routes, pc, req, tainted>>
  BY DEF vars
<1>3. u \in routes[a] /\ a \notin tainted /\ ~Unannounced(a)
  BY <1>2 DEF Unannounced, Busy, App
<1>4. u \in Uris /\ Svc(a) \in live
  BY <1>3 DEF IInv, TypeOK, DataTypes, RoutesKept
<1>5. ~R!Lose
  BY <1>1 DEF R!Lose
<1>6. lost = 0
  BY <1>1, <1>5 DEF R!RoutesNext, R!Tick, R!TickBlocked, R!TickFails, R!Collect,
     R!Emit, R!Register, R!RegisterLost, R!Unregister, R!UnregisterLost, R!Prune
<1>7. Upheld(u)
  BY <1>3, <1>6 DEF AnnouncedUpheld
<1>8. CASE R!Tick
  <2>1. emitting' = emitting /\ table' = table /\ snapshot = {} /\ waited' = 0
    BY <1>1, <1>8 DEF R!Tick
  <2>2. \E m \in snapshot' : u \in m.routes
    <3> DEFINE m == [routes |-> routes[a], app |-> a, unregistered |-> {}]
    <3>1. m \in R!ListRoutes
      BY <1>4 DEF R!ListRoutes, AppServices
    <3>2. QED  BY <1>3, <1>8, <3>1 DEF R!Tick
  <2>3. Youth(u) = waited /\ Youth(u)' = MaxWait + 1
    BY <1>1, <2>1, <2>2 DEF Youth
  <2>4. age[u] <= waited => age'[u] <= MaxWait + 1
    BY <1>1, <1>4, <1>8 DEF R!Tick, R!Age
  <2>5. QED  BY <1>7, <2>1, <2>3, <2>4 DEF Upheld
<1>9. CASE R!TickBlocked
  <2>1. /\ UNCHANGED <<emitting, table, snapshot>> /\ waited' = waited + 1
        /\ age'[u] <= age[u] + 1
    BY <1>1, <1>4, <1>9 DEF R!TickBlocked, R!Age
  <2>2. Youth(u)' = Youth(u) + 1 /\ Youth(u) \in Nat
    BY <1>1, <2>1 DEF Youth
  <2>3. age[u] \in Nat /\ age'[u] \in Nat
    BY <1>1, <1>4, <1>9 DEF R!TickBlocked, R!Age
  <2>4. age[u] <= Youth(u) => age'[u] <= Youth(u)'
    BY <2>1, <2>2, <2>3
  <2>5. QED  BY <1>7, <2>1, <2>4 DEF Upheld
<1>10. CASE R!Collect
  <2>1. /\ emitting = {} /\ snapshot' = {} /\ UNCHANGED <<waited, table, age>>
        /\ emitting' = {m \in snapshot : m.routes # {} \/ m.unregistered # {}}
    BY <1>10 DEF R!Collect, R!Receive
  <2>2. \A m \in emitting' : u \notin m.unregistered
    BY <1>1, <2>1
  <2>3. CASE \E m \in snapshot : u \in m.routes
    BY <2>1, <2>2, <2>3 DEF Upheld
  <2>4. CASE ~ \E m \in snapshot : u \in m.routes
    BY <1>7, <2>1, <2>2, <2>4 DEF Upheld, Youth
  <2>5. QED  BY <2>3, <2>4
<1>11. ASSUME NEW m \in emitting, R!Register(m) PROVE Upheld(u)'
  <2>1. /\ m \in Messages /\ u \notin m.unregistered
        /\ Youth(u)' = Youth(u) /\ Youth(u) \in Nat
    BY <1>1, <1>7, <1>11 DEF Upheld, Youth, R!Register
  <2>2. \A n \in emitting' : u \notin n.unregistered
    BY <1>7, <1>11, <2>1 DEF Upheld, R!Register, R!RegisterDone, Messages
  <2>3. CASE u \in m.routes
    <3>1. u \in table' /\ age'[u] = 0
      BY <1>4, <1>11, <2>3 DEF R!Register
    <3>2. QED  BY <2>1, <2>2, <3>1 DEF Upheld
  <2>4. CASE u \notin m.routes
    <3>1. /\ u \in table => u \in table'
          /\ age'[u] = age[u]
          /\ emitting \ {m} \subseteq emitting'
      BY <1>4, <1>11, <2>4 DEF R!Register, R!RegisterDone
    <3>2. QED  BY <1>7, <2>1, <2>2, <2>4, <3>1 DEF Upheld
  <2>5. QED  BY <2>3, <2>4
<1>12. ASSUME NEW m \in emitting, R!Unregister(m) PROVE Upheld(u)'
  <2>1. /\ u \notin m.unregistered /\ u \notin m.routes
        /\ UNCHANGED <<snapshot, waited, age>>
        /\ emitting' = emitting \ {m} /\ table' = table \ m.unregistered
    BY <1>7, <1>12 DEF Upheld, R!Unregister
  <2>2. QED  BY <1>7, <2>1 DEF Upheld, Youth
<1>13. ASSUME NEW v \in Uris, R!Prune(v) PROVE Upheld(u)'
  <2>1. /\ emitting' = emitting /\ age' = age /\ Youth(u)' = Youth(u)
        /\ table' = table \ {v} /\ age[v] = TTL
    BY <1>13 DEF R!Prune, Youth
  <2>2. CASE u = v
    <3>1. ~(age[u] <= Youth(u))
      BY <1>1, <2>1, <2>2 DEF Youth
    <3>2. QED  BY <1>7, <2>1, <3>1 DEF Upheld
  <2>3. CASE u # v
    BY <1>7, <2>1, <2>3 DEF Upheld
  <2>4. QED  BY <2>2, <2>3
<1>14. QED
  BY <1>5, <1>8, <1>9, <1>10, <1>11, <1>12, <1>13
     DEF R!RoutesNext, R!TickFails, R!Emit, R!RegisterLost, R!UnregisterLost

\* Announced routes are upheld through every step of the process.
LEMMA EiriniStepUpheld ==
    ASSUME IInv, RoutingTypes, RoutesUpheld, [EiriniNext]_allVars
    PROVE  RoutesUpheld'
<1> USE DEF RoutesUpheld
<1>1. ASSUME NEW h \in Handlers, SendRoutes(h) PROVE RoutesUpheld'
  <2>1. OwnUris'
    BY <1>1, StepOwn DEF SendRoutes, TakesStep, IInv
  <2>2. QED  BY <1>1, <2>1, SendUpheld
<1>2. ASSUME NEW h \in Handlers, RequestComes(h) \/ HandlerAlone(h) \/ RequestFails(h)
      PROVE  RoutesUpheld'
  BY <1>2, AloneUpheld, AloneOwn
<1>3. CASE ProcessCrash
  <2>1. lost' # 0
    BY <1>3 DEF ProcessCrash, R!Restart, R!Lose, RoutingTypes, R!RoutesTypeOK
  <2>2. routes' = routes /\ \A h \in Handlers : pc'[h] = "idle" /\ old'[h] = {}
    BY <1>3 DEF ProcessCrash, Crash, clusterVars
  <2>3. QED  BY <2>1, <2>2 DEF OwnUris, AnnouncedUpheld
<1>4. CASE RoutesStep
  <2>1. OwnUris'
    BY <1>4 DEF RoutesStep, OwnUris, vars, App
  <2>2. QED  BY <1>4, <2>1, RoutesStepUpheld DEF RoutesStep
<1>5. CASE UNCHANGED allVars
  BY <1>5 DEF allVars, vars, routingVars, OwnUris, AnnouncedUpheld, Unannounced,
              Upheld, Youth, Exclusive, Busy, App
<1>6. QED  BY <1>1, <1>2, <1>3, <1>4, <1>5 DEF EiriniNext

\* Nothing has routes at first.
LEMMA InitUpheld == Init => RoutesUpheld
  BY DEF Init, RoutesUpheld, OwnUris, AnnouncedUpheld

\* A settled app has no request in progress, so its routes are announced.
LEMMA UpheldAvailable == RoutesUpheld => RoutesAvailable
  BY DEF RoutesUpheld, AnnouncedUpheld, RoutesAvailable, Settled, Unannounced, Upheld

(***************************************************************************)
(* Every announced route that is one app's only is in a batch that is      *)
(* being published, or in the router and young enough to live until the    *)
(* collector's next batch, also while requests for the app are in          *)
(* progress, for any number of apps, handlers, requests and URIs, any time *)
(* the collector is blocked and any life of entries longer than twice that *)
(* and a tick (k8s/service.go, route/collector.go, route/emitter.go).      *)
(***************************************************************************)
THEOREM RoutesStayUpheld == EiriniSpec => []RoutesUpheld
<1> DEFINE Inv == IInv /\ RoutingTypes /\ RoutesUpheld
<1>1. EiriniInit => Inv
  BY InitInv, RoutingInitTypes, InitUpheld DEF EiriniInit
<1>2. Inv /\ [EiriniNext]_allVars => Inv'
  <2> SUFFICES ASSUME Inv, [EiriniNext]_allVars PROVE Inv'
    OBVIOUS
  <2>1. IInv'
    BY EiriniStep, NextInv
  <2>2. RoutingTypes'
    BY EiriniStepTypes DEF IInv
  <2>3. RoutesUpheld'
    BY EiriniStepUpheld
  <2>4. QED  BY <2>1, <2>2, <2>3
<1>3. QED  BY <1>1, <1>2, PTL DEF EiriniSpec

(***************************************************************************)
(* Every route of a settled app that no other app can have is in the       *)
(* router's table or about to be published, until something is lost: no    *)
(* interleaving of handlers, collector and a slow emitter (k8s/service.go, *)
(* route/collector.go, route/emitter.go) takes a route away or lets it     *)
(* expire, as long as TTLAssumption bounds how long the collector waits.   *)
(***************************************************************************)
THEOREM RoutesStayAvailable == EiriniSpec => []RoutesAvailable
  BY RoutesStayUpheld, UpheldAvailable, PTL

-----------------------------------------------------------------------------
(***************************************************************************)
(* The process with its start-up.                                          *)
(***************************************************************************)
\* What starts up, exits and ages is not a request and not in the cluster;
\* everything else opi does is a step of the process that has come up.
LEMMA OpiStep ==
    ASSUME [OpiNext]_ovars
    PROVE  \/ [EiriniNext]_allVars
           \/ Exit
           \/ RouterWaits
<1>1. CASE Connect
  BY <1>1 DEF Connect, setConfigFromFile, initStager, initBifrost,
              launchRouteEmitter, ListenAndServe, Pass
<1>2. CASE Crashes
  BY <1>2 DEF Crashes, EiriniNext
<1>3. ASSUME NEW h \in Handlers, Serves(h) \/ Handles(h) \/ Fails(h) \/ Sends(h)
      PROVE  EiriniNext
  BY <1>3 DEF Serves, Handles, Fails, Sends, EiriniNext
<1>4. CASE Ticks \/ Waits \/ Collects \/ Emits
  BY <1>4 DEF Ticks, Waits, Collects, Emits, EiriniNext, RoutesStep, R!RoutesNext
<1>5. ASSUME NEW u \in Uris, Prunes(u) PROVE EiriniNext
  BY <1>5 DEF Prunes, EiriniNext, RoutesStep, R!RoutesNext
<1>6. CASE UNCHANGED ovars
  BY <1>6 DEF ovars
<1>7. QED  BY <1>1, <1>2, <1>3, <1>4, <1>5, <1>6 DEF OpiNext

\* So it is a step of the app requests, or none of theirs.
LEMMA OpiStepRequests == [OpiNext]_ovars => [Next]_vars
  BY OpiStep, EiriniStep DEF Exit, RouterWaits

(***************************************************************************)
(* Failed start-ups, exits and restarts in any order are to the app        *)
(* requests at most the crash they allow for: opi implements Desirer, and  *)
(* all that is proved of it holds across the lives of the process          *)
(* (connect in cmd/opi/cmd/connect.go).                                    *)
(***************************************************************************)
THEOREM OpiImplementsDesirer == OpiSpec => Spec
<1>1. OpiInit => Init
  BY DEF OpiInit, EiriniInit
<1>2. QED  BY <1>1, OpiStepRequests, PTL DEF OpiSpec, Spec

\* Every step keeps the types of the routes in flight, also of those it drops.
LEMMA OpiStepTypes ==
    ASSUME TypeOK, RoutingTypes, [OpiNext]_ovars
    PROVE  RoutingTypes'
<1>1. CASE [EiriniNext]_allVars
  BY <1>1, EiriniStepTypes
<1>2. CASE Exit
  <2>1. lost' \in 0..MaxLost /\ waited' \in 0..MaxWait /\ UNCHANGED <<table, age>>
    BY <1>2, EiriniAssumption DEF Exit, R!Lose, RoutingTypes, R!RoutesTypeOK
  <2>2. collecting' = FALSE /\ snapshot' = {} /\ emitting' = {}
    BY <1>2 DEF Exit
  <2>3. QED  BY <2>1, <2>2 DEF RoutingTypes, R!RoutesTypeOK, Batches
<1>3. CASE RouterWaits
  <2>1. age' \in [Uris -> 0..TTL]
    BY <1>3, EiriniAssumption DEF RouterWaits, R!Age, RoutingTypes, R!RoutesTypeOK
  <2>2. UNCHANGED <<collecting, snapshot, waited, emitting, table, lost>>
    BY <1>3 DEF RouterWaits
  <2>3. QED  BY <2>1, <2>2 DEF RoutingTypes, R!RoutesTypeOK, Batches
<1>4. QED  BY <1>1, <1>2, <1>3, OpiStep

\* No request comes in, and so none goes on, before the process listens.
LEMMA BootStep ==
    ASSUME TypeOK, BootOrder, [OpiNext]_ovars
    PROVE  BootOrder'
<1> USE DEF BootOrder
<1>1. CASE Connect
  BY <1>1 DEF Connect, setConfigFromFile, initStager, initBifrost, allVars, vars,
              launchRouteEmitter, ListenAndServe, Pass, Steps
<1>2. CASE Exit
  BY <1>2 DEF Exit, Steps, vars
<1>3. CASE Crashes
  BY <1>3 DEF Crashes, ProcessCrash, Crash, Steps
<1>4. CASE RouterWaits \/ Ticks \/ Waits \/ Collects \/ Emits \/ \E u \in Uris : Prunes(u)
  BY <1>4 DEF RouterWaits, Ticks, Waits, Collects, Emits, Prunes, opiVars, vars
<1>5. ASSUME NEW h \in Handlers, Serves(h) PROVE BootOrder'
  BY <1>5 DEF Serves, opiVars
<1>6. ASSUME NEW h \in Handlers, Handles(h) \/ Fails(h) \/ Sends(h) PROVE BootOrder'
  <2>1. TakesStep(h) /\ UNCHANGED opiVars
    BY <1>6 DEF Handles, Fails, Sends, HandlerAlone, RequestFails, SendRoutes, TakesStep
  <2>2. pc[h] # "idle"
    BY <2>1, StepKinds
  <2>3. QED  BY <2>1, <2>2 DEF opiVars
<1>7. CASE UNCHANGED ovars
  BY <1>7 DEF ovars, opiVars, allVars, vars
<1>8. QED  BY <1>1, <1>2, <1>3, <1>4, <1>5, <1>6, <1>7 DEF OpiNext

\* A process that is not there yet has no collector and no request.
LEMMA OpiInitTypes == OpiInit => IInv /\ RoutingTypes /\ BootOrder
<1> SUFFICES ASSUME OpiInit PROVE IInv /\ RoutingTypes /\ BootOrder
  OBVIOUS
<1>1. IInv /\ RoutingTypes
  BY InitInv, RoutingInitTypes DEF OpiInit, EiriniInit
<1>2. BootOrder
  BY DEF OpiInit, EiriniInit, Init, BootOrder, Steps
<1>3. QED  BY <1>1, <1>2

(***************************************************************************)
(* Types, and the order of the start-up: whatever fails and however often  *)
(* the process ends, a request is only ever handled by a process whose     *)
(* emitter and collector run (OpiTypeOK, connect.go).                      *)
(***************************************************************************)
THEOREM OpiTypeCorrect == OpiSpec => []OpiTypeOK
<1> DEFINE Inv == TypeOK /\ RoutingTypes /\ BootOrder
<1>1. OpiInit => Inv
  BY OpiInitTypes DEF IInv
<1>2. Inv /\ [OpiNext]_ovars => Inv'
  BY OpiStepRequests, NextTypes, OpiStepTypes, BootStep
<1>3. Inv => OpiTypeOK
  BY DEF OpiTypeOK, EiriniTypeOK, RoutingTypes
<1>4. QED  BY <1>1, <1>2, <1>3, PTL DEF OpiSpec

\* Routes are written to a Service only while a collector runs.
LEMMA NothingToCollectStep ==
    ASSUME IInv, RoutingTypes, BootOrder, NothingToCollect, [OpiNext]_ovars
    PROVE  NothingToCollect'
<1> SUFFICES ASSUME "collector" \notin goroutines', lost' = 0, NEW a \in Apps
             PROVE  routes'[a] = {}
  BY DEF NothingToCollect
<1>1. lost \in Nat
  BY DEF RoutingTypes, R!RoutesTypeOK
<1>2. CASE Exit
  BY <1>1, <1>2 DEF Exit, R!Lose
<1>3. CASE Crashes
  BY <1>1, <1>3 DEF Crashes, ProcessCrash, R!Restart, R!Lose
<1>4. CASE UNCHANGED <<vars, lost>> /\ goroutines' = goroutines
  BY <1>4 DEF NothingToCollect, vars
<1>5. CASE RouterWaits \/ Waits \/ Collects \/ \E u \in Uris : Prunes(u)
  BY <1>4, <1>5 DEF RouterWaits, Waits, R!TickBlocked, Collects, R!Collect, Prunes,
     R!Prune, opiVars
<1>6. CASE Connect
  BY <1>6 DEF Connect, setConfigFromFile, initStager, initBifrost, allVars, vars,
              launchRouteEmitter, ListenAndServe, Pass, routingVars, NothingToCollect
<1>7. CASE Ticks
  BY <1>7 DEF Ticks, opiVars
<1>8. CASE Emits
  <2>1. UNCHANGED <<vars, opiVars>> /\ lost' \in {lost, lost + 1}
    BY <1>8 DEF Emits, R!Emit, R!Register, R!RegisterLost, R!Unregister,
                R!UnregisterLost, R!Lose
  <2>2. QED  BY <1>1, <1>4, <2>1 DEF opiVars
<1>9. ASSUME NEW h \in Handlers, Serves(h) PROVE FALSE
  BY <1>9 DEF Serves, BootOrder, opiVars
<1>10. ASSUME NEW h \in Handlers, Handles(h) \/ Fails(h) \/ Sends(h) PROVE FALSE
  <2>1. TakesStep(h) /\ UNCHANGED opiVars
    BY <1>10 DEF Handles, Fails, Sends, HandlerAlone, RequestFails, SendRoutes,
       TakesStep
  <2>2. pc[h] # "idle"
    BY <2>1, StepKinds
  <2>3. QED  BY <2>1, <2>2 DEF opiVars, BootOrder
<1>11. CASE UNCHANGED ovars
  BY <1>4, <1>11 DEF ovars, opiVars, allVars, routingVars
<1>12. QED
  BY <1>2, <1>3, <1>5, <1>6, <1>7, <1>8, <1>9, <1>10, <1>11 DEF OpiNext

\* Announced routes are upheld across the lives of the process.
LEMMA OpiStepUpheld ==
    ASSUME IInv, RoutingTypes, NothingToCollect, RoutesUpheld, [OpiNext]_ovars
    PROVE  RoutesUpheld'
<1>1. CASE [EiriniNext]_allVars
  BY <1>1, EiriniStepUpheld
<1>2. CASE Exit \/ RouterWaits
  <2>1. OwnUris'
    BY <1>2 DEF Exit, RouterWaits, RoutesUpheld, OwnUris, vars, App
  <2>2. lost' = 0 => \A a \in Apps : routes'[a] = {}
    BY <1>2 DEF Exit, RouterWaits, R!Lose, RoutingTypes, R!RoutesTypeOK,
                NothingToCollect, vars
  <2>3. QED  BY <2>1, <2>2 DEF RoutesUpheld, AnnouncedUpheld
<1>3. QED  BY <1>1, <1>2, OpiStep

(***************************************************************************)
(* RoutesStayUpheld of the process with its start-up: no route is          *)
(* announced before there is a collector to keep it alive, in the first    *)
(* life of the process or, after a loss, in a later one                    *)
(* (launchRouteEmitter before ListenAndServe in connect.go).               *)
(***************************************************************************)
THEOREM OpiRoutesUpheld == OpiSpec => []RoutesUpheld
<1> DEFINE Inv == /\ IInv /\ RoutingTypes /\ BootOrder
                  /\ NothingToCollect /\ RoutesUpheld
<1>1. OpiInit => Inv
  BY OpiInitTypes, InitUpheld DEF OpiInit, EiriniInit, Init, NothingToCollect
<1>2. Inv /\ [OpiNext]_ovars => Inv'
  <2> SUFFICES ASSUME Inv, [OpiNext]_ovars PROVE Inv'
    OBVIOUS
  <2>1. IInv'
    BY OpiStepRequests, NextInv
  <2>2. RoutingTypes' /\ BootOrder'
    BY OpiStepTypes, BootStep DEF IInv
  <2>3. NothingToCollect' /\ RoutesUpheld'
    BY NothingToCollectStep, OpiStepUpheld
  <2>4. QED  BY <2>1, <2>2, <2>3
<1>3. QED  BY <1>1, <1>2, PTL DEF OpiSpec

(***************************************************************************)
(* RoutesStayAvailable of the process with its start-up: no request is     *)
(* taken on, and so no app settles, before emitter and collector run, and  *)
(* the routes of a settled app do not expire for want of a collector       *)
(* (launchRouteEmitter before ListenAndServe in connect.go).               *)
(***************************************************************************)
THEOREM OpiRoutesAvailable == OpiSpec => []RoutesAvailable
  BY OpiRoutesUpheld, UpheldAvailable, PTL

(***************************************************************************)
(* Everything that is proved of the request path holds across start-ups,   *)
(* failed ones included, ends and crashes of the process: apps do not      *)
(* disturb each other (AckedIsDeployed), the Ingress is an atomic table    *)
(* (IngressSane, ImplementsRuleTable), and dropped routes are announced    *)
(* (DroppedRoutesAnnounced).                                               *)
(***************************************************************************)
THEOREM OpiKeepsPromises ==
    OpiSpec => /\ []AckedIsDeployed
               /\ []IngressSane
               /\ ImplementsRuleTable
               /\ DroppedRoutesAnnounced
  BY OpiImplementsDesirer, Isolation, IngressSanity, IngressRefinesRuleTable,
     DropsAreAnnounced
=============================================================================
