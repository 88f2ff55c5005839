---------------------------- MODULE DesirerProofs ----------------------------
(***************************************************************************)
(* Theorems about Desirer, for any sets of apps, handlers, URIs and specs. *)
(***************************************************************************)
EXTENDS Desirer, TLAPS

\* Objects of different kinds or apps have different names (utils.go).
LEMMA ObjectNames ==
    ASSUME NEW a \in Apps, NEW b \in Apps
    PROVE  /\ Sts(a) \in Objects /\ Headless(a) \in Objects
           /\ Svc(a) \in Objects /\ Ingress \in Objects
           /\ Sts(a) = Sts(b) => a = b
           /\ Headless(a) = Headless(b) => a = b
           /\ Svc(a) = Svc(b) => a = b
           /\ Sts(a) # Headless(b) /\ Sts(a) # Svc(b) /\ Headless(a) # Svc(b)
           /\ Sts(a) # Ingress /\ Headless(a) # Ingress /\ Svc(a) # Ingress
  BY DEF Objects, Sts, Headless, Svc, Ingress

\* createIngressRules makes rules of the app's own Service only.
LEMMA IngressRulesOfApp ==
    ASSUME NEW a \in Apps, NEW uris \in SUBSET ValidUris
    PROVE  /\ createIngressRules(a, uris) \subseteq Rules
           /\ \A r \in createIngressRules(a, uris) : r.service = a
           /\ uris = {} <=> createIngressRules(a, uris) = {}
<1>1. createIngressRules(a, uris) \subseteq Rules
  <2>1. SUFFICES ASSUME NEW u \in uris
                 PROVE  [service |-> a, rule |-> RuleOf[u]] \in Rules
    BY DEF createIngressRules
  <2>2. QED  BY DEF Rules
<1>2. ASSUME NEW r \in createIngressRules(a, uris)
      PROVE  r.service = a
  BY DEF createIngressRules
<1>3. uris = {} <=> createIngressRules(a, uris) = {}
  BY DEF createIngressRules
<1>4. QED  BY <1>1, <1>2, <1>3

\* removeDifference keeps the rules of other apps and replaces those of its own.
LEMMA RemoveDifference ==
    ASSUME NEW a \in Apps, NEW uris \in SUBSET ValidUris,
           NEW existing \in SUBSET Rules
    PROVE  LET updated == createIngressRules(a, uris)
               result  == removeDifference(existing, updated, a)
           IN  /\ result \subseteq Rules
               /\ rulesWithout(result, a) = rulesWithout(existing, a)
               /\ result \ rulesWithout(result, a) = updated
               /\ updated \subseteq result
  BY IngressRulesOfApp
     DEF removeDifference, appendNewRules, removeObsoleteRules, rulesWithout

-----------------------------------------------------------------------------
(***************************************************************************)
(* Types.                                                                  *)
(***************************************************************************)
\* The request of a busy handler has the fields the code reads.
LEMMA BusyRequest ==
    ASSUME TypeOK, NEW h \in Handlers, pc[h] # "idle"
    PROVE  /\ req[h] \in Requests
           /\ App(h) \in Apps
           /\ req[h].op \in {"desire", "update", "stop"}
           /\ req[h].spec \in Specs \cup {NoSpec}
           /\ req[h].uris \in SUBSET Uris
  BY DEF TypeOK, DataTypes, MemoryTypes, Requests, App

\* Ending a request, with whatever answer, keeps the types of its variables.
LEMMA ReturnTypes ==
    ASSUME TypeOK, NEW h \in Handlers, pc[h] # "idle",
           NEW lrp \in LRPs,
           \/ Ack(h, lrp)
           \/ Fail(h)
           \/ Finish(h, lrp)
    PROVE  /\ pc' = [pc EXCEPT ![h] = "idle"]
           /\ req' = [req EXCEPT ![h] = NoReq]
           /\ UNCHANGED begun
           /\ pc' \in [Handlers -> Labels]
           /\ req' \in [Handlers -> Requests \cup {NoReq}]
           /\ \A i \in Handlers : pc'[i] # "idle" => req'[i] \in Requests
           /\ seen' \in [Handlers -> Nat]
           /\ old' \in [Handlers -> SUBSET Uris]
           /\ plan' \in [Handlers -> SUBSET Rules]
           /\ begun' \in Nat
           /\ acked' \in [Apps -> LRPs]
           /\ tainted' \subseteq Apps
<1>1. App(h) \in Apps
  BY BusyRequest
<1>2. Return(h)
  BY DEF Ack, Fail, Finish
<1>3. /\ pc' = [pc EXCEPT ![h] = "idle"]
      /\ req' = [req EXCEPT ![h] = NoReq]
      /\ UNCHANGED begun
      /\ pc' \in [Handlers -> Labels]
      /\ req' \in [Handlers -> Requests \cup {NoReq}]
      /\ \A i \in Handlers : pc'[i] # "idle" => req'[i] \in Requests
      /\ begun' \in Nat
  BY <1>2 DEF TypeOK, DataTypes, MemoryTypes, Return, Goto, Labels
<1>4. /\ seen' \in [Handlers -> Nat]
      /\ old' \in [Handlers -> SUBSET Uris]
      /\ plan' \in [Handlers -> SUBSET Rules]
  BY <1>2 DEF TypeOK, DataTypes, MemoryTypes, Return
<1>5. acked' \in [Apps -> LRPs] /\ tainted' \subseteq Apps
  BY <1>1 DEF TypeOK, DataTypes, MemoryTypes, Ack, Fail, Finish
<1>6. QED  BY <1>3, <1>4, <1>5

\* A call of the API server keeps the types of its state.
LEMMA KubeTypes ==
    ASSUME KubeTypeOK, NEW o \in Objects, NEW v,
           Create(o) \/ Put(o, v) \/ Delete(o) \/ Found(o)
    PROVE  KubeTypeOK'
  BY DEF KubeTypeOK, Create, Put, Delete, Found, kubeVars

\* The initial state has the types.
LEMMA InitTypes == Init => TypeOK
  BY DEF Init, KubeInit, TypeOK, DataTypes, MemoryTypes, KubeTypeOK, Labels, LRPs, Stopped

\* An arriving request keeps the types.
LEMMA BeginTypes ==
    ASSUME TypeOK, NEW h \in Handlers, NEW r \in Requests, NEW first \in Labels,
           Begin(h, r, first)
    PROVE  TypeOK'
<1>1. r.app \in Apps
  BY DEF Requests
<1>2. acked' \in [Apps -> LRPs] /\ tainted' \subseteq Apps
  BY <1>1 DEF TypeOK, DataTypes, MemoryTypes, Begin, LRPs, Stopped
<1>3. /\ pc' \in [Handlers -> Labels]
      /\ req' \in [Handlers -> Requests \cup {NoReq}]
      /\ \A i \in Handlers : pc'[i] # "idle" => req'[i] \in Requests
      /\ begun' \in Nat
  BY DEF TypeOK, DataTypes, MemoryTypes, Begin, Step, Goto
<1>4. KubeTypeOK'
  BY DEF TypeOK, DataTypes, MemoryTypes, KubeTypeOK, Begin
<1>5. QED  BY <1>2, <1>3, <1>4 DEF TypeOK, DataTypes, MemoryTypes, Begin

\* So does the arrival of any request, whatever it asks for.
LEMMA ArriveTypes ==
    ASSUME TypeOK, NEW h \in Handlers, Arrive(h)
    PROVE  TypeOK'
<1>1. CASE Desire(h)
  <2>1. PICK a \in Apps, s \in Specs, u \in SUBSET Uris :
            Begin(h, [spec |-> s, op |-> "desire", app |-> a, uris |-> u], "exists")
    BY <1>1 DEF Desire
  <2>2. [spec |-> s, op |-> "desire", app |-> a, uris |-> u] \in Requests
    BY DEF Requests
  <2>3. QED  BY <2>1, <2>2, BeginTypes DEF Labels
<1>2. CASE Update(h)
  <2>1. PICK a \in Apps, s \in Specs, u \in SUBSET Uris :
            Begin(h, [spec |-> s, op |-> "update", app |-> a, uris |-> u], "getLRP")
    BY <1>2 DEF Update
  <2>2. [spec |-> s, op |-> "update", app |-> a, uris |-> u] \in Requests
    BY DEF Requests
  <2>3. QED  BY <2>1, <2>2, BeginTypes DEF Labels
<1>3. CASE Stop(h)
  <2>1. PICK a \in Apps :
            Begin(h, [spec |-> NoSpec, op |-> "stop", app |-> a, uris |-> {}],
                  "deleteSts")
    BY <1>3 DEF Stop
  <2>2. [spec |-> NoSpec, op |-> "stop", app |-> a, uris |-> {}] \in Requests
    BY DEF Requests
  <2>3. QED  BY <2>1, <2>2, BeginTypes DEF Labels
<1>4. QED  BY <1>1, <1>2, <1>3 DEF Arrive

\* A handler that goes on to its next call without reading anything.
LEMMA PlainStepTypes ==
    ASSUME TypeOK, NEW h \in Handlers, pc[h] # "idle", NEW l \in Labels, Goto(h, l),
           UNCHANGED <<req, seen, old, plan, begun, acked, tainted>>
    PROVE  MemoryTypes'
<1>1. req[h] \in Requests
  BY BusyRequest
<1>2. QED  BY <1>1 DEF TypeOK, DataTypes, MemoryTypes, Goto

\* What a request asks for is a state an app can be in.
LEMMA AskedTypes ==
    ASSUME TypeOK, NEW h \in Handlers, pc[h] # "idle"
    PROVE  Asked(h) \in LRPs /\ Stopped \in LRPs /\ acked[App(h)] \in LRPs
  BY BusyRequest DEF TypeOK, DataTypes, MemoryTypes, Asked, LRPs, Stopped

\* A handler that ends its request.
LEMMA EndTypes ==
    ASSUME TypeOK, NEW h \in Handlers, pc[h] # "idle", NEW lrp \in LRPs,
           Ack(h, lrp) \/ Fail(h) \/ Finish(h, lrp)
    PROVE  MemoryTypes'
  BY ReturnTypes DEF MemoryTypes

\* Going on, or ending, after the Ingress keeps the types.
LEMMA IngressDoneTypes ==
    ASSUME TypeOK, NEW h \in Handlers, pc[h] # "idle", IngressDone(h)
    PROVE  MemoryTypes'
<1>1. CASE req[h].op = "stop"
  BY <1>1, PlainStepTypes DEF IngressDone, Labels
<1>2. CASE req[h].op # "stop"
  BY <1>2, EndTypes, AskedTypes DEF IngressDone
<1>3. QED  BY <1>1, <1>2

\* A step of a handler keeps the types.
LEMMA HandlerTypes ==
    ASSUME TypeOK, NEW h \in Handlers, HandlerStep(h) \/ Send(h) \/ CallFails(h)
    PROVE  TypeOK'
<1>1. pc[h] # "idle"
  BY DEF HandlerStep, Send, CallFails, Step, Exists, CreateSts, CreateHeadless,
         CreateSvc, GetLRP, GetSts, PutSts, GetSvc, PutSvc, DeleteSts,
         DeleteHeadless, DeleteSvc, ListIngress, GetIngress, PutIngress,
         CreateIngress, DropIngress, Refused, CallRefused
<1>2. /\ req[h] \in Requests /\ App(h) \in Apps
      /\ req[h].spec \in Specs \cup {NoSpec} /\ req[h].uris \in SUBSET Uris
  BY <1>1, BusyRequest
<1>3. /\ Sts(App(h)) \in Objects /\ Headless(App(h)) \in Objects
      /\ Svc(App(h)) \in Objects /\ Ingress \in Objects
  BY <1>2, ObjectNames
<1>4. /\ Asked(h) \in LRPs /\ Stopped \in LRPs /\ acked[App(h)] \in LRPs
  BY <1>1, AskedTypes
<1>5. KubeTypeOK /\ DataTypes /\ MemoryTypes
  BY DEF TypeOK
<1> USE DEF Step, Labels
<1>6. CASE Exists(h)
  <2>1. MemoryTypes'
    BY <1>1, <1>4, <1>6, EndTypes, PlainStepTypes DEF Exists
  <2>2. KubeTypeOK' /\ DataTypes'
    BY <1>5, <1>6 DEF Exists, clusterVars, KubeTypeOK, DataTypes
  <2>3. QED  BY <2>1, <2>2 DEF TypeOK
<1>7. CASE CreateSts(h)
  BY <1>1, <1>2, <1>3, <1>5, <1>7, PlainStepTypes, KubeTypes
     DEF TypeOK, CreateSts, historyVars, DataTypes
<1>8. CASE CreateHeadless(h)
  BY <1>1, <1>2, <1>3, <1>5, <1>8, PlainStepTypes, KubeTypes
     DEF TypeOK, CreateHeadless, historyVars, DataTypes
<1>9. CASE CreateSvc(h)
  BY <1>1, <1>2, <1>3, <1>5, <1>9, PlainStepTypes, KubeTypes
     DEF TypeOK, CreateSvc, historyVars, DataTypes
<1>10. CASE GetLRP(h)
  BY <1>1, <1>2, <1>3, <1>5, <1>10, PlainStepTypes, KubeTypes
     DEF TypeOK, GetLRP, historyVars, DataTypes
<1>11. CASE GetSts(h)
  <2>1. MemoryTypes'
    BY <1>2, <1>3, <1>5, <1>11
       DEF GetSts, historyVars, MemoryTypes, KubeTypeOK, Goto
  <2>2. KubeTypeOK' /\ DataTypes'
    BY <1>3, <1>5, <1>11, KubeTypes DEF GetSts, DataTypes
  <2>3. QED  BY <2>1, <2>2 DEF TypeOK
<1>12. CASE PutSts(h)
  BY <1>1, <1>2, <1>3, <1>5, <1>12, PlainStepTypes, KubeTypes
     DEF TypeOK, PutSts, historyVars, DataTypes
<1>13. CASE GetSvc(h)
  <2>1. MemoryTypes'
    BY <1>2, <1>3, <1>5, <1>13
       DEF GetSvc, historyVars, MemoryTypes, DataTypes, KubeTypeOK, Goto
  <2>2. KubeTypeOK' /\ DataTypes'
    BY <1>3, <1>5, <1>13, KubeTypes DEF GetSvc, DataTypes
  <2>3. QED  BY <2>1, <2>2 DEF TypeOK
<1>14. CASE PutSvc(h)
  BY <1>1, <1>2, <1>3, <1>5, <1>14, PlainStepTypes, KubeTypes
     DEF TypeOK, PutSvc, historyVars, DataTypes
<1>15. CASE DeleteSts(h)
  BY <1>1, <1>2, <1>3, <1>5, <1>15, PlainStepTypes, KubeTypes
     DEF TypeOK, DeleteSts, historyVars, DataTypes
<1>16. CASE DeleteHeadless(h)
  BY <1>1, <1>2, <1>3, <1>5, <1>16, PlainStepTypes, KubeTypes
     DEF TypeOK, DeleteHeadless, historyVars, DataTypes
<1>17. CASE DeleteSvc(h)
  BY <1>1, <1>2, <1>3, <1>4, <1>5, <1>17, EndTypes, KubeTypes
     DEF TypeOK, DeleteSvc, DataTypes
<1>18. CASE ListIngress(h)
  <2>1. KubeTypeOK' /\ DataTypes'
    BY <1>5, <1>18 DEF ListIngress, clusterVars, KubeTypeOK, DataTypes
  <2>2. CASE Ack(h, Asked(h)) \/ Fail(h)
    BY <1>1, <1>4, <2>1, <2>2, EndTypes DEF TypeOK
  <2>3. CASE /\ Goto(h, "getIngress")
             /\ UNCHANGED <<req, seen, old, plan, begun, acked, tainted>>
    BY <1>1, <2>1, <2>3, PlainStepTypes DEF TypeOK
  <2>4. CASE /\ req[h].uris \subseteq ValidUris
             /\ Goto(h, IF Ingress \in live THEN "putIngress" ELSE "createIngress")
             /\ seen' = [seen EXCEPT ![h] = rev[Ingress]]
             /\ plan' = [plan EXCEPT ![h] =
                   removeDifference(IF Ingress \in live THEN rules ELSE {},
                                    createIngressRules(App(h), req[h].uris),
                                    App(h))]
             /\ UNCHANGED <<req, old, begun, acked, tainted>>
    <3> DEFINE existing == IF Ingress \in live THEN rules ELSE {}
               new == removeDifference(existing,
                         createIngressRules(App(h), req[h].uris), App(h))
    <3>1. existing \in SUBSET Rules
      BY <1>5 DEF DataTypes
    <3>2. new \in SUBSET Rules
      BY <1>2, <2>4, <3>1, RemoveDifference
    <3>3. plan' \in [Handlers -> SUBSET Rules]
      BY <1>5, <2>4, <3>2 DEF MemoryTypes
    <3>4. seen' \in [Handlers -> Nat]
      BY <1>3, <1>5, <2>4 DEF MemoryTypes, KubeTypeOK
    <3>5. MemoryTypes'
      BY <1>2, <1>5, <2>4, <3>3, <3>4 DEF MemoryTypes, Goto
    <3>6. QED  BY <2>1, <3>5 DEF TypeOK
  <2>5. QED  BY <1>18, <2>2, <2>3, <2>4 DEF ListIngress
<1>19. CASE GetIngress(h)
  <2>1. rulesWithout(rules, App(h)) \in SUBSET Rules
    BY <1>5 DEF rulesWithout, DataTypes
  <2>2. MemoryTypes'
    BY <1>2, <1>3, <1>5, <1>19, <2>1
       DEF GetIngress, historyVars, MemoryTypes, KubeTypeOK, Goto
  <2>3. KubeTypeOK' /\ DataTypes'
    BY <1>3, <1>5, <1>19, KubeTypes DEF GetIngress, DataTypes
  <2>4. QED  BY <2>2, <2>3 DEF TypeOK
<1>20. CASE PutIngress(h)
  BY <1>1, <1>3, <1>5, <1>20, IngressDoneTypes, KubeTypes
     DEF TypeOK, PutIngress, DataTypes, MemoryTypes
<1>21. CASE CreateIngress(h)
  BY <1>1, <1>3, <1>5, <1>21, IngressDoneTypes, KubeTypes
     DEF TypeOK, CreateIngress, DataTypes, MemoryTypes
<1>22. CASE DropIngress(h)
  BY <1>1, <1>3, <1>5, <1>22, IngressDoneTypes, KubeTypes
     DEF TypeOK, DropIngress, DataTypes, MemoryTypes
<1>23. CASE Refused(h) \/ CallFails(h)
  <2>1. MemoryTypes'
    BY <1>1, <1>4, <1>23, EndTypes DEF Refused, CallFails
  <2>2. KubeTypeOK' /\ DataTypes'
    BY <1>5, <1>23 DEF Refused, CallFails, clusterVars, KubeTypeOK, DataTypes
  <2>3. QED  BY <2>1, <2>2 DEF TypeOK
<1>24. CASE Send(h)
  <2>1. MemoryTypes'
    BY <1>1, <1>24, PlainStepTypes DEF Send, historyVars
  <2>2. KubeTypeOK' /\ DataTypes'
    BY <1>5, <1>24 DEF Send, clusterVars, KubeTypeOK, DataTypes
  <2>3. QED  BY <2>1, <2>2 DEF TypeOK
<1>25. QED
  BY <1>6, <1>7, <1>8, <1>9, <1>10, <1>11, <1>12, <1>13, <1>14, <1>15, <1>16,
     <1>17, <1>18, <1>19, <1>20, <1>21, <1>22, <1>23, <1>24 DEF HandlerStep

\* A crash keeps the types.
LEMMA CrashTypes == TypeOK /\ Crash => TypeOK'
  BY DEF TypeOK, DataTypes, MemoryTypes, Crash, KubeTypeOK, clusterVars, Labels

\* Every step keeps the types.
LEMMA NextTypes == TypeOK /\ [Next]_vars => TypeOK'
<1> SUFFICES ASSUME TypeOK, [Next]_vars  PROVE TypeOK'
  OBVIOUS
<1>1. CASE UNCHANGED vars
  BY <1>1 DEF vars, TypeOK, DataTypes, MemoryTypes, KubeTypeOK
<1>2. ASSUME NEW h \in Handlers,
             Arrive(h) \/ HandlerStep(h) \/ Send(h) \/ CallFails(h)
      PROVE  TypeOK'
  BY <1>2, ArriveTypes, HandlerTypes
<1>3. CASE Crash
  BY <1>3, CrashTypes
<1>4. CASE Quiet
  BY <1>1, <1>4 DEF Quiet
<1>5. QED  BY <1>1, <1>2, <1>3, <1>4 DEF Next

(***************************************************************************)
(* Type correctness: in every reachable state each object, annotation and  *)
(* handler variable has its type, and a busy handler has a request.        *)
(***************************************************************************)
THEOREM TypeCorrect == Spec => []TypeOK
<1>1. Init => TypeOK
  BY InitTypes
<1>2. TypeOK /\ [Next]_vars => TypeOK'
  BY NextTypes
<1>3. QED  BY <1>1, <1>2, PTL DEF Spec

-----------------------------------------------------------------------------
(***************************************************************************)
(* What a step of one handler leaves alone.                                *)
(***************************************************************************)
\* A write of the Ingress or of a Service shows in its version.
IngressMonotone ==
    /\ rev[Ingress] <= rev'[Ingress]
    /\ Ingress \in live' /\ rev'[Ingress] = rev[Ingress] =>
          Ingress \in live /\ rules' = rules

ServiceMonotone(a) ==
    /\ rev[Svc(a)] <= rev'[Svc(a)]
    /\ Svc(a) \in live' /\ rev'[Svc(a)] = rev[Svc(a)] =>
          Svc(a) \in live /\ routes'[a] = routes[a]

\* Versions only grow, trivially so while nothing changes.
LEMMA SameClusterMonotone ==
    ASSUME TypeOK, UNCHANGED <<live, rev, spec, routes, rules>>
    PROVE  IngressMonotone /\ \A a \in Apps : ServiceMonotone(a)
<1>1. rev \in [Objects -> Nat] /\ Ingress \in Objects
  BY DEF TypeOK, KubeTypeOK, Objects
<1>2. \A a \in Apps : Svc(a) \in Objects
  BY ObjectNames
<1>3. QED  BY <1>1, <1>2 DEF IngressMonotone, ServiceMonotone

\* The handler neither moves nor forgets.
SameHandler(i) ==
    /\ pc'[i] = pc[i] /\ req'[i] = req[i]
    /\ seen'[i] = seen[i] /\ old'[i] = old[i] /\ plan'[i] = plan[i]

\* The app keeps everything but, possibly, its rules, which a drop of the Ingress takes.
SameApp(a) ==
    /\ \A o \in {Sts(a), Headless(a), Svc(a)} : o \in live' <=> o \in live
    /\ spec'[a] = spec[a] /\ routes'[a] = routes[a] /\ acked'[a] = acked[a]
    /\ RulesOfApp(a)' \in {RulesOfApp(a), {}}

\* An untouched app stays so when its objects and its handlers are left alone.
LEMMA SameAppUntouched ==
    ASSUME NEW a \in Apps, Untouched(a), SameApp(a), Busy(a)' = Busy(a),
           \A i \in Busy(a) : SameHandler(i)
    PROVE  Untouched(a)'
<1>1. Intact(a) => Intact(a)'
  BY DEF SameApp, Intact, Gone, Deployed, Stopped
<1>2. Gone(a) => Gone(a)'
  BY DEF SameApp, Gone
<1>3. ObjectsOf(a)' = ObjectsOf(a)
  BY DEF SameApp, ObjectsOf
<1>4. ASSUME NEW i \in Busy(a) PROVE Halfway(i, a)'
  <2>1. Halfway(i, a) /\ SameHandler(i)
    BY <1>4 DEF Untouched
  <2>2. QED  BY <1>1, <1>2, <1>3, <2>1 DEF Halfway, SameHandler, SameApp
<1>5. QED  BY <1>1, <1>4 DEF Untouched

\* What a handler has read stays vouched for when others take steps.
LEMMA SameHandlerInv ==
    ASSUME TypeOK, NEW i \in Handlers, HandlerInv(i), SameHandler(i),
           IngressMonotone, \A a \in Apps : ServiceMonotone(a), TypeOK'
    PROVE  HandlerInv(i)'
<1> SUFFICES ASSUME pc[i] # "idle"
             PROVE  (RequestShape(i) /\ IngressRead(i) /\ ServiceRead(i))'
  BY DEF HandlerInv, SameHandler
<1>1. RequestShape(i) /\ IngressRead(i) /\ ServiceRead(i)
  BY DEF HandlerInv
<1>2. App(i) \in Apps /\ App(i)' = App(i)
  BY BusyRequest DEF App, SameHandler
<1>3. /\ rev \in [Objects -> Nat] /\ rev' \in [Objects -> Nat]
      /\ seen[i] \in Nat /\ Ingress \in Objects /\ Svc(App(i)) \in Objects
  BY <1>2, ObjectNames DEF TypeOK, KubeTypeOK, MemoryTypes
<1>4. RequestShape(i)'
  BY <1>1 DEF RequestShape, SameHandler
<1>5. IngressRead(i)'
  BY <1>1, <1>2, <1>3 DEF IngressRead, SameHandler, IngressMonotone
<1>6. ServiceRead(i)'
  BY <1>1, <1>2, <1>3 DEF ServiceRead, SameHandler, ServiceMonotone
<1>7. QED  BY <1>4, <1>5, <1>6

\* The steps of a handler, by what they write.
ClusterQuiet(h) ==
    \/ Exists(h) \/ GetLRP(h) \/ GetSts(h) \/ GetSvc(h) \/ Send(h)
    \/ ListIngress(h) \/ GetIngress(h) \/ Refused(h) \/ CallFails(h)

WorkloadWrite(h) ==
    \/ CreateSts(h) \/ CreateHeadless(h) \/ PutSts(h) \/ DeleteSts(h)
    \/ DeleteHeadless(h)

ServiceWrite(h) == CreateSvc(h) \/ PutSvc(h) \/ DeleteSvc(h)

IngressWrite(h) == PutIngress(h) \/ CreateIngress(h) \/ DropIngress(h)

TakesStep(h) == HandlerStep(h) \/ Send(h) \/ CallFails(h)

\* Every step of a busy handler writes at most one kind of object.
LEMMA StepKinds ==
    ASSUME NEW h \in Handlers, TakesStep(h)
    PROVE  /\ pc[h] # "idle"
           /\ ClusterQuiet(h) \/ WorkloadWrite(h) \/ ServiceWrite(h) \/ IngressWrite(h)
<1>1. pc[h] # "idle"
  BY DEF TakesStep, HandlerStep, Send, CallFails, Step, Exists, CreateSts,
         CreateHeadless, CreateSvc, GetLRP, GetSts, PutSts, GetSvc, PutSvc,
         DeleteSts, DeleteHeadless, DeleteSvc, ListIngress, GetIngress,
         PutIngress, CreateIngress, DropIngress, Refused, CallRefused
<1>2. QED
  BY <1>1 DEF TakesStep, HandlerStep, ClusterQuiet, WorkloadWrite, ServiceWrite,
              IngressWrite

\* A step moves its own handler only, and that one ends or keeps its request.
LEMMA OneHandlerMoves ==
    ASSUME TypeOK, NEW h \in Handlers, TakesStep(h)
    PROVE  /\ \A i \in Handlers \ {h} : SameHandler(i)
           /\ pc'[h] = "idle" \/ req'[h] = req[h]
           /\ tainted \subseteq tainted' /\ tainted' \subseteq tainted \cup {App(h)}
           /\ \A a \in Apps \ {App(h)} : acked'[a] = acked[a]
<1> USE DEF Step, Goto, Return, Ack, Fail, Finish, IngressDone, SameHandler,
            TypeOK, MemoryTypes, historyVars
<1>1. CASE Exists(h)            BY <1>1 DEF Exists
<1>2. CASE CreateSts(h)         BY <1>2 DEF CreateSts
<1>3. CASE CreateHeadless(h)    BY <1>3 DEF CreateHeadless
<1>4. CASE CreateSvc(h)         BY <1>4 DEF CreateSvc
<1>5. CASE GetLRP(h)            BY <1>5 DEF GetLRP
<1>6. CASE GetSts(h)            BY <1>6 DEF GetSts
<1>7. CASE PutSts(h)            BY <1>7 DEF PutSts
<1>8. CASE GetSvc(h)            BY <1>8 DEF GetSvc
<1>9. CASE PutSvc(h)            BY <1>9 DEF PutSvc
<1>10. CASE DeleteSts(h)        BY <1>10 DEF DeleteSts
<1>11. CASE DeleteHeadless(h)   BY <1>11 DEF DeleteHeadless
<1>12. CASE DeleteSvc(h)        BY <1>12 DEF DeleteSvc
<1>13. CASE ListIngress(h)      BY <1>13 DEF ListIngress
<1>14. CASE GetIngress(h)       BY <1>14 DEF GetIngress
<1>15. CASE PutIngress(h)       BY <1>15 DEF PutIngress
<1>16. CASE CreateIngress(h)    BY <1>16 DEF CreateIngress
<1>17. CASE DropIngress(h)      BY <1>17 DEF DropIngress
<1>18. CASE Refused(h)          BY <1>18 DEF Refused
<1>19. CASE Send(h)             BY <1>19 DEF Send
<1>20. CASE CallFails(h)        BY <1>20 DEF CallFails
<1>21. QED
  BY <1>1, <1>2, <1>3, <1>4, <1>5, <1>6, <1>7, <1>8, <1>9, <1>10, <1>11, <1>12,
     <1>13, <1>14, <1>15, <1>16, <1>17, <1>18, <1>19, <1>20
     DEF TakesStep, HandlerStep

\* A step that writes nothing.
LEMMA QuietCluster ==
    ASSUME NEW h, ClusterQuiet(h)
    PROVE  UNCHANGED clusterVars
  BY DEF ClusterQuiet, Exists, GetLRP, GetSts, GetSvc, Send, ListIngress,
         GetIngress, Refused, CallFails, Found, kubeVars, clusterVars

\* A write of an app's StatefulSet or headless Service touches nothing else.
LEMMA WorkloadLocal ==
    ASSUME TypeOK, NEW h \in Handlers, App(h) \in Apps, WorkloadWrite(h)
    PROVE  /\ UNCHANGED <<routes, rules>>
           /\ \A o \in Objects \ {Sts(App(h)), Headless(App(h))} :
                 rev'[o] = rev[o] /\ (o \in live' <=> o \in live)
           /\ \A a \in Apps \ {App(h)} : spec'[a] = spec[a]
  BY ObjectNames
     DEF WorkloadWrite, CreateSts, CreateHeadless, PutSts, DeleteSts,
         DeleteHeadless, Create, Put, Delete, TypeOK, KubeTypeOK, DataTypes

\* A write of an app's Service touches nothing else and shows in its version.
LEMMA ServiceLocal ==
    ASSUME TypeOK, NEW h \in Handlers, App(h) \in Apps, ServiceWrite(h)
    PROVE  /\ UNCHANGED <<spec, rules>>
           /\ \A o \in Objects \ {Svc(App(h))} :
                 rev'[o] = rev[o] /\ (o \in live' <=> o \in live)
           /\ \A a \in Apps \ {App(h)} : routes'[a] = routes[a]
           /\ \/ rev'[Svc(App(h))] = rev[Svc(App(h))] + 1
              \/ rev'[Svc(App(h))] = rev[Svc(App(h))] /\ Svc(App(h)) \notin live'
  BY ObjectNames
     DEF ServiceWrite, CreateSvc, PutSvc, DeleteSvc, Create, Put, Delete,
         TypeOK, KubeTypeOK, DataTypes

\* A write of the Ingress touches nothing else and shows in its version.
LEMMA IngressLocal ==
    ASSUME TypeOK, NEW h \in Handlers, App(h) \in Apps, IngressWrite(h)
    PROVE  /\ UNCHANGED <<spec, routes>>
           /\ \A o \in Objects \ {Ingress} :
                 rev'[o] = rev[o] /\ (o \in live' <=> o \in live)
           /\ \/ rev'[Ingress] = rev[Ingress] + 1
              \/ rev'[Ingress] = rev[Ingress] /\ Ingress \notin live'
  BY ObjectNames
     DEF IngressWrite, PutIngress, CreateIngress, DropIngress, Create, Put, Delete,
         TypeOK, KubeTypeOK, DataTypes

(***************************************************************************)
(* The one step that could reach into other apps is a write of the shared  *)
(* Ingress.  It replaces the rules of its own app by those of its URIs     *)
(* and keeps the others, or empties the Ingress.                           *)
(***************************************************************************)
LEMMA IngressWriteRules ==
    ASSUME TypeOK, IngressSane, NEW h \in Handlers, HandlerInv(h),
           NEW b \in Apps, b = App(h), IngressWrite(h)
    PROVE  \/ /\ pc[h] = "dropIngress"
              /\ rules' = {} /\ Ingress \notin live'
           \/ /\ RulesOfApp(b)' = createIngressRules(b, req[h].uris)
              /\ req[h].uris \subseteq ValidUris
              /\ \A a \in Apps \ {b} : RulesOfApp(a)' = RulesOfApp(a)
              /\ rules' # {} /\ Ingress \in live'
<1>1. CASE DropIngress(h)
  BY <1>1 DEF DropIngress, Delete
<1>2. CASE PutIngress(h) \/ CreateIngress(h)
  <2>1. /\ rules' = plan[h] /\ Ingress \in live'
        /\ pc[h] \in {"putIngress", "createIngress"}
    BY <1>2 DEF PutIngress, CreateIngress, Put, Create
  <2>2. RequestShape(h) /\ IngressRead(h)
    BY <2>1 DEF HandlerInv
  <2>3. rulesWithout(plan[h], b) = rulesWithout(rules, b)
    <3>1. CASE PutIngress(h)
      BY <2>2, <3>1 DEF PutIngress, Put, IngressRead
    <3>2. CASE CreateIngress(h)
      BY <2>2, <3>2 DEF CreateIngress, Create, IngressRead, IngressSane, rulesWithout
    <3>3. QED  BY <1>2, <3>1, <3>2
  <2>4. /\ plan[h] # {}
        /\ plan[h] \ rulesWithout(plan[h], b) = createIngressRules(b, req[h].uris)
        /\ req[h].uris \subseteq ValidUris
    BY <2>1, <2>2 DEF IngressRead, RequestShape
  <2>5. RulesOfApp(b)' = createIngressRules(b, req[h].uris)
    BY <2>1, <2>4 DEF RulesOfApp, rulesWithout
  <2>6. ASSUME NEW a \in Apps \ {b} PROVE RulesOfApp(a)' = RulesOfApp(a)
    BY <2>1, <2>3 DEF RulesOfApp, rulesWithout
  <2>7. QED  BY <2>1, <2>4, <2>5, <2>6
<1>3. QED  BY <1>1, <1>2 DEF IngressWrite

\* A step of a handler leaves other apps and other handlers' reads alone.
LEMMA StepLocal ==
    ASSUME IInv, NEW h \in Handlers, TakesStep(h)
    PROVE  /\ IngressMonotone
           /\ \A a \in Apps : ServiceMonotone(a)
           /\ \A a \in Apps \ {App(h)} : SameApp(a)
           /\ IngressSane'
<1>1. /\ TypeOK /\ IngressSane /\ HandlerInv(h)
      /\ pc[h] # "idle" /\ App(h) \in Apps
  BY StepKinds, BusyRequest DEF IInv
<1>2. /\ rev \in [Objects -> Nat]
      /\ \A a \in Apps \ {App(h)} : acked'[a] = acked[a]
  BY <1>1, OneHandlerMoves DEF TypeOK, KubeTypeOK
<1>3. Ingress \in Objects /\ \A a \in Apps : {Sts(a), Headless(a), Svc(a)} \subseteq Objects
  BY ObjectNames DEF Objects
<1>4. CASE ClusterQuiet(h)
  <2>1. UNCHANGED <<live, rev, spec, routes, rules>>
    BY <1>4, QuietCluster DEF clusterVars
  <2>2. IngressMonotone /\ \A a \in Apps : ServiceMonotone(a)
    BY <1>2, <1>3, <2>1 DEF IngressMonotone, ServiceMonotone
  <2>3. \A a \in Apps \ {App(h)} : SameApp(a)
    BY <1>2, <2>1 DEF SameApp, RulesOfApp
  <2>4. QED  BY <1>1, <2>1, <2>2, <2>3 DEF IngressSane
<1>5. CASE WorkloadWrite(h)
  <2>1. /\ UNCHANGED <<routes, rules>>
        /\ \A o \in Objects \ {Sts(App(h)), Headless(App(h))} :
              rev'[o] = rev[o] /\ (o \in live' <=> o \in live)
        /\ \A a \in Apps \ {App(h)} : spec'[a] = spec[a]
    BY <1>1, <1>5, WorkloadLocal
  <2>2. /\ rev'[Ingress] = rev[Ingress] /\ (Ingress \in live' <=> Ingress \in live)
        /\ \A a \in Apps : rev'[Svc(a)] = rev[Svc(a)] /\ (Svc(a) \in live' <=> Svc(a) \in live)
    BY <1>1, <2>1, ObjectNames
  <2>3. \A a \in Apps \ {App(h)} : SameApp(a)
    BY <1>1, <1>2, <2>1, ObjectNames DEF SameApp, RulesOfApp
  <2>4. IngressMonotone /\ \A a \in Apps : ServiceMonotone(a)
    BY <1>2, <1>3, <2>1, <2>2 DEF IngressMonotone, ServiceMonotone
  <2>5. QED  BY <1>1, <2>1, <2>2, <2>3, <2>4 DEF IngressSane
<1>6. CASE ServiceWrite(h)
  <2>1. /\ UNCHANGED <<spec, rules>>
        /\ \A o \in Objects \ {Svc(App(h))} :
              rev'[o] = rev[o] /\ (o \in live' <=> o \in live)
        /\ \A a \in Apps \ {App(h)} : routes'[a] = routes[a]
        /\ \/ rev'[Svc(App(h))] = rev[Svc(App(h))] + 1
           \/ rev'[Svc(App(h))] = rev[Svc(App(h))] /\ Svc(App(h)) \notin live'
    BY <1>1, <1>6, ServiceLocal
  <2>2. rev'[Ingress] = rev[Ingress] /\ (Ingress \in live' <=> Ingress \in live)
    BY <1>1, <2>1, ObjectNames
  <2>3. \A a \in Apps \ {App(h)} : SameApp(a)
    BY <1>1, <1>2, <2>1, ObjectNames DEF SameApp, RulesOfApp
  <2>4. ASSUME NEW a \in Apps PROVE ServiceMonotone(a)
    <3>1. CASE a = App(h)
      BY <1>2, <1>3, <2>1, <3>1 DEF ServiceMonotone
    <3>2. CASE a # App(h)
      BY <1>1, <1>2, <1>3, <2>1, <3>2, ObjectNames DEF ServiceMonotone
    <3>3. QED  BY <3>1, <3>2
  <2>5. IngressMonotone
    BY <1>2, <1>3, <2>1, <2>2 DEF IngressMonotone
  <2>6. QED  BY <1>1, <2>1, <2>2, <2>3, <2>4, <2>5 DEF IngressSane
<1>7. CASE IngressWrite(h)
  <2>1. /\ UNCHANGED <<spec, routes>>
        /\ \A o \in Objects \ {Ingress} :
              rev'[o] = rev[o] /\ (o \in live' <=> o \in live)
        /\ \/ rev'[Ingress] = rev[Ingress] + 1
           \/ rev'[Ingress] = rev[Ingress] /\ Ingress \notin live'
    BY <1>1, <1>7, IngressLocal
  <2>2. PICK b \in Apps : b = App(h)
    BY <1>1
  <2>3. \/ rules' = {} /\ Ingress \notin live'
        \/ /\ \A a \in Apps \ {b} : RulesOfApp(a)' = RulesOfApp(a)
           /\ rules' # {} /\ Ingress \in live'
    BY <1>1, <1>7, <2>2, IngressWriteRules
  <2>4. \A a \in Apps \ {b} : RulesOfApp(a)' \in {RulesOfApp(a), {}}
    BY <2>3 DEF RulesOfApp
  <2>5. \A a \in Apps \ {App(h)} : SameApp(a)
    BY <1>2, <2>1, <2>2, <2>4, ObjectNames DEF SameApp
  <2>6. ASSUME NEW a \in Apps PROVE ServiceMonotone(a)
    BY <1>2, <1>3, <2>1, ObjectNames DEF ServiceMonotone
  <2>7. IngressMonotone
    BY <1>2, <1>3, <2>1 DEF IngressMonotone
  <2>8. QED  BY <2>3, <2>5, <2>6, <2>7 DEF IngressSane
<1>8. QED  BY <1>4, <1>5, <1>6, <1>7, StepKinds

-----------------------------------------------------------------------------
(***************************************************************************)
(* What a step does for its own handler and app.                           *)
(***************************************************************************)
\* The versions and plans of handlers at other calls do not matter.
LEMMA PlainHandlerInv ==
    ASSUME NEW h \in Handlers, RequestShape(h), UNCHANGED req,
           pc'[h] \in Script(req[h].op) \ {"putIngress", "createIngress", "putSvc"},
           pc'[h] \in {"getIngress", "dropIngress"} => req[h].uris = {}
    PROVE  HandlerInv(h)'
  BY DEF HandlerInv, RequestShape, IngressRead, ServiceRead

\* After a step its handler is in the script and its last read is vouched for.
LEMMA OwnHandlerInv ==
    ASSUME IInv, NEW h \in Handlers, TakesStep(h), TypeOK'
    PROVE  HandlerInv(h)'
<1>1. /\ TypeOK /\ IngressSane /\ HandlerInv(h)
      /\ pc[h] # "idle" /\ App(h) \in Apps
      /\ req[h].op \in {"desire", "update", "stop"}
      /\ req[h].uris \in SUBSET Uris
  BY StepKinds, BusyRequest DEF IInv
<1>2. RequestShape(h) /\ IngressRead(h) /\ ServiceRead(h)
  BY <1>1 DEF HandlerInv
<1>3. /\ pc \in [Handlers -> Labels] /\ seen \in [Handlers -> Nat]
      /\ old \in [Handlers -> SUBSET Uris] /\ plan \in [Handlers -> SUBSET Rules]
      /\ rev \in [Objects -> Nat] /\ rules \in SUBSET Rules
  BY <1>1 DEF TypeOK, KubeTypeOK, DataTypes, MemoryTypes
<1>4. ASSUME pc'[h] = "idle" PROVE HandlerInv(h)'
  BY <1>4 DEF HandlerInv
<1>5. CASE Exists(h)
  BY <1>1, <1>2, <1>3, <1>4, <1>5, PlainHandlerInv
     DEF Exists, Ack, Return, Goto, RequestShape, Script
<1>6. CASE WorkloadWrite(h)
  BY <1>1, <1>2, <1>3, <1>6, PlainHandlerInv
     DEF WorkloadWrite, CreateSts, CreateHeadless, PutSts, DeleteSts,
         DeleteHeadless, Step, Goto, RequestShape, Script
<1>7. CASE CreateSvc(h) \/ PutSvc(h) \/ Send(h) \/ GetLRP(h) \/ GetSts(h)
  BY <1>1, <1>2, <1>3, <1>7, PlainHandlerInv
     DEF CreateSvc, PutSvc, Send, GetLRP, GetSts, Step, Goto, RequestShape, Script
<1>8. CASE Refused(h) \/ CallFails(h) \/ DeleteSvc(h)
  BY <1>3, <1>4, <1>8
     DEF Refused, CallFails, DeleteSvc, Finish, Ack, Fail, Return, Goto
<1>9. CASE GetSvc(h)
  <2>1. CASE req[h].op = "stop"
    BY <1>1, <1>2, <1>3, <1>9, <2>1, PlainHandlerInv
       DEF GetSvc, Step, Goto, RequestShape, Script
  <2>2. CASE req[h].op # "stop"
    <3>1. /\ pc'[h] = "putSvc" /\ UNCHANGED <<req, live, rev, routes>>
          /\ seen'[h] = rev[Svc(App(h))] /\ old'[h] = routes[App(h)]
          /\ req[h].op = "update"
      BY <1>1, <1>2, <1>3, <1>9, <2>2
         DEF GetSvc, Step, Goto, Found, kubeVars, RequestShape, Script
    <3>2. App(h)' = App(h) /\ rev[Svc(App(h))] \in Nat
      BY <1>1, <1>3, <3>1, ObjectNames DEF App
    <3>3. ServiceRead(h)'
      BY <3>1, <3>2 DEF ServiceRead
    <3>4. RequestShape(h)' /\ IngressRead(h)'
      BY <1>1, <1>2, <3>1 DEF RequestShape, IngressRead, Script
    <3>5. QED  BY <3>3, <3>4 DEF HandlerInv
  <2>3. QED  BY <2>1, <2>2
<1>10. CASE ListIngress(h)
  <2>1. CASE Ack(h, Asked(h)) \/ Fail(h)
    BY <1>3, <1>4, <2>1 DEF Ack, Fail, Return, Goto
  <2>2. CASE req[h].uris = {} /\ Goto(h, "getIngress") /\ UNCHANGED req
    <3>1. pc[h] = "listIngress"
      BY <1>10 DEF ListIngress
    <3>2. QED
      BY <1>1, <1>2, <1>3, <2>2, <3>1, PlainHandlerInv
         DEF Goto, RequestShape, Script
  <2>3. CASE /\ req[h].uris # {} /\ req[h].uris \subseteq ValidUris
             /\ Goto(h, IF Ingress \in live THEN "putIngress" ELSE "createIngress")
             /\ seen' = [seen EXCEPT ![h] = rev[Ingress]]
             /\ plan' = [plan EXCEPT ![h] =
                   removeDifference(IF Ingress \in live THEN rules ELSE {},
                                    createIngressRules(App(h), req[h].uris),
                                    App(h))]
             /\ UNCHANGED req
    <3> DEFINE b == App(h)
               existing == IF Ingress \in live THEN rules ELSE {}
               updated == createIngressRules(b, req[h].uris)
               new == removeDifference(existing, updated, b)
    <3>1. existing \in SUBSET Rules /\ existing = rules
      BY <1>1, <1>3 DEF IngressSane
    <3>2. /\ rulesWithout(new, b) = rulesWithout(existing, b)
          /\ new \ rulesWithout(new, b) = updated
          /\ updated \subseteq new
      BY <1>1, <2>3, <3>1, RemoveDifference
    <3>3. updated # {}
      BY <1>1, <2>3, IngressRulesOfApp
    <3>4. plan'[h] = new /\ seen'[h] = rev[Ingress]
      BY <1>3, <2>3
    <3>5. /\ pc'[h] = IF Ingress \in live THEN "putIngress" ELSE "createIngress"
          /\ req'[h] = req[h] /\ App(h)' = b
      BY <1>3, <2>3 DEF Goto, App
    <3>6. UNCHANGED <<live, rev, rules>> /\ rev[Ingress] \in Nat
      BY <1>1, <1>3, <1>10, ObjectNames DEF ListIngress, clusterVars
    <3>7. Ingress \notin live => rulesWithout(existing, b) = {}
      BY DEF rulesWithout
    <3>8. IngressRead(h)'
      <4> HIDE DEF new, updated, existing, b
      <4>1. createIngressRules(b, req[h].uris) = updated
        BY DEF updated
      <4>2. QED
        BY <3>1, <3>2, <3>3, <3>4, <3>5, <3>6, <3>7, <4>1 DEF IngressRead
    <3>9. RequestShape(h)' /\ ServiceRead(h)'
      <4> HIDE DEF new, updated, existing, b
      <4>1. pc[h] = "listIngress"
        BY <1>10 DEF ListIngress
      <4>2. QED
        BY <1>1, <1>2, <2>3, <3>5, <4>1 DEF RequestShape, ServiceRead, Script
    <3>10. QED  BY <3>8, <3>9 DEF HandlerInv
  <2>4. QED  BY <1>10, <2>1, <2>2, <2>3 DEF ListIngress
<1>11. CASE GetIngress(h)
  <2> DEFINE b == App(h)
             rest == rulesWithout(rules, b)
  <2>1. /\ pc'[h] = IF rest = {} THEN "dropIngress" ELSE "putIngress"
        /\ UNCHANGED <<req, live, rev, rules>>
        /\ seen'[h] = rev[Ingress] /\ plan'[h] = rest
        /\ App(h)' = b /\ rev[Ingress] \in Nat
    BY <1>1, <1>3, <1>11, ObjectNames
       DEF GetIngress, Step, Goto, Found, kubeVars, App
  <2>2. req[h].uris = {} /\ pc[h] = "getIngress"
    BY <1>2, <1>11 DEF RequestShape, GetIngress, Step
  <2>3. /\ rulesWithout(rest, b) = rest /\ rest \ rest = {}
        /\ createIngressRules(b, req[h].uris) = {}
    BY <1>1, <2>2, IngressRulesOfApp DEF rulesWithout
  <2>4. IngressRead(h)'
    <3> HIDE DEF rest, b
    <3>1. rulesWithout(rules, b) = rest
      BY DEF rest
    <3>2. QED  BY <2>1, <2>3, <3>1 DEF IngressRead
  <2>5. RequestShape(h)' /\ ServiceRead(h)'
    <3> HIDE DEF rest
    <3> QED  BY <1>1, <1>2, <2>1, <2>2 DEF RequestShape, ServiceRead, Script
  <2>6. QED  BY <2>4, <2>5 DEF HandlerInv
<1>12. CASE IngressWrite(h)
  <2>1. pc'[h] = "idle" \/ (req[h].op = "stop" /\ pc'[h] = "getSvc" /\ UNCHANGED req)
    BY <1>3, <1>12
       DEF IngressWrite, PutIngress, CreateIngress, DropIngress, IngressDone,
           Finish, Ack, Fail, Return, Goto
  <2>2. CASE req[h].op = "stop" /\ pc'[h] = "getSvc" /\ UNCHANGED req
    <3>1. pc'[h] \in Script(req[h].op)
      BY <2>2 DEF Script
    <3>2. QED  BY <1>2, <2>2, <3>1, PlainHandlerInv
  <2>3. QED  BY <1>4, <2>1, <2>2
<1>13. QED
  BY <1>5, <1>6, <1>7, <1>8, <1>9, <1>10, <1>11, <1>12, StepKinds
     DEF ClusterQuiet, ServiceWrite

\* An app with one handler stays untouched when that handler gets on or is done.
LEMMA AloneUntouched ==
    ASSUME TypeOK, NEW h \in Handlers, NEW b \in Apps, b = App(h), pc[h] # "idle",
           Untouched(b), \A i \in Handlers \ {h} : SameHandler(i),
           \/ pc'[h] = "idle" /\ Intact(b)'
           \/ pc'[h] # "idle" /\ req'[h] = req[h] /\ Halfway(h, b)'
    PROVE  Untouched(b)'
<1>1. Busy(b) = {h}
  BY DEF Untouched, Busy
<1>2. CASE pc'[h] = "idle" /\ Intact(b)'
  <2>1. Busy(b)' = {}
    BY <1>1, <1>2 DEF Busy, SameHandler, App
  <2>2. QED  BY <1>2, <2>1 DEF Untouched
<1>3. CASE pc'[h] # "idle" /\ req'[h] = req[h] /\ Halfway(h, b)'
  <2>1. Busy(b)' = {h}
    BY <1>1, <1>3 DEF Busy, SameHandler, App
  <2>2. QED  BY <1>3, <2>1 DEF Untouched
<1>4. QED  BY <1>2, <1>3

\* An answered request that went well leaves the app as it asked.
LEMMA AckIntact ==
    ASSUME TypeOK, NEW h \in Handlers, NEW b \in Apps, b = App(h), pc[h] # "idle",
           b \notin tainted', NEW lrp, Finish(h, lrp) \/ Ack(h, lrp) \/ Fail(h)
    PROVE  pc'[h] = "idle" /\ acked'[b] = lrp
  BY DEF Finish, Ack, Fail, Return, Goto, TypeOK, MemoryTypes

(***************************************************************************)
(* A step for an app that no request failed for and no two raced for takes *)
(* the app on to the next point of its script, or to what was asked for.   *)
(***************************************************************************)
LEMMA OwnAppUntouched ==
    ASSUME IInv, NEW h \in Handlers, TakesStep(h), TypeOK',
           NEW b \in Apps, b = App(h), b \notin tainted'
    PROVE  Untouched(b)'
<1>1. /\ TypeOK /\ IngressSane /\ HandlerInv(h) /\ pc[h] # "idle"
      /\ req[h].op \in {"desire", "update", "stop"}
  BY StepKinds, BusyRequest DEF IInv
<1>2. /\ \A i \in Handlers \ {h} : SameHandler(i)
      /\ pc'[h] = "idle" \/ req'[h] = req[h]
      /\ b \notin tainted
  BY <1>1, OneHandlerMoves
<1>3. Untouched(b) /\ Halfway(h, b)
  BY <1>1, <1>2 DEF IInv, Untouched, Busy
<1>4. RequestShape(h)
  BY <1>1 DEF HandlerInv
<1>5. /\ pc \in [Handlers -> Labels] /\ old \in [Handlers -> SUBSET Uris]
      /\ live \subseteq Objects /\ spec \in [Apps -> Specs \cup {NoSpec}]
      /\ routes \in [Apps -> SUBSET Uris]
  BY <1>1 DEF TypeOK, KubeTypeOK, DataTypes, MemoryTypes
<1>6. SUFFICES \/ pc'[h] = "idle" /\ Intact(b)'
               \/ pc'[h] # "idle" /\ Halfway(h, b)'
  BY <1>1, <1>2, <1>3, AloneUntouched
<1>7. /\ Sts(b) # Headless(b) /\ Sts(b) # Svc(b) /\ Headless(b) # Svc(b)
      /\ Sts(b) # Ingress /\ Headless(b) # Ingress /\ Svc(b) # Ingress
  BY ObjectNames
<1>8. req[h].op # "stop" => Asked(h) # Stopped
  BY <1>4, DesirerAssumption DEF RequestShape, Asked, Stopped
<1>9. CASE Refused(h) \/ CallFails(h)
  BY <1>2, <1>9 DEF Refused, CallFails, Fail
<1>10. CASE Exists(h)
  <2>1. UNCHANGED <<live, spec, routes, rules>>
    BY <1>10 DEF Exists, clusterVars
  <2>2. Intact(b)
    BY <1>3, <1>10 DEF Halfway, Exists
  <2>3. CASE Ack(h, acked[b])
    <3>1. pc'[h] = "idle" /\ acked'[b] = acked[b]
      BY <1>1, <2>3, AckIntact
    <3>2. QED  BY <2>1, <2>2, <3>1 DEF Intact, Gone, Deployed, RulesOfApp
  <2>4. CASE Sts(b) \notin live /\ Goto(h, "createSts")
    <3>1. Gone(b)
      BY <2>2, <2>4 DEF Intact, Deployed
    <3>2. Gone(b)' /\ pc'[h] = "createSts"
      BY <1>5, <2>1, <2>4, <3>1 DEF Gone, RulesOfApp, Goto
    <3>3. QED  BY <3>2, <1>2, <1>4, <1>10 DEF Halfway, RequestShape, Script, Exists
  <2>5. QED  BY <1>10, <2>3, <2>4 DEF Exists
<1>11. CASE CreateSts(h)
  <2>1. /\ pc[h] = "createSts" /\ pc'[h] = "createHeadless" /\ UNCHANGED <<req, rules>>
        /\ live' = live \cup {Sts(b)} /\ spec'[b] = req[h].spec
    BY <1>5, <1>11 DEF CreateSts, Step, Goto, Create
  <2>2. Gone(b)
    BY <1>3, <2>1 DEF Halfway
  <2>3. ObjectsOf(b)' = {Sts(b)} /\ RulesOfApp(b)' = {}
    BY <1>7, <2>1, <2>2 DEF ObjectsOf, RulesOfApp, Gone
  <2>4. QED  BY <2>1, <2>3 DEF Halfway
<1>12. CASE CreateHeadless(h)
  <2>1. /\ pc[h] = "createHeadless" /\ pc'[h] = "createSvc"
        /\ UNCHANGED <<req, rules, spec>> /\ live' = live \cup {Headless(b)}
    BY <1>5, <1>12 DEF CreateHeadless, Step, Goto, Create
  <2>2. ObjectsOf(b) = {Sts(b)} /\ RulesOfApp(b) = {} /\ spec[b] = req[h].spec
    BY <1>3, <2>1 DEF Halfway
  <2>3. ObjectsOf(b)' = {Sts(b), Headless(b)} /\ RulesOfApp(b)' = {}
    BY <1>7, <2>1, <2>2 DEF ObjectsOf, RulesOfApp
  <2>4. QED  BY <2>1, <2>2, <2>3 DEF Halfway
<1>13. CASE CreateSvc(h)
  <2>1. /\ pc[h] = "createSvc" /\ pc'[h] = "send" /\ UNCHANGED <<req, spec>>
        /\ live' = live \cup {Svc(b)} /\ routes'[b] = req[h].uris
    BY <1>5, <1>13 DEF CreateSvc, Step, Goto, Create
  <2>2. ObjectsOf(b) = {Sts(b), Headless(b)} /\ spec[b] = req[h].spec
    BY <1>3, <2>1 DEF Halfway
  <2>3. {Sts(b), Headless(b), Svc(b)} \subseteq live'
    BY <2>1, <2>2 DEF ObjectsOf
  <2>4. req[h].op = "desire"
    BY <1>1, <1>4, <2>1 DEF RequestShape, Script
  <2>5. QED  BY <2>1, <2>2, <2>3, <2>4 DEF Halfway
<1>14. CASE GetLRP(h) \/ GetSts(h)
  <2>1. /\ UNCHANGED <<req, live, spec, routes, rules, acked>>
        /\ pc[h] \in {"getLRP", "getSts"} /\ pc'[h] \in {"getSts", "putSts"}
    BY <1>5, <1>14 DEF GetLRP, GetSts, Step, Goto, Found, kubeVars, historyVars
  <2>2. Intact(b)
    BY <1>3, <2>1 DEF Halfway
  <2>3. Intact(b)'
    BY <2>1, <2>2 DEF Intact, Gone, Deployed, RulesOfApp
  <2>4. QED  BY <2>1, <2>3 DEF Halfway
<1>15. CASE PutSts(h)
  <2>1. /\ UNCHANGED <<req, live, routes, rules>> /\ Sts(b) \in live
        /\ pc[h] = "putSts" /\ pc'[h] = "getSvc" /\ spec'[b] = req[h].spec
    BY <1>5, <1>15 DEF PutSts, Step, Goto, Put
  <2>2. Deployed(b, acked[b])
    BY <1>3, <2>1 DEF Halfway, Intact, Gone
  <2>3. req[h].op = "update"
    BY <1>1, <1>4, <2>1 DEF RequestShape, Script
  <2>4. QED  BY <2>1, <2>2, <2>3 DEF Halfway, Deployed
<1>16. CASE GetSvc(h)
  <2>1. /\ UNCHANGED <<req, live, spec, routes, rules>> /\ old'[h] = routes[b]
        /\ pc[h] = "getSvc"
        /\ pc'[h] = IF req[h].op = "stop" THEN "send" ELSE "putSvc"
    BY <1>5, <1>16 DEF GetSvc, Step, Goto, Found, kubeVars
  <2>2. CASE req[h].op = "stop"
    <3>1. ObjectsOf(b) = {Svc(b)} /\ RulesOfApp(b) = {}
      BY <1>3, <2>1, <2>2 DEF Halfway
    <3>2. ObjectsOf(b)' = {Svc(b)} /\ RulesOfApp(b)' = {}
      BY <2>1, <3>1 DEF ObjectsOf, RulesOfApp
    <3>3. QED  BY <2>1, <2>2, <3>2 DEF Halfway
  <2>3. CASE req[h].op # "stop"
    BY <1>3, <2>1, <2>3 DEF Halfway
  <2>4. QED  BY <2>2, <2>3
<1>17. CASE PutSvc(h)
  <2>1. /\ UNCHANGED <<req, live, spec, rules>> /\ routes'[b] = req[h].uris
        /\ pc[h] = "putSvc" /\ pc'[h] = "send"
    BY <1>5, <1>17 DEF PutSvc, Step, Goto, Put
  <2>2. req[h].op = "update"
    BY <1>1, <1>4, <2>1 DEF RequestShape, Script
  <2>3. QED  BY <1>3, <2>1, <2>2 DEF Halfway
<1>18. CASE Send(h)
  <2>1. /\ UNCHANGED <<req, live, spec, routes, rules, old>>
        /\ pc[h] = "send"
        /\ pc'[h] = IF req[h].op = "stop" THEN "deleteSvc" ELSE "listIngress"
    BY <1>5, <1>18 DEF Send, Step, Goto, clusterVars
  <2>2. ObjectsOf(b)' = ObjectsOf(b) /\ RulesOfApp(b)' = RulesOfApp(b)
    BY <2>1 DEF ObjectsOf, RulesOfApp
  <2>3. QED  BY <1>3, <2>1, <2>2 DEF Halfway
<1>19. CASE DeleteSts(h)
  <2>1. /\ pc[h] = "deleteSts" /\ pc'[h] = "deleteHeadless" /\ UNCHANGED req
        /\ Sts(b) \in live /\ live' = live \ {Sts(b)}
    BY <1>5, <1>19 DEF DeleteSts, Step, Goto, Delete
  <2>2. Deployed(b, acked[b])
    BY <1>3, <2>1 DEF Halfway, Intact, Gone
  <2>3. ObjectsOf(b)' = {Headless(b), Svc(b)}
    BY <1>7, <2>1, <2>2 DEF ObjectsOf, Deployed
  <2>4. QED  BY <2>1, <2>3 DEF Halfway
<1>20. CASE DeleteHeadless(h)
  <2>1. /\ pc[h] = "deleteHeadless" /\ pc'[h] = "getIngress" /\ UNCHANGED req
        /\ live' = live \ {Headless(b)}
    BY <1>5, <1>20 DEF DeleteHeadless, Step, Goto, Delete
  <2>2. ObjectsOf(b) = {Headless(b), Svc(b)}
    BY <1>3, <2>1 DEF Halfway
  <2>3. ObjectsOf(b)' = {Svc(b)}
    BY <1>7, <2>1, <2>2 DEF ObjectsOf
  <2>4. req[h].op = "stop"
    BY <1>1, <1>4, <2>1 DEF RequestShape, Script
  <2>5. QED  BY <2>1, <2>3, <2>4 DEF Halfway
<1>21. CASE DeleteSvc(h)
  <2>1. /\ pc[h] = "deleteSvc" /\ UNCHANGED rules /\ live' = live \ {Svc(b)}
        /\ Finish(h, Stopped)
    BY <1>21 DEF DeleteSvc, Delete
  <2>2. req[h].op = "stop"
    BY <1>1, <1>4, <2>1 DEF RequestShape, Script
  <2>3. ObjectsOf(b) = {Svc(b)} /\ RulesOfApp(b) = {}
    BY <1>3, <2>1, <2>2 DEF Halfway
  <2>4. Gone(b)'
    BY <2>1, <2>3 DEF Gone, ObjectsOf, RulesOfApp
  <2>5. pc'[h] = "idle" /\ acked'[b] = Stopped
    BY <1>1, <2>1, AckIntact
  <2>6. QED  BY <2>4, <2>5 DEF Intact, Stopped
<1>22. CASE ListIngress(h)
  <2>1. UNCHANGED <<live, spec, routes, rules>> /\ pc[h] = "listIngress"
    BY <1>22 DEF ListIngress, clusterVars
  <2>2. req[h].op # "stop"
    BY <1>1, <1>4, <2>1 DEF RequestShape, Script
  <2>3. /\ {Sts(b), Headless(b), Svc(b)} \subseteq live
        /\ spec[b] = req[h].spec /\ routes[b] = req[h].uris
    BY <1>3, <2>1, <2>2 DEF Halfway
  <2>4. CASE /\ Ingress \notin live /\ req[h].uris = {} /\ Ack(h, Asked(h))
    <3>1. pc'[h] = "idle" /\ acked'[b] = Asked(h)
      BY <1>1, <2>4, AckIntact
    <3>2. RulesOfApp(b)' = {}
      BY <1>1, <2>1, <2>4 DEF IngressSane, RulesOfApp
    <3>3. acked'[b].spec = req[h].spec /\ acked'[b].uris = req[h].uris
      BY <3>1 DEF Asked
    <3>4. Deployed(b, acked[b])'
      BY <2>1, <2>3, <3>2, <3>3 DEF Deployed
    <3>5. QED  BY <1>8, <2>2, <3>1, <3>4 DEF Intact, Stopped
  <2>5. CASE Fail(h)
    BY <1>2, <2>5 DEF Fail
  <2>6. CASE /\ UNCHANGED req
             /\ \/ Goto(h, "getIngress")
                \/ Goto(h, IF Ingress \in live THEN "putIngress" ELSE "createIngress")
    <3>1. pc'[h] \in {"getIngress", "putIngress", "createIngress"}
      BY <1>5, <2>6 DEF Goto
    <3>2. QED  BY <2>1, <2>2, <2>3, <2>6, <3>1 DEF Halfway
  <2>7. QED  BY <1>22, <2>4, <2>5, <2>6 DEF ListIngress
<1>23. CASE GetIngress(h)
  <2>1. /\ UNCHANGED <<req, live, spec, routes, rules>> /\ pc[h] = "getIngress"
        /\ pc'[h] \in {"dropIngress", "putIngress"}
    BY <1>5, <1>23 DEF GetIngress, Step, Goto, Found, kubeVars
  <2>2. ObjectsOf(b)' = ObjectsOf(b)
    BY <2>1 DEF ObjectsOf
  <2>3. QED  BY <1>3, <2>1, <2>2 DEF Halfway
<1>24. CASE IngressWrite(h)
  <2>1. RulesOfApp(b)' \subseteq createIngressRules(b, req[h].uris)
    BY <1>1, <1>24, IngressWriteRules DEF RulesOfApp
  <2>2. /\ UNCHANGED <<spec, routes>> /\ IngressDone(h)
        /\ pc[h] \in {"putIngress", "createIngress", "dropIngress"}
        /\ \A o \in {Sts(b), Headless(b), Svc(b)} : o \in live' <=> o \in live
    BY <1>7, <1>24
       DEF IngressWrite, PutIngress, CreateIngress, DropIngress, Put, Create, Delete
  <2>3. CASE req[h].op = "stop"
    <3>1. pc'[h] = "getSvc" /\ UNCHANGED req
      BY <1>5, <2>2, <2>3 DEF IngressDone, Goto
    <3>2. RulesOfApp(b)' = {}
      BY <1>4, <2>1, <2>3 DEF RequestShape, createIngressRules
    <3>3. pc[h] # "createIngress"
      BY <1>4, <2>3 DEF RequestShape, Script
    <3>4. ObjectsOf(b)' = {Svc(b)}
      <4>1. ObjectsOf(b) = {Svc(b)}
        BY <1>3, <2>2, <2>3, <3>3 DEF Halfway
      <4>2. QED  BY <2>2, <4>1 DEF ObjectsOf
    <3>5. QED  BY <2>3, <3>1, <3>2, <3>4 DEF Halfway
  <2>4. CASE req[h].op # "stop"
    <3>1. pc'[h] = "idle" /\ acked'[b] = Asked(h)
      BY <1>1, <2>2, <2>4, AckIntact DEF IngressDone
    <3>2. /\ {Sts(b), Headless(b), Svc(b)} \subseteq live
          /\ spec[b] = req[h].spec /\ routes[b] = req[h].uris
      BY <1>3, <2>2, <2>4 DEF Halfway
    <3>3. acked'[b].spec = req[h].spec /\ acked'[b].uris = req[h].uris
      BY <3>1 DEF Asked
    <3>4. Deployed(b, acked[b])'
      BY <2>1, <2>2, <3>2, <3>3 DEF Deployed
    <3>5. QED  BY <1>8, <2>4, <3>1, <3>4 DEF Intact, Stopped
  <2>5. QED  BY <2>3, <2>4
<1>25. QED
  BY <1>9, <1>10, <1>11, <1>12, <1>13, <1>14, <1>15, <1>16, <1>17, <1>18, <1>19,
     <1>20, <1>21, <1>22, <1>23, <1>24, StepKinds
     DEF ClusterQuiet, WorkloadWrite, ServiceWrite

-----------------------------------------------------------------------------
(***************************************************************************)
(* The invariant.                                                          *)
(***************************************************************************)
LEMMA InitInv == Init => IInv
<1> SUFFICES ASSUME Init PROVE IInv
  OBVIOUS
<1>1. TypeOK
  BY InitTypes
<1>2. IngressSane /\ RoutesKept /\ \A h \in Handlers : HandlerInv(h)
  BY DEF Init, KubeInit, IngressSane, RoutesKept, HandlerInv
<1>3. ASSUME NEW a \in Apps PROVE Untouched(a)
  BY DEF Init, KubeInit, Untouched, Busy, Intact, Gone, RulesOfApp
<1>4. QED  BY <1>1, <1>2, <1>3 DEF IInv

\* Services come and go together with their routes.
LEMMA StepRoutesKept ==
    ASSUME IInv, NEW h \in Handlers, TakesStep(h)
    PROVE  RoutesKept'
<1>1. TypeOK /\ RoutesKept /\ App(h) \in Apps
  BY StepKinds, BusyRequest DEF IInv
<1>2. routes \in [Apps -> SUBSET Uris]
  BY <1>1 DEF TypeOK, DataTypes
<1>3. CASE ClusterQuiet(h)
  BY <1>1, <1>3, QuietCluster DEF clusterVars, RoutesKept
<1>4. CASE WorkloadWrite(h)
  BY <1>1, <1>4, WorkloadLocal, ObjectNames DEF RoutesKept
<1>5. CASE IngressWrite(h)
  BY <1>1, <1>5, IngressLocal, ObjectNames DEF RoutesKept
<1>6. CASE ServiceWrite(h)
  <2>1. Svc(App(h)) \notin live' => routes'[App(h)] = {}
    BY <1>1, <1>2, <1>6
       DEF ServiceWrite, CreateSvc, PutSvc, DeleteSvc, Create, Put, Delete
  <2>2. ASSUME NEW a \in Apps \ {App(h)}
        PROVE  routes'[a] = routes[a] /\ (Svc(a) \in live' <=> Svc(a) \in live)
    BY <1>1, <1>6, <2>2, ServiceLocal, ObjectNames
  <2>3. QED  BY <1>1, <2>1, <2>2 DEF RoutesKept
<1>7. QED  BY <1>3, <1>4, <1>5, <1>6, StepKinds

\* A step of a handler preserves the inductive invariant.
LEMMA HandlerStepInv ==
    ASSUME IInv, NEW h \in Handlers, TakesStep(h)
    PROVE  IInv'
<1>1. TypeOK /\ TypeOK'
  BY HandlerTypes DEF IInv, TakesStep
<1>2. /\ IngressMonotone /\ \A a \in Apps : ServiceMonotone(a)
      /\ \A a \in Apps \ {App(h)} : SameApp(a)
      /\ IngressSane'
  BY StepLocal
<1>3. /\ \A i \in Handlers \ {h} : SameHandler(i)
      /\ pc'[h] = "idle" \/ req'[h] = req[h]
      /\ tainted \subseteq tainted'
  BY <1>1, OneHandlerMoves
<1>4. pc[h] # "idle" /\ App(h) \in Apps
  BY <1>1, StepKinds, BusyRequest
<1>5. ASSUME NEW i \in Handlers PROVE HandlerInv(i)'
  <2>1. CASE i = h
    BY <1>1, <2>1, OwnHandlerInv
  <2>2. CASE i # h
    BY <1>1, <1>2, <1>3, <2>2, SameHandlerInv DEF IInv
  <2>3. QED  BY <2>1, <2>2
<1>6. ASSUME NEW a \in Apps, a \notin tainted' PROVE Untouched(a)'
  <2>1. CASE a = App(h)
    BY <1>1, <1>6, <2>1, OwnAppUntouched
  <2>2. CASE a # App(h)
    <3>1. Untouched(a) /\ SameApp(a)
      BY <1>2, <1>3, <1>6, <2>2 DEF IInv
    <3>2. Busy(a)' = Busy(a) /\ h \notin Busy(a)
      BY <1>3, <1>4, <2>2 DEF Busy, App, SameHandler
    <3>3. QED  BY <1>3, <3>1, <3>2, SameAppUntouched DEF Busy
  <2>3. QED  BY <2>1, <2>2
<1>7. QED  BY <1>1, <1>2, <1>5, <1>6, StepRoutesKept DEF IInv

\* An arriving request preserves it: a race or a fresh start is accounted for.
LEMMA BeginInv ==
    ASSUME IInv, NEW h \in Handlers, NEW r \in Requests, NEW first,
           \/ r.op = "desire" /\ first = "exists"
           \/ r.op = "update" /\ first = "getLRP"
           \/ r.op = "stop" /\ first = "deleteSts",
           IF r.op = "stop" THEN r.spec = NoSpec /\ r.uris = {} ELSE r.spec \in Specs,
           Begin(h, r, first)
    PROVE  IInv'
<1>1. TypeOK /\ TypeOK'
  BY BeginTypes DEF IInv, Labels
<1>2. /\ UNCHANGED <<live, rev, spec, routes, rules>>
      /\ pc[h] = "idle" /\ pc'[h] = first /\ req'[h] = r
      /\ \A i \in Handlers \ {h} : SameHandler(i)
      /\ first # "idle"
  BY <1>1 DEF Begin, Step, Goto, SameHandler, TypeOK, MemoryTypes
<1>3. /\ IngressMonotone /\ \A a \in Apps : ServiceMonotone(a)
  BY <1>1, <1>2, SameClusterMonotone
<1>4. ASSUME NEW i \in Handlers PROVE HandlerInv(i)'
  <2>1. CASE i = h
    BY <1>2, <2>1 DEF HandlerInv, RequestShape, IngressRead, ServiceRead, Script
  <2>2. CASE i # h
    BY <1>1, <1>2, <1>3, <2>2, SameHandlerInv DEF IInv
  <2>3. QED  BY <2>1, <2>2
<1>5. r.app \in Apps
  BY DEF Requests
<1>6. ASSUME NEW a \in Apps, a \notin tainted' PROVE Untouched(a)'
  <2>1. CASE a = r.app
    <3>1. Busy(a) = {}
      BY <1>6, <2>1 DEF Begin
    <3>2. Intact(a)'
      <4>1. CASE Gone(a)
        <5>1. acked'[a] = Stopped
          BY <1>1, <2>1, <3>1, <4>1 DEF Begin, TypeOK, MemoryTypes
        <5>2. Gone(a)'
          BY <1>2, <4>1 DEF Gone, RulesOfApp
        <5>3. QED  BY <5>1, <5>2 DEF Intact, Stopped
      <4>2. CASE ~Gone(a)
        <5>1. a \notin tainted /\ UNCHANGED acked
          BY <1>6, <2>1, <3>1, <4>2 DEF Begin
        <5>2. Intact(a)
          BY <3>1, <5>1 DEF IInv, Untouched
        <5>3. QED
          BY <1>2, <5>1, <5>2 DEF Intact, Gone, Deployed, RulesOfApp
      <4>3. QED  BY <4>1, <4>2
    <3>3. Busy(a)' = {h}
      BY <1>2, <2>1, <3>1 DEF Busy, App, SameHandler
    <3>4. Halfway(h, a)'
      BY <1>2, <3>2 DEF Halfway
    <3>5. QED  BY <3>3, <3>4 DEF Untouched
  <2>2. CASE a # r.app
    <3>1. a \notin tainted /\ acked'[a] = acked[a]
      BY <1>1, <1>5, <1>6, <2>2 DEF Begin, TypeOK, MemoryTypes
    <3>2. Untouched(a) /\ SameApp(a)
      BY <1>2, <3>1 DEF IInv, SameApp, RulesOfApp
    <3>3. Busy(a)' = Busy(a) /\ h \notin Busy(a)
      BY <1>2, <2>2 DEF Busy, App, SameHandler
    <3>4. QED  BY <1>2, <3>2, <3>3, SameAppUntouched DEF Busy
  <2>3. QED  BY <2>1, <2>2
<1>7. QED  BY <1>1, <1>2, <1>4, <1>6 DEF IInv, IngressSane, RoutesKept

\* So does every kind of request.
LEMMA ArriveInv ==
    ASSUME IInv, NEW h \in Handlers, Arrive(h)
    PROVE  IInv'
<1>1. CASE Desire(h)
  <2>1. PICK a \in Apps, s \in Specs, u \in SUBSET Uris :
            Begin(h, [spec |-> s, op |-> "desire", app |-> a, uris |-> u], "exists")
    BY <1>1 DEF Desire
  <2> DEFINE r == [spec |-> s, op |-> "desire", app |-> a, uris |-> u]
  <2>2. r \in Requests /\ r.op = "desire" /\ r.spec \in Specs
    BY DEF Requests
  <2>3. QED  BY <2>1, <2>2, BeginInv
<1>2. CASE Update(h)
  <2>1. PICK a \in Apps, s \in Specs, u \in SUBSET Uris :
            Begin(h, [spec |-> s, op |-> "update", app |-> a, uris |-> u], "getLRP")
    BY <1>2 DEF Update
  <2> DEFINE r == [spec |-> s, op |-> "update", app |-> a, uris |-> u]
  <2>2. r \in Requests /\ r.op = "update" /\ r.spec \in Specs
    BY DEF Requests
  <2>3. QED  BY <2>1, <2>2, BeginInv
<1>3. CASE Stop(h)
  <2>1. PICK a \in Apps :
            Begin(h, [spec |-> NoSpec, op |-> "stop", app |-> a, uris |-> {}],
                  "deleteSts")
    BY <1>3 DEF Stop
  <2> DEFINE r == [spec |-> NoSpec, op |-> "stop", app |-> a, uris |-> {}]
  <2>2. r \in Requests /\ r.op = "stop" /\ r.spec = NoSpec /\ r.uris = {}
    BY DEF Requests
  <2>3. QED  BY <2>1, <2>2, BeginInv
<1>4. QED  BY <1>1, <1>2, <1>3 DEF Arrive

\* A crash taints the apps it catches halfway and leaves the others alone.
LEMMA CrashInv ==
    ASSUME IInv, Crash
    PROVE  IInv'
<1>1. TypeOK'
  BY CrashTypes DEF IInv
<1>2. /\ UNCHANGED <<live, rev, spec, routes, rules, acked>>
      /\ \A h \in Handlers : pc'[h] = "idle"
      /\ tainted' = tainted \cup {a \in Apps : Busy(a) # {}}
  BY DEF Crash, clusterVars
<1>3. IngressSane' /\ RoutesKept' /\ \A h \in Handlers : HandlerInv(h)'
  BY <1>2 DEF IInv, IngressSane, RoutesKept, HandlerInv
<1>4. ASSUME NEW a \in Apps, a \notin tainted' PROVE Untouched(a)'
  <2>1. Intact(a)
    BY <1>2, <1>4 DEF IInv, Untouched
  <2>2. Intact(a)' /\ Busy(a)' = {}
    BY <1>2, <2>1 DEF Intact, Gone, Deployed, RulesOfApp, Busy
  <2>3. QED  BY <2>2 DEF Untouched
<1>5. QED  BY <1>1, <1>3, <1>4 DEF IInv

\* So does a step that changes nothing.
LEMMA StutterInv ==
    ASSUME IInv, UNCHANGED vars
    PROVE  IInv'
<1>1. TypeOK'
  BY NextTypes DEF IInv
<1>2. /\ IngressMonotone /\ \A a \in Apps : ServiceMonotone(a)
      /\ \A h \in Handlers : SameHandler(h)
  BY SameClusterMonotone DEF IInv, vars, SameHandler
<1>3. IngressSane' /\ RoutesKept' /\ \A h \in Handlers : HandlerInv(h)'
  BY <1>1, <1>2, SameHandlerInv DEF IInv, vars, IngressSane, RoutesKept
<1>4. ASSUME NEW a \in Apps, a \notin tainted' PROVE Untouched(a)'
  <2>1. Untouched(a) /\ SameApp(a) /\ Busy(a)' = Busy(a)
    BY <1>4 DEF IInv, vars, SameApp, RulesOfApp, Busy, App
  <2>2. \A i \in Busy(a) : SameHandler(i)
    BY DEF vars, SameHandler
  <2>3. QED  BY <2>1, <2>2, SameAppUntouched
<1>5. QED  BY <1>1, <1>3, <1>4 DEF IInv

\* Every step preserves the inductive invariant.
LEMMA NextInv == IInv /\ [Next]_vars => IInv'
<1> SUFFICES ASSUME IInv, [Next]_vars PROVE IInv'
  OBVIOUS
<1>1. ASSUME NEW h \in Handlers, Arrive(h) PROVE IInv'
  BY <1>1, ArriveInv
<1>2. ASSUME NEW h \in Handlers, HandlerStep(h) \/ Send(h) \/ CallFails(h)
      PROVE  IInv'
  BY <1>2, HandlerStepInv DEF TakesStep
<1>3. CASE Crash
  BY <1>3, CrashInv
<1>4. CASE Quiet \/ UNCHANGED vars
  BY <1>4, StutterInv DEF Quiet
<1>5. QED  BY <1>1, <1>2, <1>3, <1>4 DEF Next

(***************************************************************************)
(* Requests stay in their script, resource versions vouch for reads, and   *)
(* apps without failed or racing requests are where their request is.      *)
(***************************************************************************)
THEOREM Invariance == Spec => []IInv
<1>1. Init => IInv
  BY InitInv
<1>2. IInv /\ [Next]_vars => IInv'
  BY NextInv
<1>3. QED  BY <1>1, <1>2, PTL DEF Spec

(***************************************************************************)
(* Isolation: an app whose requests succeed one after the other is in the  *)
(* cluster exactly as the last acknowledged one asked for, or not at all   *)
(* after a Stop, whatever requests, failures and crashes hit other apps.   *)
(***************************************************************************)
THEOREM Isolation == Spec => []AckedIsDeployed
<1>1. IInv => AckedIsDeployed
  BY DEF IInv, AckedIsDeployed, Settled, Untouched
<1>2. QED  BY <1>1, Invariance, PTL

\* The Ingress exists exactly while it has rules, in any order of API calls.
THEOREM IngressSanity == Spec => []IngressSane
<1>1. IInv => IngressSane
  BY DEF IInv
<1>2. QED  BY <1>1, Invariance, PTL

-----------------------------------------------------------------------------
(***************************************************************************)
(* The shared Ingress implements the table of rules.                       *)
(***************************************************************************)
\* A step that leaves the Ingress alone is a stutter of the table.
LEMMA SameRulesTable ==
    ASSUME UNCHANGED rules
    PROVE  UNCHANGED [a \in Apps |-> RulesOfApp(a)]
  BY DEF RulesOfApp

\* A write of the Ingress is a step of the table.
LEMMA IngressWriteTable ==
    ASSUME IInv, NEW h \in Handlers, IngressWrite(h), pc[h] # "idle"
    PROVE  Table!Next
<1>1. /\ TypeOK /\ IngressSane /\ HandlerInv(h) /\ App(h) \in Apps
  BY BusyRequest DEF IInv
<1>2. PICK b \in Apps : b = App(h)
  BY <1>1
<1>3. CASE rules' = {}
  <2>1. [a \in Apps |-> RulesOfApp(a)]' = [a \in Apps |-> {}]
    BY <1>3 DEF RulesOfApp
  <2>2. QED  BY <2>1 DEF Table!Next, Table!Wipe
<1>4. CASE /\ RulesOfApp(b)' = createIngressRules(b, req[h].uris)
           /\ req[h].uris \subseteq ValidUris
           /\ \A a \in Apps \ {b} : RulesOfApp(a)' = RulesOfApp(a)
  <2>1. [a \in Apps |-> RulesOfApp(a)]'
          = [[a \in Apps |-> RulesOfApp(a)] EXCEPT
                ![b] = createIngressRules(b, req[h].uris)]
    BY <1>4
  <2>2. createIngressRules(b, req[h].uris)
          \in [a \in Apps |->
                 {createIngressRules(a, uris) : uris \in SUBSET ValidUris}][b]
    BY <1>4
  <2>3. Table!SetRules(b)
    BY <2>1, <2>2 DEF Table!SetRules
  <2>4. QED  BY <2>3 DEF Table!Next
<1>5. QED  BY <1>1, <1>2, <1>3, <1>4, IngressWriteRules

(***************************************************************************)
(* Concurrent read-modify-write cycles on the one Ingress act like atomic  *)
(* replacements of one app's rules (or a drop of all): no write loses or   *)
(* revives a rule of another app, for any number of apps and handlers.     *)
(***************************************************************************)
THEOREM IngressRefinesRuleTable == Spec => ImplementsRuleTable
<1>1. Init => Table!Init
  BY DEF Init, Table!Init, RulesOfApp
<1>2. IInv /\ [Next]_vars => [Table!Next]_([a \in Apps |-> RulesOfApp(a)])
  <2> SUFFICES ASSUME IInv, [Next]_vars
               PROVE  Table!Next \/ UNCHANGED [a \in Apps |-> RulesOfApp(a)]
    OBVIOUS
  <2>1. CASE UNCHANGED rules
    BY <2>1, SameRulesTable
  <2>2. ASSUME NEW h \in Handlers, TakesStep(h)
        PROVE  UNCHANGED rules \/ (IngressWrite(h) /\ pc[h] # "idle")
    <3>1. pc[h] # "idle" /\ (ClusterQuiet(h) \/ WorkloadWrite(h) \/ ServiceWrite(h)
                               \/ IngressWrite(h))
      BY <2>2, StepKinds
    <3>2. TypeOK /\ App(h) \in Apps
      BY <3>1, BusyRequest DEF IInv
    <3>3. QED
      BY <3>1, <3>2, QuietCluster, WorkloadLocal, ServiceLocal DEF clusterVars
  <2>3. ASSUME NEW h \in Handlers, Arrive(h) PROVE UNCHANGED rules
    BY <2>3 DEF Arrive, Desire, Update, Stop, Begin
  <2>4. CASE Crash \/ Quiet \/ UNCHANGED vars
    BY <2>1, <2>4 DEF Crash, Quiet, vars, clusterVars
  <2>5. QED
    BY <2>1, <2>2, <2>3, <2>4, IngressWriteTable DEF Next, TakesStep
<1>3. QED
  BY <1>1, <1>2, Invariance, PTL DEF Spec, ImplementsRuleTable, Table!Spec

-----------------------------------------------------------------------------
(***************************************************************************)
(* Dropped routes are announced.                                           *)
(***************************************************************************)
\* What one step does to the routes of the Services.
LEMMA StepAnnounces ==
    ASSUME IInv, NEW h \in Handlers, TakesStep(h), NEW a \in Apps,
           ~(routes[a] \subseteq routes'[a])
    PROVE  /\ h \in Busy(a) /\ pc'[h] # pc[h]
           /\ \/ routes[a] \ routes'[a] = RoutesMessage(h).unregistered
              \/ pc[h] = "deleteSvc" /\ a \in tainted
<1>1. /\ TypeOK /\ HandlerInv(h) /\ pc[h] # "idle" /\ App(h) \in Apps
      /\ req[h].op \in {"desire", "update", "stop"}
  BY StepKinds, BusyRequest DEF IInv
<1>2. ServiceWrite(h)
  BY <1>1, StepKinds, QuietCluster, WorkloadLocal, IngressLocal DEF clusterVars
<1>3. a = App(h)
  BY <1>1, <1>2, ServiceLocal
<1>4. h \in Busy(a)
  BY <1>1, <1>3 DEF Busy
<1>5. RequestShape(h) /\ ServiceRead(h)
  BY <1>1 DEF HandlerInv
<1>6. /\ routes \in [Apps -> SUBSET Uris] /\ pc \in [Handlers -> Labels]
  BY <1>1 DEF TypeOK, DataTypes, MemoryTypes
<1>7. req[h].op # "desire" =>
         RoutesMessage(h).unregistered = old[h] \ req[h].uris
  BY DEF RoutesMessage, getUnregisteredRoutes
<1>8. CASE CreateSvc(h)
  <2>1. routes[a] = {}
    BY <1>3, <1>8 DEF IInv, RoutesKept, CreateSvc, Create
  <2>2. QED  BY <2>1
<1>9. CASE PutSvc(h)
  <2>1. /\ pc[h] = "putSvc" /\ pc'[h] = "send" /\ routes'[a] = req[h].uris
        /\ Svc(a) \in live /\ rev[Svc(a)] = seen[h]
    BY <1>3, <1>6, <1>9 DEF PutSvc, Step, Goto, Put
  <2>2. old[h] = routes[a]
    BY <1>3, <1>5, <2>1 DEF ServiceRead
  <2>3. req[h].op = "update"
    BY <1>1, <1>5, <2>1 DEF RequestShape, Script
  <2>4. QED  BY <1>4, <1>7, <2>1, <2>2, <2>3
<1>10. CASE DeleteSvc(h)
  <2>1. pc[h] = "deleteSvc" /\ pc'[h] = "idle" /\ routes'[a] = {}
    BY <1>3, <1>6, <1>10 DEF DeleteSvc, Finish, Ack, Fail, Return, Goto
  <2>2. req[h].op = "stop" /\ req[h].uris = {}
    BY <1>1, <1>5, <2>1 DEF RequestShape, Script
  <2>3. a \notin tainted => old[h] = routes[a]
    BY <1>4, <2>1, <2>2 DEF IInv, Untouched, Halfway
  <2>4. QED  BY <1>4, <1>7, <2>1, <2>2, <2>3
<1>11. QED  BY <1>2, <1>8, <1>9, <1>10 DEF ServiceWrite

(***************************************************************************)
(* A route that leaves the annotation of a Service is in the unregister    *)
(* message of the request that took it out, however updates race; only a   *)
(* Stop that overlaps another request of its app may miss one.             *)
(***************************************************************************)
THEOREM DropsAreAnnounced == Spec => DroppedRoutesAnnounced
<1> DEFINE Announces ==
        \A a \in Apps : ~(routes[a] \subseteq routes'[a]) =>
            \E h \in Busy(a) :
               /\ pc'[h] # pc[h]
               /\ \/ routes[a] \ routes'[a] = RoutesMessage(h).unregistered
                  \/ pc[h] = "deleteSvc" /\ a \in tainted
<1>1. IInv /\ [Next]_vars => [Announces]_vars
  <2> SUFFICES ASSUME IInv, Next, NEW a \in Apps, ~(routes[a] \subseteq routes'[a])
               PROVE  \E h \in Busy(a) :
                         /\ pc'[h] # pc[h]
                         /\ \/ routes[a] \ routes'[a] = RoutesMessage(h).unregistered
                            \/ pc[h] = "deleteSvc" /\ a \in tainted
    OBVIOUS
  <2>1. ASSUME NEW h \in Handlers, Arrive(h) PROVE UNCHANGED routes
    BY <2>1 DEF Arrive, Desire, Update, Stop, Begin
  <2>2. CASE Crash \/ Quiet
    BY <2>2 DEF Crash, Quiet, vars, clusterVars
  <2>3. CASE \E h \in Handlers : TakesStep(h)
    BY <2>3, StepAnnounces
  <2>4. QED  BY <2>1, <2>2, <2>3 DEF Next, TakesStep
<1>2. QED  BY <1>1, Invariance, PTL DEF Spec, DroppedRoutesAnnounced
=============================================================================
