------------------------------- MODULE Desirer -------------------------------
(***************************************************************************)
(* The path of an app request through Eirini: the HTTP handler             *)
(* (handler/app_handler.go), Bifrost (bifrost/bifrost.go), the Desirer     *)
(* (k8s/desire.go) and its three managers (k8s/statefulset.go,             *)
(* k8s/service.go, k8s/ingress.go).                                        *)
(*                                                                         *)
(* Every request runs on a goroutine of its own, a "handler" here.  A      *)
(* handler is a sequence of calls of the Kubernetes API and one send on    *)
(* the routes channel; nothing locks an app, so calls of different         *)
(* requests interleave.  One action is one such call together with the     *)
(* computation up to the next one; pc[h] names the call handler h makes    *)
(* next.  Every call that fails makes the code return the error at once.   *)
(*                                                                         *)
(* What a request carries besides the app's name and its URIs (instance    *)
(* count and last_updated annotation, which are written together) is one   *)
(* abstract value in Specs.  URI lists are sets.                           *)
(***************************************************************************)
EXTENDS Kube

CONSTANTS
    Handlers,           \* goroutines that serve app requests
    Uris,               \* route URIs as the Cloud Controller writes them
    ValidUris,          \* those that validateURL accepts
    RuleOf,             \* host and path of the ingress rule of a valid URI
    Specs,              \* instance count and last_updated of a request
    NoSpec,             \* the spec of an app that has no StatefulSet
    Faults,             \* TRUE: API calls may fail, the process may crash
    MaxRequests         \* bound on the number of requests

ASSUME DesirerAssumption ==
    /\ ValidUris \subseteq Uris
    /\ DOMAIN RuleOf = ValidUris
    /\ NoSpec \notin Specs
    /\ Faults \in BOOLEAN
    /\ MaxRequests \in Nat

VARIABLES
    spec,               \* replicas and annotation of the StatefulSet of an app
    routes,             \* "routes" annotation of the Service of an app
    rules,              \* rules of the Ingress
    pc,                 \* next call of each handler
    req,                \* the request a handler serves
    seen,               \* version of the object it read and means to write
    old,                \* routes it read from the Service
    plan,               \* rules it means to write to the Ingress
    begun,              \* number of requests so far
    acked,              \* history: what the last acknowledged request asked for
    tainted             \* history: apps with a failed or overlapping request

clusterVars == <<live, rev, spec, routes, rules>>
handlerVars == <<pc, req, seen, old, plan>>
historyVars == <<begun, acked, tainted>>
vars == <<live, rev, spec, routes, rules, pc, req, seen, old, plan,
          begun, acked, tainted>>

Labels == {"idle", "exists", "createSts", "createHeadless", "createSvc",
           "send", "listIngress", "getIngress", "putIngress",
           "createIngress", "dropIngress", "getLRP", "getSts", "putSts",
           "getSvc", "putSvc", "deleteSts", "deleteHeadless", "deleteSvc"}

Requests == [spec : Specs \cup {NoSpec}, op : {"desire", "update", "stop"},
             app : Apps, uris : SUBSET Uris]
NoReq    == [op |-> "none"]

Rules == [service : Apps, rule : {RuleOf[u] : u \in ValidUris}]

LRPs    == [spec : Specs \cup {NoSpec}, uris : SUBSET Uris]
Stopped == [spec |-> NoSpec, uris |-> {}]

App(h) == req[h].app

\* The requests in progress for an app.
Busy(a) == {h \in Handlers : pc[h] # "idle" /\ App(h) = a}

\* The rules the Ingress has for an app.
RulesOfApp(a) == {r \in rules : r.service = a}

\* Nothing of the app is in the cluster.
Gone(a) == /\ {Sts(a), Headless(a), Svc(a)} \cap live = {}
           /\ RulesOfApp(a) = {}
-----------------------------------------------------------------------------
(***************************************************************************)
(* Ingress rules (createIngressRules, removeDifference).                   *)
(***************************************************************************)
createIngressRules(a, uris) ==
    {[service |-> a, rule |-> RuleOf[u]] : u \in uris}

\* Mutant: the condition is inverted, and nothing that is missing is added.
appendNewRulesInverted(existing, updated) == existing

appendNewRules(existing, updated) == existing \cup updated

\* Mutant: nothing is obsolete.
removeObsoleteRulesNever(existing, updated, a) == existing

removeObsoleteRules(existing, updated, a) ==
    {r \in existing : r \in updated \/ r.service # a}

removeDifference(existing, updated, a) ==
    removeObsoleteRules(appendNewRules(existing, updated), updated, a)

\* Mutant: the comparison of the Service name is inverted.
rulesWithoutOthers(existing, a) == {r \in existing : r.service = a}

\* The rules left by KubeIngressManager.Delete.
rulesWithout(existing, a) == {r \in existing : r.service # a}

\* Mutant: the arguments are swapped.
getUnregisteredRoutesSwapped(existing, updated) == updated \ existing

\* The routes a Service update drops (getUnregisteredRoutes).
getUnregisteredRoutes(existing, updated) == existing \ updated

\* What the handler puts on the routes channel.
RoutesMessage(h) ==
    [routes       |-> req[h].uris,
     app          |-> App(h),
     unregistered |-> IF req[h].op = "desire" THEN {}
                      ELSE getUnregisteredRoutes(old[h], req[h].uris)]
-----------------------------------------------------------------------------
Init ==
    /\ KubeInit
    /\ spec = [a \in Apps |-> NoSpec]
    /\ routes = [a \in Apps |-> {}]
    /\ rules = {}
    /\ pc = [h \in Handlers |-> "idle"]
    /\ req = [h \in Handlers |-> NoReq]
    /\ seen = [h \in Handlers |-> 0]
    /\ old = [h \in Handlers |-> {}]
    /\ plan = [h \in Handlers |-> {}]
    /\ begun = 0
    /\ acked = [a \in Apps |-> Stopped]
    /\ tainted = {}

(***************************************************************************)
(* Control of a handler.                                                   *)
(***************************************************************************)
Goto(h, l) == pc' = [pc EXCEPT ![h] = l]

Step(h, from, to) == pc[h] = from /\ Goto(h, to)

\* The handler writes its response and ends.
Return(h) ==
    /\ Goto(h, "idle")
    /\ req' = [req EXCEPT ![h] = NoReq]
    /\ seen' = [seen EXCEPT ![h] = 0]
    /\ old' = [old EXCEPT ![h] = {}]
    /\ plan' = [plan EXCEPT ![h] = {}]
    /\ UNCHANGED begun

\* ... with a success, after which the app is to be as lrp says.
Ack(h, lrp) ==
    /\ Return(h)
    /\ acked' = [acked EXCEPT ![App(h)] = lrp]
    /\ UNCHANGED tainted

\* ... with an error.
Fail(h) ==
    /\ Return(h)
    /\ tainted' = tainted \cup {App(h)}
    /\ UNCHANGED acked

\* ... after its last call, whose answer may be lost.
Finish(h, lrp) == Ack(h, lrp) \/ (Faults /\ Fail(h))

Asked(h) == [spec |-> req[h].spec, uris |-> req[h].uris]

(***************************************************************************)
(* A request arrives.  A request that overlaps another one for its app     *)
(* taints the app; one that finds nothing of the app starts it afresh.     *)
(***************************************************************************)
Begin(h, r, first) ==
    /\ begun < MaxRequests
    /\ begun' = begun + 1
    /\ Step(h, "idle", first)
    /\ req' = [req EXCEPT ![h] = r]
    /\ \/ /\ Busy(r.app) # {}
          /\ tainted' = tainted \cup {r.app}
          /\ UNCHANGED acked
       \/ /\ Busy(r.app) = {}
          /\ Gone(r.app)
          /\ tainted' = tainted \ {r.app}
          /\ acked' = [acked EXCEPT ![r.app] = Stopped]
       \/ /\ Busy(r.app) = {}
          /\ ~Gone(r.app)
          /\ UNCHANGED <<acked, tainted>>
    /\ UNCHANGED <<live, rev, spec, routes, rules, seen, old, plan>>

Desire(h) ==
    \E a \in Apps, s \in Specs, u \in SUBSET Uris :
        Begin(h, [spec |-> s, op |-> "desire", app |-> a, uris |-> u], "exists")

Update(h) ==
    \E a \in Apps, s \in Specs, u \in SUBSET Uris :
        Begin(h, [spec |-> s, op |-> "update", app |-> a, uris |-> u], "getLRP")

Stop(h) ==
    \E a \in Apps :
        Begin(h, [spec |-> NoSpec, op |-> "stop", app |-> a, uris |-> {}],
              "deleteSts")
-----------------------------------------------------------------------------
(***************************************************************************)
(* StatefulSetManager.                                                     *)
(***************************************************************************)
\* Desire of an app that has a StatefulSet succeeds and changes nothing.
Exists(h) ==
    /\ pc[h] = "exists"
    /\ \/ /\ Sts(App(h)) \in live
          /\ Ack(h, acked[App(h)])
       \/ /\ Sts(App(h)) \notin live
          /\ Goto(h, "createSts")
          /\ UNCHANGED <<req, seen, old, plan, begun, acked, tainted>>
    /\ UNCHANGED clusterVars

CreateSts(h) ==
    /\ Step(h, "createSts", "createHeadless")
    /\ Create(Sts(App(h)))
    /\ spec' = [spec EXCEPT ![App(h)] = req[h].spec]
    /\ UNCHANGED <<routes, rules, req, seen, old, plan, historyVars>>

CreateHeadless(h) ==
    /\ Step(h, "createHeadless", "createSvc")
    /\ Create(Headless(App(h)))
    /\ UNCHANGED <<spec, routes, rules, req, seen, old, plan, historyVars>>

\* Bifrost.Update looks the LRP up before it changes it.
GetLRP(h) ==
    /\ Step(h, "getLRP", "getSts")
    /\ Found(Sts(App(h)))
    /\ UNCHANGED <<spec, routes, rules, req, seen, old, plan, historyVars>>

GetSts(h) ==
    /\ Step(h, "getSts", "putSts")
    /\ Found(Sts(App(h)))
    /\ seen' = [seen EXCEPT ![h] = rev[Sts(App(h))]]
    /\ UNCHANGED <<spec, routes, rules, req, old, plan, historyVars>>

PutSts(h) ==
    /\ Step(h, "putSts", "getSvc")
    /\ Put(Sts(App(h)), seen[h])
    /\ spec' = [spec EXCEPT ![App(h)] = req[h].spec]
    /\ UNCHANGED <<routes, rules, req, seen, old, plan, historyVars>>

DeleteSts(h) ==
    /\ Step(h, "deleteSts", "deleteHeadless")
    /\ Delete(Sts(App(h)))
    /\ spec' = [spec EXCEPT ![App(h)] = NoSpec]
    /\ UNCHANGED <<routes, rules, req, seen, old, plan, historyVars>>

DeleteHeadless(h) ==
    /\ Step(h, "deleteHeadless", "getIngress")
    /\ Delete(Headless(App(h)))
    /\ UNCHANGED <<spec, routes, rules, req, seen, old, plan, historyVars>>
-----------------------------------------------------------------------------
(***************************************************************************)
(* serviceManager.                                                         *)
(***************************************************************************)
CreateSvc(h) ==
    /\ Step(h, "createSvc", "send")
    /\ Create(Svc(App(h)))
    /\ routes' = [routes EXCEPT ![App(h)] = req[h].uris]
    /\ UNCHANGED <<spec, rules, req, seen, old, plan, historyVars>>

\* Update reads the Service to write it, Delete to announce its routes.
GetSvc(h) ==
    /\ Step(h, "getSvc", IF req[h].op = "stop" THEN "send" ELSE "putSvc")
    /\ Found(Svc(App(h)))
    /\ seen' = [seen EXCEPT ![h] = rev[Svc(App(h))]]
    /\ old' = [old EXCEPT ![h] = routes[App(h)]]
    /\ UNCHANGED <<spec, routes, rules, req, plan, historyVars>>

\* Mutant: the Service is written whatever its version is by now.
PutSvcForced(h) ==
    /\ Step(h, "putSvc", "send")
    /\ Put(Svc(App(h)), rev[Svc(App(h))])
    /\ routes' = [routes EXCEPT ![App(h)] = req[h].uris]
    /\ UNCHANGED <<spec, rules, req, seen, old, plan, historyVars>>

PutSvc(h) ==
    /\ Step(h, "putSvc", "send")
    /\ Put(Svc(App(h)), seen[h])
    /\ routes' = [routes EXCEPT ![App(h)] = req[h].uris]
    /\ UNCHANGED <<spec, rules, req, seen, old, plan, historyVars>>

\* The emitter takes the message; the handler is blocked until it does.
Send(h) ==
    /\ Step(h, "send", IF req[h].op = "stop" THEN "deleteSvc" ELSE "listIngress")
    /\ UNCHANGED <<clusterVars, req, seen, old, plan, historyVars>>

DeleteSvc(h) ==
    /\ pc[h] = "deleteSvc"
    /\ Delete(Svc(App(h)))
    /\ routes' = [routes EXCEPT ![App(h)] = {}]
    /\ Finish(h, Stopped)
    /\ UNCHANGED <<spec, rules>>
-----------------------------------------------------------------------------
(***************************************************************************)
(* KubeIngressManager.                                                     *)
(***************************************************************************)
\* Update: look for the Ingress and decide what to write.
ListIngress(h) ==
    /\ pc[h] = "listIngress"
    /\ \/ /\ Ingress \in live
          /\ req[h].uris = {}
          /\ Goto(h, "getIngress")
          /\ UNCHANGED <<req, seen, old, plan, begun, acked, tainted>>
       \/ /\ Ingress \notin live
          /\ req[h].uris = {}
          /\ Ack(h, Asked(h))
       \/ /\ req[h].uris # {}
          /\ ~(req[h].uris \subseteq ValidUris)
          /\ Fail(h)
       \/ /\ req[h].uris # {}
          /\ req[h].uris \subseteq ValidUris
          /\ Goto(h, IF Ingress \in live THEN "putIngress" ELSE "createIngress")
          /\ seen' = [seen EXCEPT ![h] = rev[Ingress]]
          /\ plan' = [plan EXCEPT ![h] =
                removeDifference(IF Ingress \in live THEN rules ELSE {},
                                 createIngressRules(App(h), req[h].uris),
                                 App(h))]
          /\ UNCHANGED <<req, old, begun, acked, tainted>>
    /\ UNCHANGED clusterVars

\* Mutant: an Ingress without rules is written back too.
GetIngressNoDrop(h) ==
    /\ Step(h, "getIngress", "putIngress")
    /\ Found(Ingress)
    /\ seen' = [seen EXCEPT ![h] = rev[Ingress]]
    /\ plan' = [plan EXCEPT ![h] = rulesWithout(rules, App(h))]
    /\ UNCHANGED <<spec, routes, rules, req, old, historyVars>>

\* Delete: read the Ingress; without the app it is written back or dropped.
GetIngress(h) ==
    LET rest == rulesWithout(rules, App(h)) IN
    /\ Step(h, "getIngress", IF rest = {} THEN "dropIngress" ELSE "putIngress")
    /\ Found(Ingress)
    /\ seen' = [seen EXCEPT ![h] = rev[Ingress]]
    /\ plan' = [plan EXCEPT ![h] = rest]
    /\ UNCHANGED <<spec, routes, rules, req, old, historyVars>>

\* With the Ingress done Desire and Update are over, Stop has the Service left.
IngressDone(h) ==
    \/ /\ req[h].op = "stop"
       /\ Goto(h, "getSvc")
       /\ UNCHANGED <<req, seen, old, plan, begun, acked, tainted>>
    \/ /\ req[h].op # "stop"
       /\ Finish(h, Asked(h))

PutIngress(h) ==
    /\ pc[h] = "putIngress"
    /\ Put(Ingress, seen[h])
    /\ rules' = plan[h]
    /\ IngressDone(h)
    /\ UNCHANGED <<spec, routes>>

\* Mutant: an Ingress that has been created meanwhile is written over.
CreateIngressOver(h) ==
    /\ pc[h] = "createIngress"
    /\ Create(Ingress) \/ Put(Ingress, rev[Ingress])
    /\ rules' = plan[h]
    /\ IngressDone(h)
    /\ UNCHANGED <<spec, routes>>

CreateIngress(h) ==
    /\ pc[h] = "createIngress"
    /\ Create(Ingress)
    /\ rules' = plan[h]
    /\ IngressDone(h)
    /\ UNCHANGED <<spec, routes>>

DropIngress(h) ==
    /\ pc[h] = "dropIngress"
    /\ Delete(Ingress)
    /\ rules' = {}
    /\ IngressDone(h)
    /\ UNCHANGED <<spec, routes>>
-----------------------------------------------------------------------------
(***************************************************************************)
(* Errors.                                                                 *)
(***************************************************************************)
\* The object the next call of a handler names.
Target(h) ==
    CASE pc[h] \in {"createSts", "getLRP", "getSts", "putSts", "deleteSts"}
                                                      -> Sts(App(h))
      [] pc[h] \in {"createHeadless", "deleteHeadless"} -> Headless(App(h))
      [] pc[h] \in {"createSvc", "getSvc", "putSvc", "deleteSvc"}
                                                      -> Svc(App(h))
      [] OTHER                                        -> Ingress

\* The API server turns the call down: AlreadyExists, NotFound or Conflict.
CallRefused(h) ==
    \/ /\ pc[h] \in {"createSts", "createHeadless", "createSvc", "createIngress"}
       /\ Target(h) \in live
    \/ /\ pc[h] \in {"getLRP", "getSts", "getSvc", "getIngress", "deleteSts",
                     "deleteHeadless", "deleteSvc", "dropIngress"}
       /\ Target(h) \notin live
    \/ /\ pc[h] \in {"putSts", "putSvc", "putIngress"}
       /\ ~(Target(h) \in live /\ rev[Target(h)] = seen[h])

Refused(h) == CallRefused(h) /\ Fail(h) /\ UNCHANGED clusterVars

(***************************************************************************)
(* A call fails for a reason of its own.  Taken at the pc of a call, the   *)
(* call had no effect; taken at the next pc, it had its effect and only    *)
(* the answer was lost (for the last call of a request see Finish).  A     *)
(* send cannot fail, but the call before it can.                           *)
(***************************************************************************)
CallFails(h) ==
    /\ Faults
    /\ pc[h] # "idle"
    /\ Fail(h)
    /\ UNCHANGED clusterVars

\* The opi process dies and is restarted: the cluster survives, handlers don't.
Crash ==
    /\ Faults
    /\ \E h \in Handlers : pc[h] # "idle"
    /\ pc' = [h \in Handlers |-> "idle"]
    /\ req' = [h \in Handlers |-> NoReq]
    /\ seen' = [h \in Handlers |-> 0]
    /\ old' = [h \in Handlers |-> {}]
    /\ plan' = [h \in Handlers |-> {}]
    /\ tainted' = tainted \cup {a \in Apps : Busy(a) # {}}
    /\ UNCHANGED <<clusterVars, begun, acked>>

\* Every request has been answered and no further one comes.
Quiet ==
    /\ begun = MaxRequests
    /\ \A h \in Handlers : pc[h] = "idle"
    /\ UNCHANGED vars
-----------------------------------------------------------------------------
\* The steps of a handler other than the rendezvous on the routes channel.
HandlerStep(h) ==
    \/ Exists(h) \/ CreateSts(h) \/ CreateHeadless(h) \/ CreateSvc(h)
    \/ GetLRP(h) \/ GetSts(h) \/ PutSts(h) \/ GetSvc(h) \/ PutSvc(h)
    \/ DeleteSts(h) \/ DeleteHeadless(h) \/ DeleteSvc(h)
    \/ ListIngress(h) \/ GetIngress(h)
    \/ PutIngress(h) \/ CreateIngress(h) \/ DropIngress(h)
    \/ Refused(h)

Arrive(h) == Desire(h) \/ Update(h) \/ Stop(h)

Next ==
    \/ \E h \in Handlers :
          Arrive(h) \/ HandlerStep(h) \/ Send(h) \/ CallFails(h)
    \/ Crash
    \/ Quiet

Spec == Init /\ [][Next]_vars
-----------------------------------------------------------------------------
(***************************************************************************)
(* Properties.                                                             *)
(***************************************************************************)
\* What the objects hold has its type.
DataTypes ==
    /\ spec \in [Apps -> Specs \cup {NoSpec}]
    /\ routes \in [Apps -> SUBSET Uris]
    /\ rules \subseteq Rules

\* So has what the handlers remember and the model counts.
MemoryTypes ==
    /\ pc \in [Handlers -> Labels]
    /\ req \in [Handlers -> Requests \cup {NoReq}]
    /\ \A h \in Handlers : pc[h] # "idle" => req[h] \in Requests
    /\ seen \in [Handlers -> Nat]
    /\ old \in [Handlers -> SUBSET Uris]
    /\ plan \in [Handlers -> SUBSET Rules]
    /\ begun \in Nat
    /\ acked \in [Apps -> LRPs]
    /\ tainted \subseteq Apps

(***************************************************************************)
(* Every variable has its type, and a handler that is in the middle of its *)
(* calls has the request it serves (the goroutine of an HTTP request).     *)
(***************************************************************************)
TypeOK == KubeTypeOK /\ DataTypes /\ MemoryTypes

\* The cluster runs the app as lrp says.  Its rules may be gone: see RulesComplete.
Deployed(a, lrp) ==
    /\ {Sts(a), Headless(a), Svc(a)} \subseteq live
    /\ spec[a] = lrp.spec
    /\ routes[a] = lrp.uris
    /\ RulesOfApp(a) \subseteq createIngressRules(a, lrp.uris)

\* The app is as the last acknowledged request left it.
Intact(a) == IF acked[a] = Stopped THEN Gone(a) ELSE Deployed(a, acked[a])

\* No request for the app is in progress, and none failed or overlapped another.
Settled(a) == a \notin tainted /\ Busy(a) = {}

(***************************************************************************)
(* Isolation of apps.  As long as the requests for an app come one after   *)
(* the other and succeed, the app's objects are exactly what the last      *)
(* acknowledged request asked for, and nothing is left of it after a       *)
(* Stop, whatever the requests for other apps do in between and however    *)
(* these fail (k8s/desire.go, handler/app_handler.go).                     *)
(***************************************************************************)
AckedIsDeployed == \A a \in Apps : Settled(a) => Intact(a)

(***************************************************************************)
(* The Ingress exists exactly while it has a rule: Kubernetes accepts no   *)
(* Ingress without rules or a backend (createIngress, Delete in            *)
(* k8s/ingress.go), and no order of the managers' calls may leave one.     *)
(***************************************************************************)
IngressSane == Ingress \in live <=> rules # {}

(***************************************************************************)
(* A write of the shared Ingress replaces the rules of the writer's own    *)
(* app by those of one URI list and never loses or revives a rule of       *)
(* another app (updateSpec and Delete in k8s/ingress.go): the reads and    *)
(* writes of concurrent requests implement the atomic table.               *)
(***************************************************************************)
Table == INSTANCE RuleTable WITH
    RuleSets <- [a \in Apps |->
                   {createIngressRules(a, uris) : uris \in SUBSET ValidUris}],
    table    <- [a \in Apps |-> RulesOfApp(a)]

ImplementsRuleTable == Table!Spec

(***************************************************************************)
(* Every route that a write drops from a Service is in the unregister      *)
(* message of the request that drops it (Update and Delete in              *)
(* k8s/service.go), even when updates of the app race.  Only a Stop that   *)
(* overlaps an Update of its own app is exempt: it deletes whatever the    *)
(* Service has by then.                                                    *)
(***************************************************************************)
DroppedRoutesAnnounced ==
    [][\A a \in Apps : ~(routes[a] \subseteq routes'[a]) =>
          \E h \in Busy(a) :
             /\ pc'[h] # pc[h]
             /\ \/ routes[a] \ routes'[a] = RoutesMessage(h).unregistered
                \/ pc[h] = "deleteSvc" /\ a \in tainted]_vars

(***************************************************************************)
(* A Service never outlives its StatefulSet once the app is settled down:  *)
(* "should use the service manager to delete the service" of               *)
(* k8s/desire_test.go, for requests that come one after the other.         *)
(***************************************************************************)
NoOrphanService ==
    \A a \in Apps : Busy(a) = {} /\ Svc(a) \in live => Sts(a) \in live

(***************************************************************************)
(* An app whose requests all succeeded has all its rules: Delete is to     *)
(* "remove the rules for the service" and keep those of the other apps     *)
(* (k8s/ingress_test.go).                                                  *)
(***************************************************************************)
RulesComplete ==
    \A a \in Apps : Settled(a) =>
        createIngressRules(a, acked[a].uris) \subseteq rules
-----------------------------------------------------------------------------
(***************************************************************************)
(* The inductive invariant behind the theorems of DesirerProofs.           *)
(***************************************************************************)
\* The calls a request of each kind can make.
Script(op) ==
    CASE op = "desire" -> {"exists", "createSts", "createHeadless", "createSvc",
                           "send", "listIngress", "getIngress", "putIngress",
                           "createIngress", "dropIngress"}
      [] op = "update" -> {"getLRP", "getSts", "putSts", "getSvc", "putSvc",
                           "send", "listIngress", "getIngress", "putIngress",
                           "createIngress", "dropIngress"}
      [] op = "stop"   -> {"deleteSts", "deleteHeadless", "getIngress",
                           "putIngress", "dropIngress", "getSvc", "send",
                           "deleteSvc"}

\* A busy handler is in the script of its request.
RequestShape(h) ==
    /\ pc[h] \in Script(req[h].op)
    /\ IF req[h].op = "stop" THEN req[h].spec = NoSpec /\ req[h].uris = {}
                             ELSE req[h].spec \in Specs
    /\ pc[h] \in {"putIngress", "createIngress"} => req[h].uris \subseteq ValidUris
    /\ pc[h] \in {"getIngress", "dropIngress"} => req[h].uris = {}

\* A version that still matches vouches for what was read with it, and what
\* is about to be written has the rules of the handler's own app right.
IngressRead(h) ==
    /\ pc[h] = "putIngress" =>
          /\ seen[h] <= rev[Ingress]
          /\ Ingress \in live /\ seen[h] = rev[Ingress] =>
                rulesWithout(plan[h], App(h)) = rulesWithout(rules, App(h))
    /\ pc[h] = "createIngress" => rulesWithout(plan[h], App(h)) = {}
    /\ pc[h] \in {"putIngress", "createIngress"} =>
          /\ plan[h] # {}
          /\ plan[h] \ rulesWithout(plan[h], App(h))
                = createIngressRules(App(h), req[h].uris)

ServiceRead(h) ==
    pc[h] = "putSvc" =>
       /\ seen[h] <= rev[Svc(App(h))]
       /\ Svc(App(h)) \in live /\ seen[h] = rev[Svc(App(h))] =>
             old[h] = routes[App(h)]

ObjectsOf(a) == {Sts(a), Headless(a), Svc(a)} \cap live

\* What a handler that has the app for itself has done so far.
Halfway(h, a) ==
    /\ pc[h] \in {"exists", "getLRP", "getSts", "putSts", "deleteSts"} => Intact(a)
    /\ pc[h] = "createSts" => Gone(a)
    /\ pc[h] = "createHeadless" =>
          ObjectsOf(a) = {Sts(a)} /\ RulesOfApp(a) = {} /\ spec[a] = req[h].spec
    /\ pc[h] = "createSvc" =>
          /\ ObjectsOf(a) = {Sts(a), Headless(a)}
          /\ RulesOfApp(a) = {}
          /\ spec[a] = req[h].spec
    /\ req[h].op # "stop" =>
          /\ pc[h] \in {"getSvc", "putSvc", "send", "listIngress", "getIngress",
                        "putIngress", "createIngress", "dropIngress"} =>
                {Sts(a), Headless(a), Svc(a)} \subseteq live /\ spec[a] = req[h].spec
          /\ pc[h] \in {"send", "listIngress", "getIngress", "putIngress",
                        "createIngress", "dropIngress"} =>
                routes[a] = req[h].uris
    /\ pc[h] = "deleteHeadless" => ObjectsOf(a) = {Headless(a), Svc(a)}
    /\ req[h].op = "stop" =>
          /\ pc[h] \in {"getIngress", "putIngress", "dropIngress", "getSvc",
                        "send", "deleteSvc"} => ObjectsOf(a) = {Svc(a)}
          /\ pc[h] \in {"getSvc", "send", "deleteSvc"} => RulesOfApp(a) = {}
          /\ pc[h] \in {"send", "deleteSvc"} => old[h] = routes[a]

\* An app no request failed for and no two requests raced for.
Untouched(a) ==
    /\ \A h, i \in Busy(a) : h = i
    /\ \A h \in Busy(a) : Halfway(h, a)
    /\ Busy(a) = {} => Intact(a)

\* Routes are kept with the Service they are annotated to.
RoutesKept == \A a \in Apps : Svc(a) \notin live => routes[a] = {}

HandlerInv(h) ==
    pc[h] # "idle" => RequestShape(h) /\ IngressRead(h) /\ ServiceRead(h)

(***************************************************************************)
(* Requests stay in their script, a resource version that still matches    *)
(* vouches for what was read with it, and an app that no request failed    *)
(* for is where the one request in progress has got to.                    *)
(***************************************************************************)
IInv ==
    /\ TypeOK
    /\ IngressSane
    /\ RoutesKept
    /\ \A h \in Handlers : HandlerInv(h)
    /\ \A a \in Apps \ tainted : Untouched(a)
=============================================================================
