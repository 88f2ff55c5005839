---------------------------- MODULE ListingProofs ----------------------------
(***************************************************************************)
(* Theorems about Listing: what the Cloud Controller is told of apps, and  *)
(* what it can do with it, for any guids, handlers, URIs and routes.       *)
(***************************************************************************)
EXTENDS Listing, DesirerProofs

\* Cutting a guid gives a name, and that of an app when it is a process guid.
LEMMA GuidCut ==
    /\ \A g \in Apps : Cut(g) \in Apps
    /\ \A g \in ProcessGuids : Cut(g) = SubSeq(g, 1, 1) /\ Cut(g) \in AppGuids
    /\ NoGuid \notin Apps
<1>1. ASSUME NEW g \in ProcessGuids
      PROVE  Cut(g) = SubSeq(g, 1, 1) /\ Cut(g) \in AppGuids
  BY ListingAssumption DEF Cut, ProcessGuids
<1>2. ASSUME NEW g \in Apps PROVE Cut(g) \in Apps
  BY <1>1, <1>2, ListingAssumption DEF Cut, AppGuids, ProcessGuids
<1>3. NoGuid \notin Apps
  <2>1. Len(NoGuid) = 0
    BY DEF NoGuid
  <2>2. QED  BY <2>1, ListingAssumption
<1>4. QED  BY <1>1, <1>2, <1>3

\* The URIs of an Update's routes are URIs, whether there are any or not.
LEMMA RoutingUris ==
    ASSUME NEW rs \in Routings \cup {NoRoutes}
    PROVE  getURIs(rs) = UNION rs /\ UNION rs \in SUBSET Uris
  BY ListingAssumption DEF getURIs, NoRoutes

\* A step a handler takes once its request has come.
Moves(h) == StsCreated(h) \/ StsDeleted(h) \/ UpdateDone(h) \/ OtherStep(h)

\* It is one of Desirer's, and requests that have ended are forgotten.
LEMMA MovesTakeSteps ==
    ASSUME NEW h \in Handlers, Moves(h)
    PROVE  TakesStep(h) /\ EndsForgotten
  BY DEF Moves, StsCreated, StsDeleted, UpdateDone, OtherStep, LastCall,
         TakesStep, HandlerStep

\* A request as it comes, with what is kept of it.
Comes(h, r, first, g, rs) ==
    /\ r \in Requests /\ g \in Apps /\ rs \in Routings \cup {NoRoutes}
    /\ \/ r.op = "desire" /\ first = "exists" /\ g \in ProcessGuids
       \/ r.op = "update" /\ first = "getLRP" /\ r.uris = UNION rs
       \/ r.op = "stop" /\ first = "deleteSts"
    /\ r.op \in {"desire", "stop"} => r.app = Cut(g)
    /\ Begin(h, r, first)
    /\ Arrival(h, r.app, g, rs)

\* Every request comes so, and is a request to Desirer.
LEMMA RequestComing ==
    ASSUME NEW h \in Handlers, DesireComes(h) \/ UpdateComes(h) \/ StopComes(h)
    PROVE  /\ Arrive(h)
           /\ \E r, first, g, rs : Comes(h, r, first, g, rs)
<1>1. CASE DesireComes(h)
  <2>1. PICK g \in ProcessGuids, s \in Specs, u \in SUBSET Uris :
           /\ Begin(h, [spec |-> s, op |-> "desire", app |-> SubSeq(g, 1, 1),
                        uris |-> u], "exists")
           /\ Arrival(h, SubSeq(g, 1, 1), g, NoRoutes)
    BY <1>1 DEF DesireComes
  <2> DEFINE r == [spec |-> s, op |-> "desire", app |-> SubSeq(g, 1, 1), uris |-> u]
  <2>2. g \in Apps /\ SubSeq(g, 1, 1) = Cut(g) /\ Cut(g) \in Apps
    BY GuidCut DEF ProcessGuids
  <2>3. Arrive(h)
    BY <2>1, <2>2 DEF Arrive, Desire
  <2>4. r \in Requests
    BY <2>2 DEF Requests
  <2>5. Comes(h, r, "exists", g, NoRoutes)
    BY <2>1, <2>2, <2>4 DEF Comes
  <2>6. QED  BY <2>3, <2>5
<1>2. CASE UpdateComes(h)
  <2>1. PICK g \in Apps, s \in Specs, rs \in Routings :
           /\ Begin(h, [spec |-> s, op |-> "update", app |-> g,
                        uris |-> getURIs(rs)], "getLRP")
           /\ Arrival(h, g, g, rs)
    BY <1>2 DEF UpdateComes
  <2> DEFINE r == [spec |-> s, op |-> "update", app |-> g, uris |-> getURIs(rs)]
  <2>2. getURIs(rs) = UNION rs /\ getURIs(rs) \in SUBSET Uris
    BY RoutingUris
  <2>3. Arrive(h)
    BY <2>1, <2>2 DEF Arrive, Update
  <2>4. r \in Requests
    BY <2>2 DEF Requests
  <2>5. Comes(h, r, "getLRP", g, rs)
    BY <2>1, <2>2, <2>4 DEF Comes
  <2>6. QED  BY <2>3, <2>5
<1>3. CASE StopComes(h)
  <2>1. PICK g \in Apps :
           /\ Begin(h, [spec |-> NoSpec, op |-> "stop", app |-> Cut(g), uris |-> {}],
                    "deleteSts")
           /\ Arrival(h, Cut(g), g, NoRoutes)
    BY <1>3 DEF StopComes
  <2> DEFINE r == [spec |-> NoSpec, op |-> "stop", app |-> Cut(g), uris |-> {}]
  <2>2. Cut(g) \in Apps
    BY GuidCut
  <2>3. Arrive(h)
    BY <2>1, <2>2 DEF Arrive, Stop
  <2>4. r \in Requests
    BY <2>2 DEF Requests
  <2>5. Comes(h, r, "deleteSts", g, NoRoutes)
    BY <2>1, <2>4 DEF Comes
  <2>6. QED  BY <2>3, <2>5
<1>4. QED  BY <1>1, <1>2, <1>3

\* A step of Listing is one of Desirer.
LEMMA ListingStep == [ListingNext]_lvars => [Next]_vars
<1> SUFFICES ASSUME [ListingNext]_lvars PROVE [Next]_vars
  OBVIOUS
<1>1. ASSUME NEW h \in Handlers, DesireComes(h) \/ UpdateComes(h) \/ StopComes(h)
      PROVE  Next
  BY <1>1, RequestComing DEF Next
<1>2. ASSUME NEW h \in Handlers, Moves(h) PROVE Next
  BY <1>2, MovesTakeSteps DEF Next, TakesStep
<1>3. CASE Crash \/ Quiet
  BY <1>3 DEF Next
<1>4. CASE UNCHANGED lvars
  BY <1>4 DEF lvars
<1>5. QED  BY <1>1, <1>2, <1>3, <1>4 DEF ListingNext, Moves

(***************************************************************************)
(* Requests that come by process guid and by app guid, as the Cloud        *)
(* Controller sends them, are requests of Desirer: whatever is proved of   *)
(* these for names of LRPs holds for the names the code makes of guids     *)
(* (handler/app_handler.go, bifrost/convert.go).                           *)
(***************************************************************************)
THEOREM ListingImplementsDesirer == ListingSpec => Spec
<1>1. ListingInit => Init
  BY DEF ListingInit
<1>2. QED  BY <1>1, ListingStep, PTL DEF ListingSpec, Spec

-----------------------------------------------------------------------------
(***************************************************************************)
(* The invariant.                                                          *)
(***************************************************************************)
\* List tells of an app that an Update has put right what the Update asked for.
LEMMA RepairedListed ==
    ListingInv => \A a \in Apps : written[a] # Unknown => Listable(a, written[a])
<1> SUFFICES ASSUME ListingInv, NEW a \in Apps, written[a] # Unknown
             PROVE  Listable(a, written[a])
  OBVIOUS
<1>1. Repaired(a)
  BY DEF ListingInv
<1>2. toDesiredLRPSchedulingInfo(a) \in List
  BY <1>1 DEF Repaired, List, Listed
<1>3. QED  BY <1>1, <1>2 DEF Repaired, Listable, toDesiredLRPSchedulingInfo

\* A guid that is listed is the process guid of the app it is cut to.
LEMMA ListedGuid ==
    ASSUME \A a \in Apps : NamedByApp(a), NEW g, \E i \in List : i.processGuid = g
    PROVE  Cut(g) \in Apps /\ Sts(Cut(g)) \in live
<1>1. PICK a \in Apps : Sts(a) \in live /\ processGuid[a] = g
  BY DEF List, Listed, toDesiredLRPSchedulingInfo
<1>2. QED  BY <1>1 DEF NamedByApp

\* Nothing is known at first.
LEMMA ListingInitInv == ListingInit => ListingInv
<1> SUFFICES ASSUME ListingInit PROVE ListingInv
  OBVIOUS
<1>1. /\ live = {} /\ \A h \in Handlers : pc[h] = "idle"
      /\ \A a \in Apps : Busy(a) = {} /\ written[a] = Unknown
  BY DEF ListingInit, Init, KubeInit, Busy
<1>2. ListingTypes
  <2>1. NoAsk \in Asks
    BY Zenon DEF NoAsk, Asks, NoRoutes
  <2>2. Unknown \in LRPs
    BY DEF Unknown, LRPs
  <2>3. QED  BY <2>1, <2>2 DEF ListingInit, ListingTypes
<1>3. \A a \in Apps : NamedByApp(a)
  BY <1>1 DEF NamedByApp
<1>4. QED
  BY <1>1, <1>2, <1>3 DEF ListingInv, ListedCanBeStopped

\* What a request that comes leaves alone, and which requests it overlaps.
LEMMA ComingFrame ==
    ASSUME IInv, ListingTypes, NEW h \in Handlers, NEW r, NEW first, NEW g, NEW rs,
           Comes(h, r, first, g, rs)
    PROVE  /\ UNCHANGED <<live, spec, routes, rules, processGuid>>
           /\ pc[h] = "idle" /\ pc'[h] = first /\ first # "idle" /\ req'[h] = r
           /\ \A i \in Handlers \ {h} : SameHandler(i) /\ ask'[i] = ask[i]
           /\ ask'[h].guid = g /\ ask'[h].routes = rs
           /\ ask'[h].listed => \E i \in List : i.processGuid = g
           /\ r.app \in Apps
           /\ Busy(r.app)' = Busy(r.app) \cup {h}
           /\ \A a \in Apps \ {r.app} : Busy(a)' = Busy(a) /\ written'[a] = written[a]
           /\ written'[r.app] = Unknown
           /\ Busy(r.app) # {} => raced' = raced \cup Busy(r.app) \cup {h}
           /\ Busy(r.app) = {} => raced' = raced \ {h}
<1>1. TypeOK /\ Begin(h, r, first) /\ Arrival(h, r.app, g, rs) /\ r.app \in Apps
  BY DEF Comes, IInv, Requests
<1>2. pc \in [Handlers -> Labels] /\ DOMAIN req = Handlers
  BY <1>1 DEF TypeOK, MemoryTypes
<1>3. /\ UNCHANGED <<live, spec, routes, rules, processGuid, seen, old, plan>>
      /\ pc[h] = "idle" /\ pc' = [pc EXCEPT ![h] = first]
      /\ req' = [req EXCEPT ![h] = r]
  BY <1>1 DEF Begin, Arrival, Step, Goto
<1>4. first # "idle"
  BY DEF Comes
<1>5. /\ pc'[h] = first /\ req'[h] = r
      /\ \A i \in Handlers \ {h} : SameHandler(i)
  BY <1>2, <1>3 DEF SameHandler
<1>6. /\ Busy(r.app)' = Busy(r.app) \cup {h}
      /\ \A a \in Apps \ {r.app} : Busy(a)' = Busy(a)
  BY <1>3, <1>4, <1>5 DEF Busy, App, SameHandler
<1>7. \A i \in Handlers \ {h} : ask'[i] = ask[i]
  BY <1>1 DEF Arrival, ListingTypes
<1>8. /\ ask'[h].guid = g /\ ask'[h].routes = rs
      /\ ask'[h].listed => \E i \in List : i.processGuid = g
  <2>1. ask'[h] = [guid   |-> g,
                   listed |-> \E i \in List : i.processGuid = g,
                   routes |-> rs]
    BY <1>1 DEF Arrival, ListingTypes
  <2>2. ASSUME NEW l PROVE [guid |-> g, listed |-> l, routes |-> rs].listed = l
    OBVIOUS
  <2>3. ask'[h].listed = (\E i \in List : i.processGuid = g)
    BY <2>1, <2>2, Zenon
  <2>4. ask'[h].guid = g /\ ask'[h].routes = rs
    BY <2>1
  <2>5. QED  BY <2>3, <2>4, Zenon
<1>9. /\ \A a \in Apps \ {r.app} : written'[a] = written[a]
      /\ written'[r.app] = Unknown
  BY <1>1 DEF Arrival, ListingTypes
<1>10. /\ Busy(r.app) # {} => raced' = raced \cup Busy(r.app) \cup {h}
       /\ Busy(r.app) = {} => raced' = raced \ {h}
  BY <1>1 DEF Arrival
<1>11. QED  BY <1>1, <1>3, <1>4, <1>5, <1>6, <1>7, <1>8, <1>9, <1>10

\* A request that comes keeps the invariant.
LEMMA ComingInv ==
    ASSUME IInv, ListingInv, NEW h \in Handlers, NEW r, NEW first, NEW g, NEW rs,
           Comes(h, r, first, g, rs)
    PROVE  ListingInv'
<1>1. ListingTypes /\ \A a \in Apps : NamedByApp(a)
  BY DEF ListingInv
<1>2. /\ UNCHANGED <<live, spec, routes, rules, processGuid>>
      /\ pc[h] = "idle" /\ pc'[h] = first /\ first # "idle" /\ req'[h] = r
      /\ \A i \in Handlers \ {h} : SameHandler(i) /\ ask'[i] = ask[i]
      /\ ask'[h].guid = g /\ ask'[h].routes = rs
      /\ ask'[h].listed => \E i \in List : i.processGuid = g
      /\ r.app \in Apps
      /\ Busy(r.app)' = Busy(r.app) \cup {h}
      /\ \A a \in Apps \ {r.app} : Busy(a)' = Busy(a) /\ written'[a] = written[a]
      /\ written'[r.app] = Unknown
      /\ Busy(r.app) # {} => raced' = raced \cup Busy(r.app) \cup {h}
      /\ Busy(r.app) = {} => raced' = raced \ {h}
  BY <1>1, ComingFrame
<1>3. /\ g \in Apps /\ rs \in Routings \cup {NoRoutes}
      /\ \/ r.op = "desire" /\ first = "exists" /\ g \in ProcessGuids
         \/ r.op = "update" /\ first = "getLRP" /\ r.uris = UNION rs
         \/ r.op = "stop" /\ first = "deleteSts"
      /\ r.op \in {"desire", "stop"} => r.app = Cut(g)
  BY DEF Comes
<1>4. ListingTypes'
  <2>1. [guid |-> g, listed |-> \E i \in List : i.processGuid = g, routes |-> rs] \in Asks
    BY <1>3, Zenon DEF Asks
  <2>2. ask' \in [Handlers -> Asks]
    BY <1>1, <2>1, Zenon DEF Comes, Arrival, ListingTypes
  <2>3. Unknown \in LRPs
    BY DEF Unknown, LRPs
  <2>4. written' \in [Apps -> LRPs]
    BY <1>1, <2>3 DEF Comes, Arrival, ListingTypes
  <2>5. raced' \subseteq Handlers
    BY <1>1, <1>2 DEF ListingTypes, Busy
  <2>6. QED  BY <1>1, <1>2, <2>2, <2>4, <2>5 DEF ListingTypes
<1>5. ASSUME NEW i \in Handlers, pc'[i] # "idle" PROVE AskShape(i)'
  <2>1. CASE i = h
    BY <1>2, <1>3, <2>1 DEF AskShape, App
  <2>2. CASE i # h
    <3>1. AskShape(i) /\ SameHandler(i) /\ ask'[i] = ask[i]
      BY <1>2, <1>5, <2>2 DEF SameHandler, ListingInv
    <3>2. QED  BY <3>1 DEF AskShape, App, SameHandler
  <2>3. QED  BY <2>1, <2>2
<1>6. (\A a \in Apps : NamedByApp(a))'
  BY <1>1, <1>2 DEF NamedByApp
<1>7. ASSUME NEW a \in Apps, NEW i \in Busy(a)', NEW j \in Busy(a)', i # j
      PROVE  {i, j} \subseteq raced'
  <2>1. CASE a = r.app
    <3>1. Busy(a) # {}
      BY <1>2, <1>7, <2>1
    <3>2. QED  BY <1>2, <1>7, <2>1, <3>1
  <2>2. CASE a # r.app
    <3>1. /\ i \in Busy(a) /\ j \in Busy(a)
          /\ i # h /\ j # h
      BY <1>2, <1>7, <2>2 DEF Busy
    <3>2. {i, j} \subseteq raced
      BY <1>7, <3>1 DEF ListingInv
    <3>3. QED  BY <1>2, <3>1, <3>2
  <2>3. QED  BY <2>1, <2>2
<1>8. ASSUME NEW i \in Handlers \ raced', pc'[i] # "idle", i # h
      PROVE  i \notin raced /\ SameHandler(i) /\ ask'[i] = ask[i]
  BY <1>2, <1>8
<1>9. ASSUME NEW i \in Handlers \ raced', pc'[i] # "idle", req'[i].op = "update"
      PROVE  UpdateProgress(i)'
  <2>1. CASE i = h
    BY <1>2, <1>3, <1>9, <2>1 DEF UpdateProgress
  <2>2. CASE i # h
    <3>1. UpdateProgress(i)
      BY <1>8, <1>9, <2>2 DEF ListingInv, SameHandler
    <3>2. QED  BY <1>2, <1>8, <1>9, <2>2, <3>1 DEF UpdateProgress, App, SameHandler
  <2>3. QED  BY <2>1, <2>2
<1>10. \A a \in Apps : Busy(a)' # {} => written'[a] = Unknown
  BY <1>2 DEF ListingInv
<1>11. ASSUME NEW i \in Handlers \ raced', pc'[i] = "deleteSts", ask'[i].listed
       PROVE  Sts(App(i))' \in live'
  <2>1. CASE i = h
    <3>1. \E n \in List : n.processGuid = g
      BY <1>2, <1>11, <2>1
    <3>2. Sts(Cut(g)) \in live
      BY <1>1, <3>1, ListedGuid
    <3>3. r.op = "stop" /\ App(i)' = Cut(g)
      BY <1>2, <1>3, <1>11, <2>1 DEF App
    <3>4. QED  BY <1>2, <3>2, <3>3 DEF Sts
  <2>2. CASE i # h
    <3>1. i \notin raced /\ SameHandler(i) /\ ask'[i] = ask[i]
      BY <1>8, <1>11, <2>2
    <3>2. pc[i] = "deleteSts" /\ App(i)' = App(i) /\ ask[i].listed
      BY <1>11, <3>1 DEF SameHandler, App
    <3>3. Sts(App(i)) \in live
      BY <3>1, <3>2 DEF ListingInv, ListedCanBeStopped
    <3>4. QED  BY <1>2, <3>2, <3>3 DEF Sts
  <2>3. QED  BY <2>1, <2>2
<1>12. \A a \in Apps : written'[a] # Unknown => Repaired(a)'
  BY <1>2 DEF ListingInv, Repaired, RulesOfApp, Unknown
<1>13. ListedCanBeStopped'
  BY <1>11 DEF ListedCanBeStopped
<1>14. QED
  BY <1>4, <1>5, <1>6, <1>7, <1>9, <1>10, <1>12, <1>13 DEF ListingInv, Unknown

\* What a move leaves alone: other handlers, other apps, and requests going on.
LEMMA MoveFrame ==
    ASSUME IInv, ListingTypes, NEW h \in Handlers, Moves(h)
    PROVE  /\ pc[h] # "idle" /\ App(h) \in Apps
           /\ pc'[h] = "idle" \/ req'[h] = req[h]
           /\ \A i \in Handlers \ {h} : SameHandler(i)
           /\ \A i \in Handlers : pc'[i] # "idle" =>
                 /\ ask'[i] = ask[i] /\ req'[i] = req[i] /\ App(i)' = App(i)
                 /\ i \in raced' <=> i \in raced
           /\ \A a \in Apps : Busy(a)' \subseteq Busy(a)
           /\ \A a \in Apps \ {App(h)} : SameApp(a) /\ processGuid'[a] = processGuid[a]
                                         /\ written'[a] = written[a]
<1>1. TakesStep(h) /\ EndsForgotten /\ TypeOK
  BY MovesTakeSteps DEF IInv
<1>2. /\ pc[h] # "idle" /\ App(h) \in Apps
      /\ pc'[h] = "idle" \/ req'[h] = req[h]
      /\ \A i \in Handlers \ {h} : SameHandler(i)
  BY <1>1, StepKinds, BusyRequest, OneHandlerMoves
<1>3. \A a \in Apps \ {App(h)} : SameApp(a)
  BY <1>1, StepLocal
<1>4. \A a \in Apps \ {App(h)} : /\ processGuid'[a] = processGuid[a]
                                 /\ written'[a] = written[a]
  BY DEF Moves, StsCreated, StsDeleted, UpdateDone, OtherStep, ListingTypes
<1>5. ASSUME NEW i \in Handlers, pc'[i] # "idle"
      PROVE  /\ ask'[i] = ask[i] /\ req'[i] = req[i] /\ App(i)' = App(i)
             /\ i \in raced' <=> i \in raced
  <2>1. req'[i] = req[i]
    BY <1>2, <1>5 DEF SameHandler
  <2>2. ask'[i] = ask[i] /\ (i \in raced' <=> i \in raced)
    BY <1>1, <1>5 DEF EndsForgotten
  <2>3. QED  BY <2>1, <2>2 DEF App
<1>6. \A a \in Apps : Busy(a)' \subseteq Busy(a)
  BY <1>2 DEF Busy, App, SameHandler
<1>7. QED  BY <1>2, <1>3, <1>4, <1>5, <1>6

\* A move keeps the types.
LEMMA MoveTypes ==
    ASSUME IInv, ListingTypes, NEW h \in Handlers, Moves(h)
    PROVE  ListingTypes'
<1>1. TypeOK /\ EndsForgotten /\ pc[h] # "idle"
  BY MovesTakeSteps, MoveFrame DEF IInv
<1>2. NoAsk \in Asks /\ NoGuid \in Apps \cup {NoGuid}
  BY Zenon DEF NoAsk, Asks, NoRoutes
<1>3. ask' \in [Handlers -> Asks] /\ raced' \subseteq Handlers
  BY <1>1, <1>2 DEF EndsForgotten, ListingTypes
<1>4. ask[h].guid \in Apps \cup {NoGuid} /\ ask[h].routes \in Routings \cup {NoRoutes}
  BY DEF ListingTypes, Asks
<1>5. processGuid' \in [Apps -> Apps \cup {NoGuid}]
  BY <1>2, <1>4 DEF Moves, StsCreated, StsDeleted, UpdateDone, OtherStep, ListingTypes
<1>6. [spec |-> req[h].spec, uris |-> UNION ask[h].routes] \in LRPs
  BY <1>1, <1>4, BusyRequest, RoutingUris DEF LRPs
<1>7. written' \in [Apps -> LRPs]
  BY <1>6 DEF Moves, StsCreated, StsDeleted, UpdateDone, OtherStep, ListingTypes
<1>8. QED  BY <1>3, <1>5, <1>7 DEF ListingTypes

\* No other move than these two creates or deletes a StatefulSet.
LEMMA OtherKeepsSts ==
    ASSUME IInv, NEW h \in Handlers, UpdateDone(h) \/ OtherStep(h), App(h) \in Apps,
           NEW a \in Apps
    PROVE  Sts(a) \in live' <=> Sts(a) \in live
<1>1. Sts(a) # Headless(App(h)) /\ Sts(a) # Svc(App(h)) /\ Sts(a) # Ingress
  BY ObjectNames
<1>2. QED
  BY <1>1
     DEF UpdateDone, OtherStep, LastCall, Exists, CreateHeadless, CreateSvc, GetLRP,
         GetSts, PutSts, GetSvc, PutSvc, DeleteHeadless, DeleteSvc, GetIngress, Send,
         ListIngress, PutIngress, CreateIngress, DropIngress, Refused, CallFails,
         Create, Put, Delete, Found, kubeVars, clusterVars

\* StatefulSets keep the name of the app whose process they are annotated with.
LEMMA MoveNamed ==
    ASSUME IInv, ListingInv, NEW h \in Handlers, Moves(h), NEW a \in Apps
    PROVE  NamedByApp(a)'
<1>1. ListingTypes /\ NamedByApp(a) /\ TypeOK
  BY DEF ListingInv, IInv
<1>2. pc[h] # "idle" /\ App(h) \in Apps
  BY <1>1, MoveFrame
<1>3. CASE a # App(h)
  <2>1. SameApp(a) /\ processGuid'[a] = processGuid[a]
    BY <1>1, <1>3, MoveFrame
  <2>2. QED  BY <1>1, <2>1 DEF NamedByApp, SameApp
<1>4. CASE a = App(h) /\ StsCreated(h)
  <2>1. pc[h] = "createSts" /\ processGuid'[a] = ask[h].guid
    BY <1>1, <1>4 DEF StsCreated, CreateSts, Step, ListingTypes
  <2>2. req[h].op = "desire"
    BY <1>1, <1>2, <2>1, BusyRequest DEF IInv, HandlerInv, RequestShape, Script
  <2>3. QED  BY <1>2, <1>4, <2>1, <2>2 DEF ListingInv, AskShape, NamedByApp
<1>5. CASE a = App(h) /\ StsDeleted(h)
  BY <1>5 DEF StsDeleted, DeleteSts, Delete, NamedByApp
<1>6. CASE UpdateDone(h) \/ OtherStep(h)
  <2>1. processGuid' = processGuid
    BY <1>6 DEF UpdateDone, OtherStep
  <2>2. QED  BY <1>1, <1>2, <1>6, <2>1, OtherKeepsSts DEF NamedByApp
<1>7. QED  BY <1>3, <1>4, <1>5, <1>6 DEF Moves

\* A move of an Update that nothing overlaps gets it one call further.
LEMMA MoveProgress ==
    ASSUME IInv, ListingInv, NEW h \in Handlers \ raced, Moves(h), pc'[h] # "idle",
           req[h].op = "update"
    PROVE  UpdateProgress(h)'
<1> DEFINE a == App(h)
<1>1. TypeOK /\ HandlerInv(h) /\ ListingTypes
  BY DEF IInv, ListingInv
<1>2. /\ pc[h] # "idle" /\ a \in Apps /\ TakesStep(h)
      /\ req'[h] = req[h] /\ App(h)' = a
  BY <1>1, MoveFrame, MovesTakeSteps
<1>3. UpdateProgress(h) /\ pc[h] \in Script("update")
  BY <1>1, <1>2 DEF ListingInv, HandlerInv, RequestShape
<1>4. /\ Sts(a) # Svc(a) /\ Sts(a) # Ingress /\ Svc(a) # Ingress
      /\ pc \in [Handlers -> Labels]
      /\ spec \in [Apps -> Specs \cup {NoSpec}] /\ routes \in [Apps -> SUBSET Uris]
  BY <1>1, <1>2, ObjectNames DEF TypeOK, MemoryTypes, DataTypes
<1>5. ~IngressWrite(h) /\ ~Refused(h) /\ ~CallFails(h)
  BY <1>4 DEF IngressWrite, PutIngress, CreateIngress, DropIngress, IngressDone, Finish,
              Ack, Fail, Return, Goto, Refused, CallFails
<1>6. CASE GetLRP(h) \/ GetSts(h)
  BY <1>4, <1>6 DEF GetLRP, GetSts, Step, Goto, UpdateProgress
<1>7. CASE PutSts(h)
  BY <1>2, <1>4, <1>7 DEF PutSts, Put, Step, Goto, UpdateProgress, Script
<1>8. CASE GetSvc(h)
  <2>1. pc[h] = "getSvc" /\ pc'[h] = "putSvc" /\ UNCHANGED <<live, spec>>
    BY <1>4, <1>8 DEF GetSvc, Step, Goto, Found, kubeVars
  <2>2. QED  BY <1>2, <1>3, <2>1 DEF UpdateProgress, Script
<1>9. CASE PutSvc(h)
  <2>1. /\ pc[h] = "putSvc" /\ pc'[h] = "send" /\ UNCHANGED <<live, spec>>
        /\ Svc(a) \in live /\ routes'[a] = req[h].uris
    BY <1>2, <1>4, <1>9 DEF PutSvc, Put, Step, Goto
  <2>2. QED  BY <1>2, <1>3, <2>1 DEF UpdateProgress, Script
<1>10. CASE Send(h) \/ ListIngress(h) \/ GetIngress(h)
  <2>1. pc[h] \in {"send", "listIngress", "getIngress"}
    BY <1>10 DEF Send, ListIngress, GetIngress, Step
  <2>2. UNCHANGED <<live, spec, routes>>
    BY <1>10, QuietCluster DEF ClusterQuiet, clusterVars
  <2>3. QED  BY <1>2, <1>3, <2>1, <2>2 DEF UpdateProgress, Script
<1>11. QED
  BY <1>2, <1>3, <1>5, <1>6, <1>7, <1>8, <1>9, <1>10
     DEF TakesStep, HandlerStep, IngressWrite, Script, Step, Exists, CreateSts,
         CreateHeadless, CreateSvc, DeleteSts, DeleteHeadless, DeleteSvc

\* When such an Update is done the app is as it asked.
LEMMA DoneRepairs ==
    ASSUME IInv, ListingInv, NEW h \in Handlers \ raced, UpdateDone(h),
           NEW a \in Apps, a = App(h)
    PROVE  /\ Repaired(a)'
           /\ RulesOfApp(a)' = createIngressRules(a, written'[a].uris)
<1>1. TypeOK /\ HandlerInv(h) /\ ListingTypes /\ Moves(h) /\ IngressSane
  BY DEF IInv, ListingInv, Moves
<1>2. pc[h] # "idle" /\ a \in Apps /\ req[h].op = "update"
  BY <1>1, MoveFrame DEF UpdateDone
<1>3. /\ UpdateProgress(h) /\ req[h].uris = UNION ask[h].routes
  BY <1>2 DEF ListingInv, AskShape
<1>4. written'[a] = [spec |-> req[h].spec, uris |-> req[h].uris]
  BY <1>1, <1>2, <1>3 DEF UpdateDone, ListingTypes
<1>5. CASE IngressWrite(h)
  <2>1. pc[h] \in {"putIngress", "createIngress", "dropIngress"}
    BY <1>5 DEF IngressWrite, PutIngress, CreateIngress, DropIngress
  <2>2. /\ {Sts(a), Svc(a)} \subseteq live
        /\ spec[a] = req[h].spec /\ routes[a] = req[h].uris
    BY <1>3, <2>1 DEF UpdateProgress, Script
  <2>3. /\ UNCHANGED <<spec, routes>>
        /\ {Sts(a), Svc(a)} \subseteq live'
    BY <1>1, <1>2, <1>5, <2>2, IngressLocal, ObjectNames
  <2>4. RulesOfApp(a)' = createIngressRules(a, req[h].uris)
    <3>1. CASE pc[h] = "dropIngress" /\ rules' = {}
      BY <1>1, <1>2, <3>1 DEF RulesOfApp, HandlerInv, RequestShape, createIngressRules
    <3>2. CASE RulesOfApp(a)' = createIngressRules(a, req[h].uris)
      BY <3>2
    <3>3. QED  BY <1>1, <1>5, <3>1, <3>2, IngressWriteRules
  <2>5. QED  BY <1>4, <2>2, <2>3, <2>4 DEF Repaired
<1>6. CASE ListIngress(h) /\ req[h].uris = {} /\ Ingress \notin live
  <2>1. pc[h] = "listIngress" /\ UNCHANGED <<live, spec, routes, rules>>
    BY <1>6 DEF ListIngress, clusterVars
  <2>2. /\ {Sts(a), Svc(a)} \subseteq live
        /\ spec[a] = req[h].spec /\ routes[a] = req[h].uris
    BY <1>3, <2>1 DEF UpdateProgress, Script
  <2>3. RulesOfApp(a)' = createIngressRules(a, req[h].uris)
    BY <1>1, <1>6, <2>1 DEF IngressSane, RulesOfApp, createIngressRules
  <2>4. QED  BY <1>4, <2>1, <2>2, <2>3 DEF Repaired
<1>7. QED  BY <1>5, <1>6 DEF UpdateDone, LastCall, IngressWrite

\* Only an Update that nothing overlaps and that makes its last call is recorded.
LEMMA WrittenByUpdate ==
    ASSUME ListingTypes, NEW h \in Handlers, Moves(h), NEW a \in Apps,
           written'[a] # written[a]
    PROVE  UpdateDone(h) /\ h \notin raced /\ a = App(h)
  BY DEF Moves, StsCreated, StsDeleted, OtherStep, UpdateDone, ListingTypes

\* What is the case of an app no handler moved for stays the case.
LEMMA SameAppListing ==
    ASSUME NEW a \in Apps, SameApp(a), written'[a] = written[a], Repaired(a)
    PROVE  Repaired(a)'
  BY DEF SameApp, Repaired

\* Every move keeps the invariant.
LEMMA MoveInv ==
    ASSUME IInv, ListingInv, NEW h \in Handlers, Moves(h)
    PROVE  ListingInv'
<1>1. ListingTypes /\ \A a \in Apps : NamedByApp(a)
  BY DEF ListingInv
<1>2. /\ pc[h] # "idle" /\ App(h) \in Apps
      /\ \A i \in Handlers \ {h} : SameHandler(i)
      /\ \A i \in Handlers : pc'[i] # "idle" =>
            /\ ask'[i] = ask[i] /\ req'[i] = req[i] /\ App(i)' = App(i)
            /\ i \in raced' <=> i \in raced
      /\ \A a \in Apps : Busy(a)' \subseteq Busy(a)
      /\ \A a \in Apps \ {App(h)} : SameApp(a) /\ written'[a] = written[a]
  BY <1>1, MoveFrame
<1>3. ListingTypes'
  BY <1>1, MoveTypes
<1>4. (\A a \in Apps : NamedByApp(a))'
  BY MoveNamed
<1>5. ASSUME NEW i \in Handlers, pc'[i] # "idle"
      PROVE  AskShape(i)' /\ pc[i] # "idle" /\ App(i) \in Apps
  <2>1. pc[i] # "idle"
    BY <1>2, <1>5 DEF SameHandler
  <2>2. AskShape(i)
    BY <2>1 DEF ListingInv
  <2>3. QED  BY <1>2, <1>5, <2>1, <2>2, BusyRequest DEF AskShape, IInv
<1>6. ASSUME NEW a \in Apps, NEW i \in Busy(a)', NEW j \in Busy(a)', i # j
      PROVE  {i, j} \subseteq raced'
  <2>1. i \in Busy(a) /\ j \in Busy(a) /\ {i, j} \subseteq raced
    BY <1>2, <1>6 DEF ListingInv
  <2>2. i \in Handlers /\ j \in Handlers /\ pc'[i] # "idle" /\ pc'[j] # "idle"
    BY <1>6 DEF Busy
  <2>3. QED  BY <1>2, <2>1, <2>2
<1>7. ASSUME NEW i \in Handlers \ raced', pc'[i] # "idle", i # h
      PROVE  i \notin raced /\ SameHandler(i) /\ SameApp(App(i)) /\ App(i) # App(h)
  <2>1. i \notin raced /\ SameHandler(i) /\ pc[i] # "idle" /\ App(i) \in Apps
    BY <1>2, <1>5, <1>7
  <2>2. App(i) # App(h)
    BY <1>2, <1>7, <2>1 DEF ListingInv, Busy
  <2>3. QED  BY <1>2, <2>1, <2>2
<1>8. ASSUME NEW i \in Handlers \ raced', pc'[i] # "idle", req'[i].op = "update"
      PROVE  UpdateProgress(i)'
  <2>1. i \notin raced /\ req[i].op = "update"
    BY <1>2, <1>8
  <2>2. CASE i = h
    BY <1>8, <2>1, <2>2, MoveProgress
  <2>3. CASE i # h
    <3>1. UpdateProgress(i) /\ SameHandler(i) /\ SameApp(App(i)) /\ App(i)' = App(i)
      BY <1>2, <1>5, <1>7, <1>8, <2>1, <2>3 DEF ListingInv
    <3>2. QED  BY <3>1 DEF UpdateProgress, SameHandler, SameApp
  <2>4. QED  BY <2>2, <2>3
<1>9. ASSUME NEW a \in Apps, Busy(a)' # {} PROVE written'[a] = Unknown
  <2>1. Busy(a) # {} /\ written[a] = Unknown
    BY <1>2, <1>9 DEF ListingInv
  <2>2. CASE a # App(h)
    BY <1>2, <2>1, <2>2
  <2>3. CASE a = App(h) /\ UpdateDone(h)
    <3>1. h \in raced
      <4>1. PICK i \in Busy(a)' : TRUE
        BY <1>9
      <4>2. i \in Busy(a) /\ h \in Busy(a)
        BY <1>2, <2>3 DEF Busy
      <4>3. CASE i # h
        BY <4>2, <4>3 DEF ListingInv
      <4>4. CASE i = h
        <5>1. pc'[h] = "idle"
          BY <2>3 DEF UpdateDone, LastCall, PutIngress, CreateIngress, DropIngress,
                      IngressDone, ListIngress, Finish, Ack, Fail, Return, Goto,
                      IInv, TypeOK, MemoryTypes
        <5>2. QED  BY <4>1, <4>4, <5>1 DEF Busy
      <4>5. QED  BY <4>3, <4>4
    <3>2. QED  BY <2>1, <2>3, <3>1 DEF UpdateDone
  <2>4. CASE a = App(h) /\ ~UpdateDone(h)
    BY <2>1, <2>4 DEF Moves, StsCreated, StsDeleted, OtherStep
  <2>5. QED  BY <2>2, <2>3, <2>4
<1>10. ASSUME NEW i \in Handlers \ raced', pc'[i] = "deleteSts", ask'[i].listed
       PROVE  Sts(App(i))' \in live'
  <2>1. i # h
    <3> SUFFICES ASSUME i = h PROVE FALSE
      OBVIOUS
    <3>1. TakesStep(h) /\ TypeOK
      BY MovesTakeSteps DEF IInv
    <3>2. QED
      BY <1>10, <3>1 DEF TakesStep, HandlerStep, Send, CallFails, Step, Goto, Exists,
             CreateSts, CreateHeadless, CreateSvc, GetLRP, GetSts, PutSts, GetSvc,
             PutSvc, DeleteSts, DeleteHeadless, DeleteSvc, ListIngress, GetIngress,
             PutIngress, CreateIngress, DropIngress, Refused, IngressDone, Finish,
             Ack, Fail, Return, TypeOK, MemoryTypes
  <2>2. /\ i \notin raced /\ SameHandler(i) /\ SameApp(App(i))
        /\ ask'[i] = ask[i] /\ App(i)' = App(i)
    BY <1>2, <1>7, <1>10, <2>1
  <2>3. Sts(App(i)) \in live
    BY <1>10, <2>2 DEF SameHandler, ListingInv, ListedCanBeStopped
  <2>4. QED  BY <2>2, <2>3 DEF SameApp, Sts
<1>11. ListedCanBeStopped'
  BY <1>10 DEF ListedCanBeStopped
<1>12. ASSUME NEW a \in Apps, written'[a] # Unknown PROVE Repaired(a)'
  <2>1. CASE a # App(h)
    BY <1>2, <1>12, <2>1, SameAppListing DEF ListingInv
  <2>2. CASE a = App(h)
    BY <1>2, <1>12, <2>2, WrittenByUpdate, DoneRepairs DEF ListingInv, Busy
  <2>3. QED  BY <2>1, <2>2
<1>13. QED
  BY <1>3, <1>4, <1>5, <1>6, <1>8, <1>9, <1>11, <1>12 DEF ListingInv, Unknown

\* Requests that are all forgotten at once leave the cluster as it is.
LEMMA CrashListingInv ==
    ASSUME IInv, ListingInv, Crash \/ Quiet, EndsForgotten,
           UNCHANGED <<processGuid, written>>
    PROVE  ListingInv'
<1>1. ListingTypes /\ \A a \in Apps : NamedByApp(a)
  BY DEF ListingInv
<1>2. /\ UNCHANGED <<live, spec, routes, rules>>
      /\ \A h \in Handlers : pc'[h] = "idle"
  BY DEF Crash, Quiet, vars, clusterVars
<1>3. ListingTypes'
  <2>1. NoAsk \in Asks
    BY Zenon DEF NoAsk, Asks, NoRoutes
  <2>2. ask' \in [Handlers -> Asks] /\ raced' \subseteq Handlers
    BY <1>1, <2>1 DEF EndsForgotten, ListingTypes
  <2>3. QED  BY <1>1, <2>2 DEF ListingTypes
<1>4. (\A a \in Apps : NamedByApp(a))'
  BY <1>1, <1>2 DEF NamedByApp
<1>5. \A a \in Apps : Busy(a)' = {}
  BY <1>2 DEF Busy
<1>6. ListedCanBeStopped'
  BY <1>2 DEF ListedCanBeStopped
<1>7. \A a \in Apps : written'[a] # Unknown => Repaired(a)'
  BY <1>2 DEF ListingInv, Repaired, RulesOfApp
<1>8. QED  BY <1>2, <1>3, <1>4, <1>5, <1>6, <1>7 DEF ListingInv

\* Every step keeps the invariant.
LEMMA ListingNextInv == IInv /\ ListingInv /\ [ListingNext]_lvars => ListingInv'
<1> SUFFICES ASSUME IInv, ListingInv, [ListingNext]_lvars PROVE ListingInv'
  OBVIOUS
<1>1. ASSUME NEW h \in Handlers, DesireComes(h) \/ UpdateComes(h) \/ StopComes(h)
      PROVE  ListingInv'
  BY <1>1, RequestComing, ComingInv
<1>2. ASSUME NEW h \in Handlers, Moves(h) PROVE ListingInv'
  BY <1>2, MoveInv
<1>3. CASE (Crash \/ Quiet) /\ EndsForgotten /\ UNCHANGED <<processGuid, written>>
  BY <1>3, CrashListingInv
<1>4. CASE UNCHANGED lvars
  <2>1. UNCHANGED <<live, spec, routes, rules, pc, req, processGuid, ask, raced, written>>
    BY <1>4 DEF lvars, vars, listingVars
  <2>2. /\ ListingTypes' = ListingTypes
        /\ \A h \in Handlers : AskShape(h)' = AskShape(h)
        /\ \A a \in Apps : NamedByApp(a)' = NamedByApp(a) /\ Busy(a)' = Busy(a)
        /\ \A h \in Handlers : UpdateProgress(h)' = UpdateProgress(h)
    BY <2>1 DEF ListingTypes, AskShape, NamedByApp, Busy, App, UpdateProgress
  <2>3. ListedCanBeStopped' = ListedCanBeStopped
    BY <2>1 DEF ListedCanBeStopped, App
  <2>4. \A a \in Apps : Repaired(a)' = Repaired(a)
    BY <2>1 DEF Repaired, RulesOfApp
  <2>5. QED  BY <2>1, <2>2, <2>3, <2>4 DEF ListingInv
<1>5. QED  BY <1>1, <1>2, <1>3, <1>4 DEF ListingNext, Moves

(***************************************************************************)
(* The inductive invariant of Listing: guids belong to their apps, and a   *)
(* request that no other overlaps has done what it has come past.          *)
(***************************************************************************)
THEOREM ListingInvariance == ListingSpec => []ListingInv
<1>1. ListingInit => IInv /\ ListingInv
  BY ListingInitInv, InitInv DEF ListingInit
<1>2. IInv /\ ListingInv /\ [ListingNext]_lvars => (IInv /\ ListingInv)'
  BY ListingNextInv, ListingStep, NextInv
<1>3. QED  BY <1>1, <1>2, PTL DEF ListingSpec

(***************************************************************************)
(* Type correctness, and StatefulSets are named by app guids only: the     *)
(* name Desire takes from VCAP_APPLICATION (bifrost/convert.go), the guid  *)
(* Update looks up and the one Stop cuts never put a process guid there.   *)
(***************************************************************************)
THEOREM ListingTypeCorrect == ListingSpec => []ListingTypeOK
<1>1. TypeOK /\ ListingInv => ListingTypeOK
  <2> SUFFICES ASSUME TypeOK, ListingInv PROVE ListingTypeOK
    OBVIOUS
  <2>1. \A h \in Handlers : ask[h].guid \in Apps \cup {NoGuid}
    BY DEF ListingInv, ListingTypes, Asks
  <2>2. ASSUME NEW a \in Apps, Sts(a) \in live
        PROVE  a \in AppGuids /\ processGuid[a] # NoGuid
    BY <2>2, GuidCut DEF ListingInv, NamedByApp, ProcessGuids
  <2>3. QED  BY <2>1, <2>2 DEF ListingTypeOK, ListingInv, ListingTypes
<1>2. QED
  BY <1>1, ListingInvariance, ListingImplementsDesirer, TypeCorrect, PTL

(***************************************************************************)
(* A guid that List showed can be stopped: Stop cuts it to the name of a   *)
(* StatefulSet that is there, unless another request for the app overlaps  *)
(* (App.List and App.Stop in handler/app_handler.go).                      *)
(***************************************************************************)
THEOREM ListedAreStoppable == ListingSpec => []ListedCanBeStopped
<1>1. ListingInv => ListedCanBeStopped
  BY DEF ListingInv
<1>2. QED  BY <1>1, ListingInvariance, PTL

(***************************************************************************)
(* An Update that makes all its calls and overlaps no other request leaves *)
(* annotation, routes and rules exactly as it asked for, whatever failed   *)
(* or crashed before: missing rules are back and obsolete ones are gone.   *)
(* Until the next request for the app annotation and routes stay so, and   *)
(* the rules do or are deleted all together (Update in k8s/desire.go).     *)
(***************************************************************************)
THEOREM UpdatesRepair == ListingSpec => UpdateRepairs
<1> DEFINE Repairs ==
        \A a \in Apps : written'[a] # Unknown =>
          /\ Listable(a, written[a])'
          /\ \/ RulesOfApp(a)' = createIngressRules(a, written'[a].uris)
             \/ written[a] = written'[a] /\ RulesOfApp(a)' = {}
<1>1. (ListingInv => \A a \in Apps : written[a] # Unknown => Listable(a, written[a]))'
  BY RepairedListed, PTL
<1>2. IInv /\ ListingInv /\ ListingInv' /\ [ListingNext]_lvars => [Repairs]_lvars
  <2> SUFFICES ASSUME IInv, ListingInv, ListingInv', ListingNext,
                      NEW a \in Apps, written'[a] # Unknown
               PROVE  /\ Listable(a, written[a])'
                      /\ \/ RulesOfApp(a)' = createIngressRules(a, written'[a].uris)
                         \/ written[a] = written'[a] /\ RulesOfApp(a)' = {}
    OBVIOUS
  <2>1. Listable(a, written[a])'
    BY <1>1 DEF Unknown
  <2>2. RulesOfApp(a)' \in {createIngressRules(a, written'[a].uris), {}}
    BY DEF ListingInv, Repaired, Unknown, createIngressRules
  <2>3. CASE written'[a] = written[a]
    BY <2>1, <2>2, <2>3
  <2>4. CASE written'[a] # written[a]
    <3>1. ASSUME NEW h \in Handlers, NEW r, NEW first, NEW g, NEW rs,
                 Comes(h, r, first, g, rs)
          PROVE  FALSE
      BY <2>4, <3>1, ComingFrame DEF ListingInv
    <3>2. PICK h \in Handlers : Moves(h)
      BY <2>4, <3>1, RequestComing DEF ListingNext, Moves
    <3>3. UpdateDone(h) /\ h \notin raced /\ a = App(h)
      BY <2>4, <3>2, WrittenByUpdate DEF ListingInv
    <3>4. RulesOfApp(a)' = createIngressRules(a, written'[a].uris)
      BY <3>3, DoneRepairs
    <3>5. QED  BY <2>1, <3>4
  <2>5. QED  BY <2>3, <2>4
<1>3. QED
  BY <1>2, Invariance, ListingImplementsDesirer, ListingInvariance, PTL
     DEF ListingSpec, UpdateRepairs

(***************************************************************************)
(* Everything that is proved of the request path holds with both kinds of  *)
(* guids: apps do not disturb each other (AckedIsDeployed), the Ingress is *)
(* an atomic table (IngressSane, ImplementsRuleTable), and dropped routes  *)
(* are announced (DroppedRoutesAnnounced).                                 *)
(***************************************************************************)
THEOREM ListingKeepsPromises ==
    ListingSpec => /\ []AckedIsDeployed
                   /\ []IngressSane
                   /\ ImplementsRuleTable
                   /\ DroppedRoutesAnnounced
  BY ListingImplementsDesirer, Isolation, IngressSanity, IngressRefinesRuleTable,
     DropsAreAnnounced
=============================================================================
