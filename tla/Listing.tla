------------------------------- MODULE Listing -------------------------------
(***************************************************************************)
(* What the Cloud Controller knows apps by, and what List tells it of them *)
(* (handler/app_handler.go, bifrost/bifrost.go, k8s/statefulset.go), on    *)
(* top of the request path of Desirer.                                     *)
(*                                                                         *)
(* The guid of a process is that of its app, 36 characters, followed by a  *)
(* version.  Here a guid is a sequence: <<a>> is an app guid and <<a, v>>  *)
(* a process guid.  Apps holds guids of both kinds, as names an API call   *)
(* can be made with; a StatefulSet is named by an app guid.  Desire takes  *)
(* the name from the request's VCAP_APPLICATION and keeps the process guid *)
(* as an annotation, Update looks the guid up as it comes, Stop cuts it.   *)
(***************************************************************************)
EXTENDS Desirer, Sequences

CONSTANTS
    Routings            \* routes an Update may come with: sets of host name sets

AppGuids     == {g \in Apps : Len(g) = 1}
ProcessGuids == {g \in Apps : Len(g) = 2}

\* A process is one of an app.
ASSUME ListingAssumption ==
    /\ \A g \in Apps : Len(g) \in {1, 2}
    /\ \A g \in ProcessGuids : SubSeq(g, 1, 1) \in AppGuids
    /\ \A r \in Routings : r \subseteq SUBSET Uris

VARIABLES
    processGuid,        \* process_guid annotation of an app's StatefulSet
    ask,                \* guid, and routes of an Update, as a request came
    raced,              \* history: handlers whose request overlapped another
    written             \* history: what the last Update of an app asked for, if
                        \* it made all its calls and overlapped nothing

listingVars == <<processGuid, ask, raced, written>>
lvars == <<vars, listingVars>>

NoGuid   == <<>>
NoAsk    == [guid |-> NoGuid, listed |-> FALSE, routes |-> {}]
NoRoutes == {}          \* no routes at all, or none for cf-router
Unknown  == [spec |-> NoSpec, uris |-> {}]
-----------------------------------------------------------------------------
\* StatefulSetManager.List: the apps that have a StatefulSet.
Listed == {a \in Apps : Sts(a) \in live}

\* What is told of an app: two annotations of its StatefulSet.
toDesiredLRPSchedulingInfo(a) ==
    [processGuid |-> processGuid[a], annotation |-> spec[a]]

\* App.List: what the Cloud Controller gets to see.
List == {toDesiredLRPSchedulingInfo(a) : a \in Listed}

\* The URIs of the cf-router routes of an Update.
getURIs(rs) == IF rs = NoRoutes THEN {} ELSE UNION rs

\* Mutant: the process guid is used as it comes.
CutNever(g) == g

\* Stop's guid: the first 36 characters.
Cut(g) == IF Len(g) > 1 THEN SubSeq(g, 1, 1) ELSE g

ListingInit ==
    /\ Init
    /\ processGuid = [a \in Apps |-> NoGuid]
    /\ ask = [h \in Handlers |-> NoAsk]
    /\ raced = {}
    /\ written = [a \in Apps |-> Unknown]

\* A request for a is taken on: it and all others for a overlap.
Arrival(h, a, g, rs) ==
    /\ ask' = [ask EXCEPT ![h] = [guid   |-> g,
                                  listed |-> \E i \in List : i.processGuid = g,
                                  routes |-> rs]]
    /\ raced' = IF Busy(a) = {} THEN raced \ {h} ELSE raced \cup Busy(a) \cup {h}
    /\ written' = [written EXCEPT ![a] = Unknown]
    /\ UNCHANGED processGuid

\* Mutant: the annotation is the app's guid.
DesireComesApp(h) ==
    \E g \in ProcessGuids, s \in Specs, u \in SUBSET Uris :
        LET a == SubSeq(g, 1, 1) IN
        /\ Begin(h, [spec |-> s, op |-> "desire", app |-> a, uris |-> u], "exists")
        /\ Arrival(h, a, a, NoRoutes)

\* Desire, whose request has the app's guid in VCAP_APPLICATION.
DesireComes(h) ==
    \E g \in ProcessGuids, s \in Specs, u \in SUBSET Uris :
        LET a == SubSeq(g, 1, 1) IN
        /\ Begin(h, [spec |-> s, op |-> "desire", app |-> a, uris |-> u], "exists")
        /\ Arrival(h, a, g, NoRoutes)

\* Update of the guid as it comes.
UpdateComes(h) ==
    \E g \in Apps, s \in Specs, rs \in Routings :
        /\ Begin(h, [spec |-> s, op |-> "update", app |-> g, uris |-> getURIs(rs)],
                 "getLRP")
        /\ Arrival(h, g, g, rs)

\* Stop of the guid that is cut.
StopComes(h) ==
    \E g \in Apps :
        /\ Begin(h, [spec |-> NoSpec, op |-> "stop", app |-> Cut(g), uris |-> {}],
                 "deleteSts")
        /\ Arrival(h, Cut(g), g, NoRoutes)

\* What came with a request is forgotten when the request has ended.
EndsForgotten ==
    /\ ask' = [h \in Handlers |-> IF pc'[h] = "idle" THEN NoAsk ELSE ask[h]]
    /\ raced' = {h \in raced : pc'[h] # "idle"}

\* The annotations come with the StatefulSet and go with it.
StsCreated(h) ==
    /\ CreateSts(h)
    /\ processGuid' = [processGuid EXCEPT ![App(h)] = ask[h].guid]
    /\ EndsForgotten
    /\ UNCHANGED written

StsDeleted(h) ==
    /\ DeleteSts(h)
    /\ processGuid' = [processGuid EXCEPT ![App(h)] = NoGuid]
    /\ EndsForgotten
    /\ UNCHANGED written

\* The last call of a Desire or an Update that has not failed before.
LastCall(h) ==
    /\ req[h].op # "stop"
    /\ \/ PutIngress(h) \/ CreateIngress(h) \/ DropIngress(h)
       \/ ListIngress(h) /\ req[h].uris = {} /\ Ingress \notin live

UpdateDone(h) ==
    /\ req[h].op = "update"
    /\ LastCall(h)
    /\ written' = IF h \in raced THEN written
                  ELSE [written EXCEPT ![App(h)] =
                          [spec |-> req[h].spec, uris |-> UNION ask[h].routes]]
    /\ EndsForgotten
    /\ UNCHANGED processGuid

OtherStep(h) ==
    /\ \/ Exists(h) \/ CreateHeadless(h) \/ CreateSvc(h)
       \/ GetLRP(h) \/ GetSts(h) \/ PutSts(h) \/ GetSvc(h) \/ PutSvc(h)
       \/ DeleteHeadless(h) \/ DeleteSvc(h) \/ GetIngress(h) \/ Send(h)
       \/ ListIngress(h) /\ (req[h].uris # {} \/ Ingress \in live)
       \/ req[h].op = "stop" /\ (PutIngress(h) \/ DropIngress(h))
       \/ req[h].op = "desire" /\ LastCall(h)
       \/ Refused(h) \/ CallFails(h)
    /\ EndsForgotten
    /\ UNCHANGED <<processGuid, written>>

ListingNext ==
    \/ \E h \in Handlers :
          \/ DesireComes(h) \/ UpdateComes(h) \/ StopComes(h)
          \/ StsCreated(h) \/ StsDeleted(h) \/ UpdateDone(h) \/ OtherStep(h)
    \/ (Crash \/ Quiet) /\ EndsForgotten /\ UNCHANGED <<processGuid, written>>

ListingSpec == ListingInit /\ [][ListingNext]_lvars
-----------------------------------------------------------------------------
\* Every variable has its type, and only app guids name StatefulSets.
ListingTypeOK ==
    /\ TypeOK
    /\ processGuid \in [Apps -> Apps \cup {NoGuid}]
    /\ raced \subseteq Handlers
    /\ \A h \in Handlers : ask[h].guid \in Apps \cup {NoGuid}
    /\ \A a \in Apps : Sts(a) \in live => a \in AppGuids /\ processGuid[a] # NoGuid

(***************************************************************************)
(* A process guid that List has shown can be stopped by that guid: Stop    *)
(* finds the StatefulSet, unless another request for the app came between  *)
(* (App.List and App.Stop in handler/app_handler.go).  List shows the      *)
(* annotation of the Desire that made the StatefulSet, whatever came       *)
(* after, while the StatefulSet goes by the app's own guid.                *)
(***************************************************************************)
ListedCanBeStopped ==
    \A h \in Handlers \ raced :
        pc[h] = "deleteSts" /\ ask[h].listed => Sts(App(h)) \in live

\* List tells of the app, and its Service has the routes, as lrp says.
Listable(a, lrp) ==
    /\ {Sts(a), Svc(a)} \subseteq live
    /\ [processGuid |-> processGuid[a], annotation |-> lrp.spec] \in List
    /\ routes[a] = lrp.uris

(***************************************************************************)
(* An Update that makes all its calls puts right whatever failed requests  *)
(* and crashes have left behind: with its last call the annotation List    *)
(* shows, the routes of the Service and the rules of the Ingress are       *)
(* exactly those it asked for, missing rules are back and obsolete ones    *)
(* are gone.  Annotation and routes then stay so until another request for *)
(* the app comes, and the rules stay or are deleted all together (see      *)
(* RulesComplete).  So the annotation, which is written first (Update in   *)
(* k8s/statefulset.go), is wrong about the routes only until an Update is  *)
(* tried again.                                                            *)
(***************************************************************************)
UpdateRepairs ==
    [][\A a \in Apps : written'[a] # Unknown =>
          /\ Listable(a, written[a])'
          /\ \/ RulesOfApp(a)' = createIngressRules(a, written'[a].uris)
             \/ written[a] = written'[a] /\ RulesOfApp(a)' = {}]_lvars
-----------------------------------------------------------------------------
(***************************************************************************)
(* The inductive invariant behind the theorems of ListingProofs.           *)
(***************************************************************************)
Asks == [guid   : Apps \cup {NoGuid}, listed : BOOLEAN,
         routes : Routings \cup {NoRoutes}]

ListingTypes ==
    /\ processGuid \in [Apps -> Apps \cup {NoGuid}]
    /\ ask \in [Handlers -> Asks]
    /\ raced \subseteq Handlers
    /\ written \in [Apps -> LRPs]

\* The app of a request is the one its guid is about.
AskShape(h) ==
    /\ req[h].op = "desire" => /\ ask[h].guid \in ProcessGuids
                               /\ App(h) = Cut(ask[h].guid)
    /\ req[h].op = "update" => req[h].uris = UNION ask[h].routes

\* A StatefulSet goes by the app guid of the process guid it is annotated with.
NamedByApp(a) ==
    Sts(a) \in live => processGuid[a] \in ProcessGuids /\ Cut(processGuid[a]) = a

\* How far an Update that nothing overlaps has got.
UpdateProgress(h) ==
    /\ pc[h] \in Script("update") \ {"getLRP", "getSts", "putSts"} =>
          Sts(App(h)) \in live /\ spec[App(h)] = req[h].spec
    /\ pc[h] \in Script("update") \ {"getLRP", "getSts", "putSts", "getSvc", "putSvc"} =>
          Svc(App(h)) \in live /\ routes[App(h)] = req[h].uris

\* An Update has put the app right, unless its rules were deleted since.
Repaired(a) ==
    /\ {Sts(a), Svc(a)} \subseteq live
    /\ spec[a] = written[a].spec
    /\ routes[a] = written[a].uris
    /\ RulesOfApp(a) \in {createIngressRules(a, written[a].uris), {}}

(***************************************************************************)
(* Guids belong to their apps, requests for one app at a time are known as *)
(* raced, and one that is not has done what it has come past.              *)
(***************************************************************************)
ListingInv ==
    /\ ListingTypes
    /\ \A h \in Handlers : pc[h] # "idle" => AskShape(h)
    /\ \A a \in Apps : NamedByApp(a)
    /\ \A a \in Apps : \A h, i \in Busy(a) : h = i \/ {h, i} \subseteq raced
    /\ \A h \in Handlers \ raced :
          pc[h] # "idle" /\ req[h].op = "update" => UpdateProgress(h)
    /\ \A a \in Apps : Busy(a) # {} => written[a] = Unknown
    /\ ListedCanBeStopped
    /\ \A a \in Apps : written[a] # Unknown => Repaired(a)
=============================================================================
