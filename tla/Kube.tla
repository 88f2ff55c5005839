-------------------------------- MODULE Kube --------------------------------
(***************************************************************************)
(* The part of the Kubernetes API server that Eirini's k8s package talks   *)
(* to: the objects of one namespace, reduced to which of them exist and to *)
(* their resource versions.  It is external code, modelled from the calls  *)
(* k8s/*.go makes:                                                         *)
(*   - every call is one atomic step of the API server;                    *)
(*   - Create fails when the name is taken, Get, Update and Delete fail    *)
(*     when it is not there;                                               *)
(*   - Update carries the resourceVersion of the object that was read and  *)
(*     fails with a conflict when the object has changed since;            *)
(*   - Delete carries no precondition (no DeleteOptions of the code sets   *)
(*     one), so it removes whatever is there.                              *)
(*                                                                         *)
(* Versions are only ever compared for equality on one object, so each     *)
(* object counts its own writes; the count survives a delete, and a        *)
(* recreated object never reuses a version.                                *)
(***************************************************************************)
EXTENDS Naturals

CONSTANT Apps           \* names of LRPs: CF application guids

\* The objects Eirini keeps for an app, and the one Ingress shared by all.
Sts(a)      == <<"statefulset", a>>
Headless(a) == <<"headless", a>>
Svc(a)      == <<"service", a>>
Ingress     == <<"ingress", "eirini">>

Objects == {Sts(a) : a \in Apps} \cup {Headless(a) : a \in Apps}
             \cup {Svc(a) : a \in Apps} \cup {Ingress}

VARIABLES
    live,               \* the objects that exist
    rev                 \* how often each object has been written

kubeVars == <<live, rev>>

KubeTypeOK ==
    /\ live \subseteq Objects
    /\ rev \in [Objects -> Nat]

\* Eirini may start on an empty namespace.
KubeInit ==
    /\ live = {}
    /\ rev = [o \in Objects |-> 0]

Create(o) ==
    /\ o \notin live
    /\ live' = live \cup {o}
    /\ rev' = [rev EXCEPT ![o] = @ + 1]

\* An update of o by a client that read it at version v.
Put(o, v) ==
    /\ o \in live
    /\ rev[o] = v
    /\ rev' = [rev EXCEPT ![o] = @ + 1]
    /\ UNCHANGED live

Delete(o) ==
    /\ o \in live
    /\ live' = live \ {o}
    /\ UNCHANGED rev

\* A read that finds the object.
Found(o) ==
    /\ o \in live
    /\ UNCHANGED kubeVars
=============================================================================
