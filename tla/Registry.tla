------------------------------ MODULE Registry ------------------------------
(***************************************************************************)
(* The OCI registry (registry/registry.go) and its in-memory blob store    *)
(* (blobondemand/blonde.go): Bifrost uploads droplets, container runtimes  *)
(* pull images.                                                            *)
(*                                                                         *)
(* Every request runs on a goroutine of its own, a "client" here, and      *)
(* nothing locks the two maps.  One action is one access of a map.  A blob *)
(* is a bytes.Buffer, and to read it is to drain it: what is left of it is *)
(* "all", "tail" (a client went away in the middle) or "none".             *)
(*                                                                         *)
(* The digest of a content stands for the content and is never that of     *)
(* another one; contents are layers, and the config made for an image.     *)
(***************************************************************************)
EXTENDS Naturals

CONSTANTS
    Clients,            \* goroutines that serve requests
    Guids,              \* droplet guids
    Layers,             \* contents of droplets, as layers
    Rootfs,             \* content of the rootfs layer
    NoDroplet,
    MaxServed           \* bound on requests served

ASSUME RegistryAssumption ==
    /\ Rootfs \notin Layers
    /\ NoDroplet \notin Layers
    /\ MaxServed \in Nat

\* The config json names the digests of both layers.
Config(layer) == <<"config", layer>>

Contents == Layers \cup {Rootfs} \cup {Config(l) : l \in Layers}

\* Keys of the blob store: digests, and the guids PutWithID is called with.
Digest(c)  == <<"sha256", c>>
Guid(g)    == <<"guid", g>>
Keys       == {Digest(c) : c \in Contents} \cup {Guid(g) : g \in Guids}

VARIABLES
    data,               \* the content and the rest of every blob stored
    droplets,           \* the layer each droplet guid stands for
    pc,                 \* what a client does next
    arg,                \* the droplet a client uploads or asks for
    layer,              \* the layer it uploads or found
    buffer,             \* key of the blob a client is being sent
    sent,               \* what it will have been sent of it
    uses,               \* history: reads of a blob since it was stored
    served              \* number of requests so far

vars == <<data, droplets, pc, arg, layer, buffer, sent, uses, served>>

NoKey == <<"none", 0>>
Left  == {"all", "tail", "none"}
Blobs == [of : Contents, left : Left]

\* A store with one blob.
RootfsStored == [k \in {Digest(Rootfs)} |-> [of |-> Rootfs, left |-> "all"]]

\* The process starts with the rootfs in its store and nothing else.
Init ==
    /\ data = RootfsStored
    /\ droplets = [g \in Guids |-> NoDroplet]
    /\ pc = [c \in Clients |-> "idle"]
    /\ arg = [c \in Clients |-> NoKey]
    /\ layer = [c \in Clients |-> NoDroplet]
    /\ buffer = [c \in Clients |-> NoKey]
    /\ sent = [c \in Clients |-> "none"]
    /\ uses = [k \in Keys |-> 0]
    /\ served = 0

Step(c, from, to) == pc[c] = from /\ pc' = [pc EXCEPT ![c] = to]

Begin(c, to) ==
    /\ served < MaxServed
    /\ served' = served + 1
    /\ Step(c, "idle", to)
-----------------------------------------------------------------------------
(***************************************************************************)
(* The store.  A key that is stored again gets a new buffer; a client that *)
(* is being sent the old one keeps that to itself.                         *)
(***************************************************************************)
Store(key, blob) ==
    /\ data' = [k \in DOMAIN data \cup {key} |-> IF k = key THEN blob ELSE data[k]]
    /\ uses' = [uses EXCEPT ![key] = 0]
    /\ buffer' = [c \in Clients |-> IF buffer[c] = key THEN NoKey ELSE buffer[c]]

Put(content) == Store(Digest(content), [of |-> content, left |-> "all"])

\* The reader of an upload has been read to its end by the Put before.
PutWithID(g, content) == Store(Guid(g), [of |-> content, left |-> "none"])
-----------------------------------------------------------------------------
(***************************************************************************)
(* POST .../blobs/: a droplet is converted to a layer and stored by its    *)
(* digest, then by its guid, then the guid is mapped to the digest.  An    *)
(* upload that cannot be converted is turned down before and has no        *)
(* effect.                                                                 *)
(***************************************************************************)
Upload(c) ==
    \E g \in Guids, l \in Layers :
        /\ Begin(c, "put")
        /\ arg' = [arg EXCEPT ![c] = Guid(g)]
        /\ layer' = [layer EXCEPT ![c] = l]
        /\ UNCHANGED <<data, droplets, buffer, sent, uses>>

\* Mutant: PutWithID comes first, so Put finds the reader at its end.
PutLayerDrained(c) ==
    /\ Step(c, "put", "putWithID")
    /\ Store(Digest(layer[c]), [of |-> layer[c], left |-> "none"])
    /\ UNCHANGED <<droplets, arg, layer, sent, served>>

\* Mutant: the layer is stored by its guid only.
PutLayerSkipped(c) ==
    /\ Step(c, "put", "putWithID")
    /\ UNCHANGED <<data, droplets, arg, layer, buffer, sent, uses, served>>

PutLayer(c) ==
    /\ Step(c, "put", "putWithID")
    /\ Put(layer[c])
    /\ UNCHANGED <<droplets, arg, layer, sent, served>>

PutLayerWithID(c) ==
    /\ Step(c, "putWithID", "set")
    /\ PutWithID(arg[c][2], layer[c])
    /\ UNCHANGED <<droplets, arg, layer, sent, served>>

SetDroplet(c) ==
    /\ Step(c, "set", "idle")
    /\ droplets' = [droplets EXCEPT ![arg[c][2]] = layer[c]]
    /\ arg' = [arg EXCEPT ![c] = NoKey]
    /\ layer' = [layer EXCEPT ![c] = NoDroplet]
    /\ UNCHANGED <<data, buffer, sent, uses, served>>
-----------------------------------------------------------------------------
(***************************************************************************)
(* GET .../manifests/<guid>: the config is made and stored on the way.  A  *)
(* guid that is not known is a nil dereference, which ends the request     *)
(* and changes nothing.                                                    *)
(***************************************************************************)
Manifest(c) ==
    \E g \in Guids :
        /\ droplets[g] # NoDroplet
        /\ Begin(c, "config")
        /\ layer' = [layer EXCEPT ![c] = droplets[g]]
        /\ UNCHANGED <<data, droplets, arg, buffer, sent, uses>>

\* Mutant: the config is stored under the digest of the droplet's layer.
PutConfigOver(c) ==
    /\ Step(c, "config", "idle")
    /\ Store(Digest(layer[c]), [of |-> Config(layer[c]), left |-> "all"])
    /\ layer' = [layer EXCEPT ![c] = NoDroplet]
    /\ UNCHANGED <<droplets, arg, sent, served>>

PutConfig(c) ==
    /\ Step(c, "config", "idle")
    /\ Put(Config(layer[c]))
    /\ layer' = [layer EXCEPT ![c] = NoDroplet]
    /\ UNCHANGED <<droplets, arg, sent, served>>

(***************************************************************************)
(* GET .../blobs/<digest>.  A key that is not there is answered with 404   *)
(* and changes nothing.                                                    *)
(***************************************************************************)
GetBlob(c) ==
    \E k \in DOMAIN data :
        /\ Begin(c, "sending")
        /\ buffer' = [buffer EXCEPT ![c] = k]
        /\ sent' = [sent EXCEPT ![c] = data[k].left]
        /\ uses' = [uses EXCEPT ![k] = @ + 1]
        /\ UNCHANGED <<data, droplets, arg, layer>>

\* The rest of the blob is sent, or the client goes away in the middle of it.
Sent(c) ==
    /\ Step(c, "sending", "idle")
    /\ sent' = [sent EXCEPT ![c] = "none"]
    /\ buffer' = [buffer EXCEPT ![c] = NoKey]
    /\ \/ /\ buffer[c] \in DOMAIN data
          /\ \E l \in {"none"} \cup (IF data[buffer[c]].left = "none" THEN {}
                                     ELSE {"tail"}) :
                data' = [data EXCEPT ![buffer[c]].left = l]
       \/ /\ buffer[c] \notin DOMAIN data
          /\ UNCHANGED data
    /\ UNCHANGED <<droplets, arg, layer, uses, served>>

\* The registry restarts, or the runtime stops it: it detects a write of a
\* map that another goroutine is using, and both maps are used unlocked.
Restart ==
    /\ data' = RootfsStored
    /\ droplets' = [g \in Guids |-> NoDroplet]
    /\ pc' = [c \in Clients |-> "idle"]
    /\ arg' = [c \in Clients |-> NoKey]
    /\ layer' = [c \in Clients |-> NoDroplet]
    /\ buffer' = [c \in Clients |-> NoKey]
    /\ sent' = [c \in Clients |-> "none"]
    /\ uses' = [k \in Keys |-> 0]
    /\ UNCHANGED served
-----------------------------------------------------------------------------
ClientStep(c) ==
    \/ Upload(c) \/ PutLayer(c) \/ PutLayerWithID(c) \/ SetDroplet(c)
    \/ Manifest(c) \/ PutConfig(c) \/ GetBlob(c) \/ Sent(c)

Next == (\E c \in Clients : ClientStep(c)) \/ Restart

Spec == Init /\ [][Next]_vars
-----------------------------------------------------------------------------
\* Every variable has its type.
RegistryTypeOK ==
    /\ DOMAIN data \subseteq Keys
    /\ \A k \in DOMAIN data : data[k] \in Blobs
    /\ droplets \in [Guids -> Layers \cup {NoDroplet}]
    /\ pc \in [Clients -> {"idle", "put", "putWithID", "set", "config", "sending"}]
    /\ arg \in [Clients -> {Guid(g) : g \in Guids} \cup {NoKey}]
    /\ layer \in [Clients -> Layers \cup {NoDroplet}]
    /\ buffer \in [Clients -> Keys \cup {NoKey}]
    /\ sent \in [Clients -> Left]
    /\ uses \in [Keys -> Nat]
    /\ served \in Nat

(***************************************************************************)
(* What is stored under a digest is the content with that digest, also     *)
(* when uploads of the same guid or layer race (Put in blonde.go).         *)
(***************************************************************************)
ContentAddressed ==
    \A x \in Contents : Digest(x) \in DOMAIN data => data[Digest(x)].of = x

(***************************************************************************)
(* A manifest names only layers the store has: the rootfs, and for every   *)
(* guid the droplet store knows, and every manifest being made, the layer  *)
(* (Stager and ManifestHandler in registry.go).                            *)
(***************************************************************************)
ManifestResolves ==
    /\ Digest(Rootfs) \in DOMAIN data
    /\ \A g \in Guids : droplets[g] # NoDroplet => Digest(droplets[g]) \in DOMAIN data
    /\ \A c \in Clients : pc[c] = "config" => Digest(layer[c]) \in DOMAIN data

(***************************************************************************)
(* A blob that nobody has asked for since it was stored is whole: the      *)
(* first pull of that blob after an upload gets all of it (Stager in       *)
(* registry.go).                                                           *)
(***************************************************************************)
FreshIsWhole ==
    \A x \in Contents :
        Digest(x) \in DOMAIN data /\ uses[Digest(x)] = 0 => data[Digest(x)].left = "all"

(***************************************************************************)
(* The two maps, written by many goroutines in several steps each, are     *)
(* together what ContentStore describes: no step takes a content away,     *)
(* changes it or gives a name to one that is not there, and a blob loses   *)
(* bytes only after it was asked for (registry.go, blonde.go).             *)
(***************************************************************************)
InStore == {x \in Contents : Digest(x) \in DOMAIN data /\ data[Digest(x)].of = x}

CS == INSTANCE ContentStore WITH
        Names    <- Guids,
        Nameable <- Layers,
        Base     <- Rootfs,
        NoName   <- NoDroplet,
        stored   <- InStore,
        whole    <- {x \in InStore : data[Digest(x)].left = "all"},
        asked    <- {x \in InStore : uses[Digest(x)] # 0},
        names    <- droplets

ImplementsContentStore == CS!Spec

-----------------------------------------------------------------------------
(***************************************************************************)
(* "Whenever you pull you get the specific droplet on top of the latest    *)
(* patched rootfs" (registry/README.md): a client that asks for the rootfs *)
(* layer is sent all of it.                                                *)
(***************************************************************************)
PullsRootfs ==
    \A c \in Clients :
        pc[c] = "sending" /\ buffer[c] = Digest(Rootfs) => sent[c] = "all"
-----------------------------------------------------------------------------
(***************************************************************************)
(* The inductive invariant behind the theorems of RegistryProofs.          *)
(***************************************************************************)
\* A client in the middle of a request has what the code has at that point.
ClientShape(c) ==
    /\ pc[c] \in {"put", "putWithID", "set"} => arg[c] # NoKey
    /\ pc[c] \in {"put", "putWithID", "set", "config"} => layer[c] \in Layers
    /\ pc[c] \in {"putWithID", "set"} => Digest(layer[c]) \in DOMAIN data

\* Whoever is being sent a blob that is still stored counts as a use of it.
SendingCounts == \A c \in Clients : buffer[c] # NoKey => uses[buffer[c]] # 0

(***************************************************************************)
(* The store is content-addressed, manifests resolve, a blob loses bytes   *)
(* to its uses only, and an upload stores the layer before it is known.    *)
(***************************************************************************)
RegistryInv ==
    /\ RegistryTypeOK
    /\ ContentAddressed
    /\ ManifestResolves
    /\ FreshIsWhole
    /\ SendingCounts
    /\ \A c \in Clients : ClientShape(c)
=============================================================================
