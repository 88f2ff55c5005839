--------------------------- MODULE RegistryProofs ---------------------------
(***************************************************************************)
(* Proofs about Registry, for any number of clients, droplets and          *)
(* requests.                                                               *)
(***************************************************************************)
EXTENDS Registry, TLAPS

\* Keys of different kinds or contents are different.
LEMMA KeyNames ==
    /\ \A x, y : Digest(x) = Digest(y) => x = y
    /\ \A x, g : Digest(x) # Guid(g) /\ Digest(x) # NoKey /\ Guid(g) # NoKey
    /\ \A g : Guid(g)[2] = g
    /\ \A x \in Contents : Digest(x) \in Keys
    /\ \A g \in Guids : Guid(g) \in Keys
    /\ NoKey \notin Keys
    /\ Rootfs \in Contents /\ \A l \in Layers : l \in Contents /\ Config(l) \in Contents
  BY DEF Digest, Guid, NoKey, Keys, Contents

\* Storing a blob under a key changes that key only.
LEMMA StoreEffect ==
    ASSUME RegistryTypeOK, NEW k \in Keys, NEW b \in Blobs, Store(k, b)
    PROVE  /\ DOMAIN data' = DOMAIN data \cup {k}
           /\ \A j \in DOMAIN data' : data'[j] = IF j = k THEN b ELSE data[j]
           /\ DOMAIN data' \subseteq Keys
           /\ \A j \in DOMAIN data' : data'[j] \in Blobs
           /\ uses' \in [Keys -> Nat]
           /\ \A j \in Keys : uses'[j] = IF j = k THEN 0 ELSE uses[j]
           /\ buffer' \in [Clients -> Keys \cup {NoKey}]
           /\ \A c \in Clients : buffer'[c] # NoKey => buffer'[c] = buffer[c]
                                                       /\ buffer[c] # k
  BY DEF Store, RegistryTypeOK

\* Storing a whole blob, or a blob under a guid, keeps the store in order.
LEMMA StoreInv ==
    ASSUME RegistryInv, NEW k \in Keys, NEW b \in Blobs, Store(k, b),
           UNCHANGED droplets,
           \A x \in Contents : k = Digest(x) => b.of = x /\ b.left = "all"
    PROVE  /\ ContentAddressed'
           /\ FreshIsWhole'
           /\ SendingCounts'
           /\ Digest(Rootfs) \in DOMAIN data'
           /\ \A g \in Guids : droplets'[g] # NoDroplet =>
                                  Digest(droplets'[g]) \in DOMAIN data'
           /\ DOMAIN data \subseteq DOMAIN data'
<1>1. RegistryTypeOK
  BY DEF RegistryInv
<1>2. /\ DOMAIN data' = DOMAIN data \cup {k}
      /\ \A j \in DOMAIN data' : data'[j] = IF j = k THEN b ELSE data[j]
  BY <1>1, StoreEffect
<1>3. /\ \A j \in Keys : uses'[j] = IF j = k THEN 0 ELSE uses[j]
      /\ buffer' \in [Clients -> Keys \cup {NoKey}]
      /\ \A c \in Clients : buffer'[c] # NoKey => buffer'[c] = buffer[c] /\ buffer[c] # k
  BY <1>1, StoreEffect
<1>4. ContentAddressed'
  BY <1>2 DEF RegistryInv, ContentAddressed
<1>5. FreshIsWhole'
  BY <1>2, <1>3, KeyNames DEF RegistryInv, FreshIsWhole
<1>6. SendingCounts'
  BY <1>3 DEF RegistryInv, SendingCounts
<1>7. QED
  BY <1>2, <1>4, <1>5, <1>6 DEF RegistryInv, ManifestResolves

\* The initial state, and so the state after a restart, is in order.
LEMMA InitInv == Init => RegistryInv
<1> SUFFICES ASSUME Init PROVE RegistryInv
  OBVIOUS
<1>1. RegistryTypeOK
  BY KeyNames, RegistryAssumption DEF Init, RegistryTypeOK, RootfsStored, Blobs, Left
<1>2. QED
  BY <1>1, KeyNames DEF Init, RegistryInv, RootfsStored, ContentAddressed, ManifestResolves,
     FreshIsWhole, SendingCounts, ClientShape

\* A step that leaves the store alone and moves one client.
LEMMA UploadInv ==
    ASSUME RegistryInv, NEW c \in Clients, Upload(c) \/ SetDroplet(c) \/ Manifest(c)
    PROVE  RegistryInv'
<1>1. RegistryTypeOK'
  <2>1. CASE Upload(c)
    BY <2>1 DEF Upload, Begin, Step, RegistryInv, RegistryTypeOK
  <2>2. CASE SetDroplet(c)
    <3>1. \E g \in Guids : arg[c] = Guid(g) /\ arg[c][2] = g
      BY <2>2, KeyNames DEF SetDroplet, Step, RegistryInv, RegistryTypeOK, ClientShape
    <3>2. QED
      BY <2>2, <3>1 DEF SetDroplet, Step, RegistryInv, RegistryTypeOK
  <2>3. CASE Manifest(c)
    BY <2>3 DEF Manifest, Begin, Step, RegistryInv, RegistryTypeOK
  <2>4. QED  BY <2>1, <2>2, <2>3
<1>2. ContentAddressed' /\ FreshIsWhole' /\ SendingCounts'
  BY DEF Upload, SetDroplet, Manifest, RegistryInv, ContentAddressed, FreshIsWhole,
     SendingCounts
<1>3. ManifestResolves'
  BY DEF Upload, SetDroplet, Manifest, Begin, Step, RegistryInv, RegistryTypeOK,
     ManifestResolves, ClientShape
<1>4. \A d \in Clients : ClientShape(d)'
  BY KeyNames DEF Upload, SetDroplet, Manifest, Begin, Step, RegistryInv, RegistryTypeOK,
     ClientShape
<1>5. QED  BY <1>1, <1>2, <1>3, <1>4 DEF RegistryInv

\* A step that stores a blob.
LEMMA PutInv ==
    ASSUME RegistryInv, NEW c \in Clients,
           PutLayer(c) \/ PutLayerWithID(c) \/ PutConfig(c)
    PROVE  RegistryInv'
<1>1. \E k \in Keys, b \in Blobs :
         /\ Store(k, b)
         /\ \A x \in Contents : k = Digest(x) => b.of = x /\ b.left = "all"
         /\ pc[c] = "put" => k = Digest(layer[c])
  <2>1. layer[c] \in Layers
    BY DEF PutLayer, PutLayerWithID, PutConfig, Step, RegistryInv, ClientShape
  <2>2. CASE PutLayer(c)
    <3> DEFINE b == [of |-> layer[c], left |-> "all"]
    <3>1. b \in Blobs
      BY <2>1, KeyNames DEF Blobs, Left
    <3>2. Store(Digest(layer[c]), b)
      BY <2>2 DEF PutLayer, Put
    <3>3. QED  BY <2>1, <3>1, <3>2, KeyNames
  <2>3. CASE PutLayerWithID(c)
    <3> DEFINE b == [of |-> layer[c], left |-> "none"]
    <3>1. b \in Blobs
      BY <2>1, KeyNames DEF Blobs, Left
    <3>2. \E g \in Guids : arg[c] = Guid(g) /\ arg[c][2] = g
      BY <2>3, KeyNames DEF PutLayerWithID, Step, RegistryInv, RegistryTypeOK, ClientShape
    <3>3. Store(Guid(arg[c][2]), b)
      BY <2>3 DEF PutLayerWithID, PutWithID
    <3>4. pc[c] # "put"
      BY <2>3 DEF PutLayerWithID, Step
    <3>5. QED  BY <3>1, <3>2, <3>3, <3>4, KeyNames
  <2>4. CASE PutConfig(c)
    <3> DEFINE b == [of |-> Config(layer[c]), left |-> "all"]
    <3>1. b \in Blobs
      BY <2>1, KeyNames DEF Blobs, Left
    <3>2. Store(Digest(Config(layer[c])), b) /\ pc[c] # "put"
      BY <2>4 DEF PutConfig, Put, Step
    <3>3. QED  BY <2>1, <3>1, <3>2, KeyNames
  <2>5. QED  BY <2>2, <2>3, <2>4
<1>2. PICK k \in Keys, b \in Blobs :
         /\ Store(k, b)
         /\ \A x \in Contents : k = Digest(x) => b.of = x /\ b.left = "all"
         /\ pc[c] = "put" => k = Digest(layer[c])
  BY <1>1
<1>3. UNCHANGED <<droplets, arg, sent, served>>
  BY DEF PutLayer, PutLayerWithID, PutConfig
<1>4. RegistryTypeOK'
  BY <1>2, <1>3, StoreEffect DEF PutLayer, PutLayerWithID, PutConfig, Step, RegistryInv,
     RegistryTypeOK
<1>5. /\ ContentAddressed' /\ FreshIsWhole' /\ SendingCounts'
      /\ Digest(Rootfs) \in DOMAIN data'
      /\ \A g \in Guids : droplets'[g] # NoDroplet => Digest(droplets'[g]) \in DOMAIN data'
      /\ DOMAIN data \subseteq DOMAIN data'
  BY <1>2, <1>3, StoreInv
<1>6. pc[c] = "put" => Digest(layer[c]) \in DOMAIN data'
  <2>1. DOMAIN data' = DOMAIN data \cup {k}
    BY <1>2, StoreEffect DEF RegistryInv
  <2>2. QED  BY <1>2, <2>1
<1>7. ManifestResolves'
  BY <1>5 DEF PutLayer, PutLayerWithID, PutConfig, Step, RegistryInv, RegistryTypeOK,
     ManifestResolves
<1>8. \A d \in Clients : ClientShape(d)'
  BY <1>3, <1>5, <1>6 DEF PutLayer, PutLayerWithID, PutConfig, Step, RegistryInv,
     RegistryTypeOK, ClientShape
<1>9. QED  BY <1>4, <1>5, <1>7, <1>8 DEF RegistryInv

\* A step that reads a blob.
LEMMA ReadInv ==
    ASSUME RegistryInv, NEW c \in Clients, GetBlob(c) \/ Sent(c)
    PROVE  RegistryInv'
<1>1. CASE GetBlob(c)
  <2>1. PICK k \in DOMAIN data :
           /\ Begin(c, "sending")
           /\ buffer' = [buffer EXCEPT ![c] = k]
           /\ sent' = [sent EXCEPT ![c] = data[k].left]
           /\ uses' = [uses EXCEPT ![k] = @ + 1]
           /\ UNCHANGED <<data, droplets, arg, layer>>
    BY <1>1 DEF GetBlob
  <2>2. k \in Keys /\ data[k].left \in Left
    BY <2>1 DEF RegistryInv, RegistryTypeOK, Blobs
  <2>3. RegistryTypeOK'
    BY <2>1, <2>2 DEF Begin, Step, RegistryInv, RegistryTypeOK
  <2>4. ContentAddressed' /\ ManifestResolves' /\ \A d \in Clients : ClientShape(d)'
    BY <2>1 DEF Begin, Step, RegistryInv, RegistryTypeOK, ContentAddressed,
       ManifestResolves, ClientShape
  <2>5. \A j \in Keys : uses'[j] = 0 => uses[j] = 0
    BY <2>1, <2>2 DEF RegistryInv, RegistryTypeOK
  <2>6. FreshIsWhole'
    BY <2>1, <2>5, KeyNames DEF RegistryInv, FreshIsWhole
  <2>7. uses'[k] # 0
    BY <2>1, <2>2 DEF RegistryInv, RegistryTypeOK
  <2>8. SendingCounts'
    BY <2>1, <2>5, <2>7 DEF RegistryInv, RegistryTypeOK, SendingCounts
  <2>9. QED  BY <2>3, <2>4, <2>6, <2>8 DEF RegistryInv
<1>2. CASE Sent(c)
  <2>1. /\ DOMAIN data' = DOMAIN data
        /\ \A j \in DOMAIN data : data'[j].of = data[j].of /\ data'[j] \in Blobs
        /\ \A j \in DOMAIN data : j # buffer[c] => data'[j] = data[j]
    <3>1. CASE buffer[c] \notin DOMAIN data
      BY <1>2, <3>1 DEF Sent, RegistryInv, RegistryTypeOK
    <3>2. CASE buffer[c] \in DOMAIN data
      <4>1. PICK l \in Left : data' = [data EXCEPT ![buffer[c]].left = l]
        BY <1>2, <3>2 DEF Sent, Left
      <4>2. data[buffer[c]] \in Blobs
        BY <3>2 DEF RegistryInv, RegistryTypeOK
      <4>3. QED  BY <3>2, <4>1, <4>2 DEF RegistryInv, RegistryTypeOK, Blobs
    <3>3. QED  BY <3>1, <3>2
  <2>2. /\ Step(c, "sending", "idle")
        /\ sent' = [sent EXCEPT ![c] = "none"]
        /\ buffer' = [buffer EXCEPT ![c] = NoKey]
        /\ UNCHANGED <<droplets, arg, layer, uses, served>>
    BY <1>2 DEF Sent
  <2>3. RegistryTypeOK'
    BY <2>1, <2>2 DEF Step, Left, RegistryInv, RegistryTypeOK
  <2>4. ContentAddressed' /\ ManifestResolves' /\ \A d \in Clients : ClientShape(d)'
    BY <2>1, <2>2 DEF Step, RegistryInv, RegistryTypeOK, ContentAddressed,
       ManifestResolves, ClientShape
  <2>5. FreshIsWhole'
    <3>1. \A x \in Contents : uses[Digest(x)] = 0 => Digest(x) # buffer[c]
      BY KeyNames DEF RegistryInv, SendingCounts
    <3>2. QED  BY <2>1, <2>2, <3>1 DEF RegistryInv, FreshIsWhole
  <2>6. SendingCounts'
    BY <2>2 DEF RegistryInv, RegistryTypeOK, SendingCounts
  <2>7. QED  BY <2>3, <2>4, <2>5, <2>6 DEF RegistryInv
<1>3. QED  BY <1>1, <1>2

\* A restart finds the store as it was at the start.
LEMMA RestartInv == RegistryInv /\ Restart => RegistryInv'
<1> SUFFICES ASSUME RegistryInv, Restart PROVE RegistryInv'
  OBVIOUS
<1>1. RegistryTypeOK'
  BY KeyNames DEF Restart, RegistryInv, RegistryTypeOK, RootfsStored, Blobs, Left
<1>2. QED
  BY <1>1, KeyNames DEF Restart, RegistryInv, RootfsStored, ContentAddressed,
     ManifestResolves, FreshIsWhole, SendingCounts, ClientShape

\* Every step preserves the inductive invariant.
LEMMA NextInv == RegistryInv /\ [Next]_vars => RegistryInv'
<1> SUFFICES ASSUME RegistryInv, [Next]_vars PROVE RegistryInv'
  OBVIOUS
<1>1. ASSUME NEW c \in Clients, ClientStep(c) PROVE RegistryInv'
  BY <1>1, UploadInv, PutInv, ReadInv DEF ClientStep
<1>2. CASE Restart
  BY <1>2, RestartInv
<1>3. CASE UNCHANGED vars
  BY <1>3 DEF vars, RegistryInv, RegistryTypeOK, ContentAddressed, ManifestResolves,
     FreshIsWhole, SendingCounts, ClientShape
<1>4. QED  BY <1>1, <1>2, <1>3 DEF Next

(***************************************************************************)
(* RegistryInv holds always: uploads, manifests and pulls that race, and   *)
(* restarts at any point.                                                  *)
(***************************************************************************)
THEOREM RegistryInvariance == Spec => []RegistryInv
  BY InitInv, NextInv, PTL DEF Spec

(***************************************************************************)
(* Every variable of the registry and of its clients keeps its type, for   *)
(* any clients, guids and layers: the store never has a key that is        *)
(* neither a digest nor a guid (Put and PutWithID in blonde.go).           *)
(***************************************************************************)
THEOREM RegistryTypeCorrect == Spec => []RegistryTypeOK
<1>1. RegistryInv => RegistryTypeOK
  BY DEF RegistryInv
<1>2. QED  BY <1>1, RegistryInvariance, PTL

(***************************************************************************)
(* A digest is never served with another content: racing uploads store the *)
(* same bytes under the same digest.                                       *)
(***************************************************************************)
THEOREM StoreIsContentAddressed == Spec => []ContentAddressed
<1>1. RegistryInv => ContentAddressed
  BY DEF RegistryInv
<1>2. QED  BY <1>1, RegistryInvariance, PTL

(***************************************************************************)
(* Every layer a manifest names is in the store, since an upload stores    *)
(* the layer before it makes the guid known and a restart forgets both.    *)
(***************************************************************************)
THEOREM ManifestsResolve == Spec => []ManifestResolves
<1>1. RegistryInv => ManifestResolves
  BY DEF RegistryInv
<1>2. QED  BY <1>1, RegistryInvariance, PTL

(***************************************************************************)
(* A blob that was not asked for since it was stored is whole.             *)
(***************************************************************************)
THEOREM FirstPullIsWhole == Spec => []FreshIsWhole
<1>1. RegistryInv => FreshIsWhole
  BY DEF RegistryInv
<1>2. QED  BY <1>1, RegistryInvariance, PTL
-----------------------------------------------------------------------------
(***************************************************************************)
(* The registry implements ContentStore.                                   *)
(***************************************************************************)
Whole == {x \in InStore : data[Digest(x)].left = "all"}
Asked == {x \in InStore : uses[Digest(x)] # 0}

\* Storing a whole content under its digest adds it.
LEMMA PutAdds ==
    ASSUME RegistryInv, NEW x \in Contents, Put(x), UNCHANGED droplets
    PROVE  CS!Add(x)
<1> DEFINE b == [of |-> x, left |-> "all"]
<1>1. Digest(x) \in Keys /\ b \in Blobs
  BY KeyNames DEF Blobs, Left
<1>2. /\ DOMAIN data' = DOMAIN data \cup {Digest(x)}
      /\ \A j \in DOMAIN data' : data'[j] = IF j = Digest(x) THEN b ELSE data[j]
      /\ \A j \in Keys : uses'[j] = IF j = Digest(x) THEN 0 ELSE uses[j]
  BY <1>1, StoreEffect DEF Put, RegistryInv
<1>3. InStore' = InStore \cup {x}
  BY <1>2, KeyNames DEF InStore
<1>4. Whole' = Whole \cup {x}
  BY <1>2, <1>3, KeyNames DEF Whole, InStore
<1>5. Asked' = Asked \ {x}
  BY <1>2, <1>3, KeyNames DEF Asked, InStore
<1>6. QED  BY <1>3, <1>4, <1>5 DEF CS!Add, Whole, Asked

\* What is stored under a guid is not part of the content store.
LEMMA PutWithIDHidden ==
    ASSUME RegistryInv, NEW g \in Guids, NEW l \in Layers, PutWithID(g, l),
           UNCHANGED droplets
    PROVE  UNCHANGED CS!vars
<1> DEFINE b == [of |-> l, left |-> "none"]
<1>1. Guid(g) \in Keys /\ b \in Blobs
  BY KeyNames DEF Blobs, Left
<1>2. /\ DOMAIN data' = DOMAIN data \cup {Guid(g)}
      /\ \A j \in DOMAIN data' : data'[j] = IF j = Guid(g) THEN b ELSE data[j]
      /\ \A j \in Keys : uses'[j] = IF j = Guid(g) THEN 0 ELSE uses[j]
  BY <1>1, StoreEffect DEF PutWithID, RegistryInv
<1>3. InStore' = InStore
  BY <1>2, KeyNames DEF InStore
<1>4. Whole' = Whole
  BY <1>2, <1>3, KeyNames DEF Whole, InStore
<1>5. Asked' = Asked
  BY <1>2, <1>3, KeyNames DEF Asked, InStore
<1>6. QED  BY <1>3, <1>4, <1>5 DEF CS!vars, Whole, Asked

\* An upload and a manifest add contents and name one that is there.
LEMMA WriteRefines ==
    ASSUME RegistryInv, NEW c \in Clients,
           \/ Upload(c) \/ PutLayer(c) \/ PutLayerWithID(c) \/ SetDroplet(c)
           \/ Manifest(c) \/ PutConfig(c)
    PROVE  [CS!Next]_(CS!vars)
<1>1. CASE Upload(c) \/ Manifest(c)
  BY <1>1 DEF Upload, Manifest, CS!vars, InStore
<1>2. CASE PutLayer(c)
  <2>1. PICK l \in Layers : l = layer[c]
    BY <1>2 DEF PutLayer, Step, RegistryInv, ClientShape
  <2>2. Put(l) /\ UNCHANGED droplets /\ l \in Contents
    BY <1>2, <2>1, KeyNames DEF PutLayer, Put
  <2>3. QED  BY <2>2, PutAdds DEF CS!Next
<1>3. CASE PutLayerWithID(c)
  <2>1. PICK l \in Layers : l = layer[c]
    BY <1>3 DEF PutLayerWithID, Step, RegistryInv, ClientShape
  <2>2. PICK g \in Guids : g = arg[c][2]
    BY <1>3, KeyNames DEF PutLayerWithID, Step, RegistryInv, RegistryTypeOK, ClientShape
  <2>3. PutWithID(g, l) /\ UNCHANGED droplets
    BY <1>3, <2>1, <2>2 DEF PutLayerWithID, PutWithID
  <2>4. QED  BY <2>3, PutWithIDHidden
<1>4. CASE SetDroplet(c)
  <2>1. PICK l \in Layers : l = layer[c]
    BY <1>4 DEF SetDroplet, Step, RegistryInv, ClientShape
  <2>2. PICK g \in Guids : g = arg[c][2]
    BY <1>4, KeyNames DEF SetDroplet, Step, RegistryInv, RegistryTypeOK, ClientShape
  <2>3. l \in InStore
    BY <1>4, <2>1, KeyNames
    DEF SetDroplet, Step, InStore, RegistryInv, ClientShape, ContentAddressed
  <2>4. CS!Name(g, l)
    BY <1>4, <2>1, <2>2, <2>3 DEF SetDroplet, CS!Name, InStore
  <2>5. QED  BY <2>4 DEF CS!Next
<1>5. CASE PutConfig(c)
  <2>1. PICK x \in Contents : x = Config(layer[c])
    BY <1>5, KeyNames DEF PutConfig, Step, RegistryInv, ClientShape
  <2>2. Put(x) /\ UNCHANGED droplets
    BY <1>5, <2>1 DEF PutConfig, Put
  <2>3. QED  BY <2>2, PutAdds DEF CS!Next
<1>6. QED  BY <1>1, <1>2, <1>3, <1>4, <1>5

\* To begin to read a content is to ask for it.
LEMMA GetRefines ==
    ASSUME RegistryInv, NEW c \in Clients, GetBlob(c) PROVE [CS!Next]_(CS!vars)
<1>1. PICK k \in DOMAIN data :
         /\ uses' = [uses EXCEPT ![k] = @ + 1]
         /\ UNCHANGED <<data, droplets>>
  BY DEF GetBlob
<1>2. k \in Keys
  BY DEF RegistryInv, RegistryTypeOK
<1>3. InStore' = InStore /\ Whole' = Whole
  BY <1>1 DEF InStore, Whole
<1>4. \A j \in Keys : uses'[j] # 0 <=> uses[j] # 0 \/ j = k
  BY <1>1, <1>2 DEF RegistryInv, RegistryTypeOK
<1>5. ASSUME NEW x \in Contents, k = Digest(x) PROVE CS!Ask(x)
  <2>1. x \in InStore
    BY <1>5 DEF InStore, RegistryInv, ContentAddressed
  <2>2. Asked' = Asked \cup {x}
    BY <1>3, <1>4, <1>5, <2>1, KeyNames DEF Asked, InStore
  <2>3. QED  BY <1>1, <1>3, <2>1, <2>2 DEF CS!Ask, Whole, Asked
<1>6. ASSUME \A x \in Contents : k # Digest(x) PROVE UNCHANGED CS!vars
  <2>1. Asked' = Asked
    BY <1>3, <1>4, <1>6, KeyNames DEF Asked, InStore
  <2>2. QED  BY <1>1, <1>3, <2>1 DEF CS!vars, Whole, Asked
<1>7. QED  BY <1>5, <1>6 DEF CS!Next

\* To be sent a content, or a part of it, drains it.
LEMMA SentRefines ==
    ASSUME RegistryInv, NEW c \in Clients, Sent(c) PROVE [CS!Next]_(CS!vars)
<1>1. UNCHANGED <<droplets, uses>>
  BY DEF Sent
<1>2. CASE buffer[c] \notin DOMAIN data
  BY <1>1, <1>2 DEF Sent, CS!vars, InStore
<1>3. CASE buffer[c] \in DOMAIN data
  <2>1. PICK k \in DOMAIN data : k = buffer[c]
    BY <1>3
  <2>2. PICK l \in {"none", "tail"} : data' = [data EXCEPT ![k].left = l]
    BY <1>3, <2>1 DEF Sent
  <2>3. data[k] \in Blobs /\ k \in Keys
    BY <2>1 DEF RegistryInv, RegistryTypeOK
  <2>4. /\ DOMAIN data' = DOMAIN data
        /\ \A j \in DOMAIN data : data'[j].of = data[j].of
        /\ \A j \in DOMAIN data : j # k => data'[j].left = data[j].left
        /\ data'[k].left # "all"
    BY <2>1, <2>2, <2>3 DEF Blobs, RegistryInv, RegistryTypeOK
  <2>5. InStore' = InStore /\ Asked' = Asked
    BY <1>1, <2>4 DEF InStore, Asked
  <2>6. uses[k] # 0
    BY <2>1, <2>3, KeyNames DEF RegistryInv, SendingCounts
  <2>7. ASSUME NEW x \in Contents, k = Digest(x) PROVE CS!Drain(x)
    <3>1. x \in Asked
      BY <2>1, <2>6, <2>7 DEF Asked, InStore, RegistryInv, ContentAddressed
    <3>2. Whole' = Whole \ {x}
      BY <2>4, <2>5, <2>7, KeyNames DEF Whole, InStore
    <3>3. QED  BY <1>1, <2>5, <3>1, <3>2 DEF CS!Drain, Whole, Asked
  <2>8. ASSUME \A x \in Contents : k # Digest(x) PROVE UNCHANGED CS!vars
    <3>1. Whole' = Whole
      BY <2>4, <2>5, <2>8 DEF Whole, InStore
    <3>2. QED  BY <1>1, <2>5, <3>1 DEF CS!vars, Whole, Asked
  <2>9. QED  BY <2>7, <2>8 DEF CS!Next
<1>4. QED  BY <1>2, <1>3

\* Every step of the registry is one of the content store, or none.
LEMMA NextRefines == RegistryInv /\ [Next]_vars => [CS!Next]_(CS!vars)
<1> SUFFICES ASSUME RegistryInv, [Next]_vars PROVE [CS!Next]_(CS!vars)
  OBVIOUS
<1>1. ASSUME NEW c \in Clients, ClientStep(c) PROVE [CS!Next]_(CS!vars)
  BY <1>1, WriteRefines, GetRefines, SentRefines DEF ClientStep
<1>2. CASE Restart
  <2>1. InStore' = {Rootfs}
    BY <1>2, KeyNames DEF Restart, InStore, RootfsStored
  <2>2. Whole' = {Rootfs}
    BY <1>2, <2>1 DEF Restart, Whole, RootfsStored
  <2>3. Asked' = {}
    BY <1>2, KeyNames DEF Restart, Asked, InStore
  <2>4. CS!Restart
    BY <1>2, <2>1, <2>2, <2>3 DEF Restart, CS!Restart, Whole, Asked
  <2>5. QED  BY <2>4 DEF CS!Next
<1>3. CASE UNCHANGED vars
  BY <1>3 DEF vars, CS!vars, InStore
<1>4. QED  BY <1>1, <1>2, <1>3 DEF Next

(***************************************************************************)
(* The registry implements ContentStore, for any number of goroutines,     *)
(* droplets and layers: uploads, manifests and pulls that interleave at    *)
(* every access of the unlocked maps add contents, name those that are     *)
(* there and drain those that were asked for, and do nothing else          *)
(* (registry/registry.go, blobondemand/blonde.go).                         *)
(***************************************************************************)
THEOREM RegistryRefinesContentStore == Spec => ImplementsContentStore
<1>1. ASSUME Init PROVE CS!Init
  <2>1. InStore = {Rootfs}
    BY <1>1, KeyNames DEF Init, InStore, RootfsStored
  <2>2. Whole = {Rootfs}
    BY <1>1, <2>1 DEF Init, Whole, RootfsStored
  <2>3. Asked = {}
    BY <1>1, KeyNames DEF Init, Asked, InStore
  <2>4. QED  BY <1>1, <2>1, <2>2, <2>3 DEF Init, CS!Init, Whole, Asked
<1>2. QED
  BY <1>1, NextRefines, RegistryInvariance, PTL
  DEF Spec, CS!Spec, ImplementsContentStore
=============================================================================
