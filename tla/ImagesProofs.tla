---------------------------- MODULE ImagesProofs ----------------------------
(***************************************************************************)
(* Theorems about Images: what a 201 of the registry is worth to the image *)
(* of an app, for any number of apps, conversions, droplets and restarts.  *)
(***************************************************************************)
EXTENDS Images, RegistryProofs

\* No two droplets have the same hash.
LEMMA LayerHash == \A l \in Layers : LayerOf(HashOf[l]) = l
<1> SUFFICES ASSUME NEW l \in Layers PROVE LayerOf(HashOf[l]) = l
  OBVIOUS
<1>1. \A k \in Layers : HashOf[k] = HashOf[l] => k = l
  BY ImagesAssumption
<1>2. QED  BY <1>1 DEF LayerOf

\* Guids are told apart by their keys.
LEMMA GuidKeys == \A g, k : Guid(g) = Guid(k) => g = k
  BY DEF Guid

(***************************************************************************)
(* The steps, by what they change.                                         *)
(***************************************************************************)
\* The registry works for uploads and pulls.
RegistryWorks(c) ==
    \/ RegistryStores(c) \/ PullManifest(c) \/ RegistryMakesConfig(c)
    \/ PullBlob(c) \/ RegistrySends(c)

\* Conversions and apps go on without it.
AppStep(a) == Push(a) \/ StopApp(a) \/ ConvertDocker(a) \/ \E c \in Clients : Convert(c, a)

ConversionStep(c) == GetDroplet(c) \/ ConvertFails(c) \/ Converted(c)

LEMMA ImagesKinds ==
    ASSUME ImagesNext
    PROVE  \/ \E c \in Clients : RegistryWorks(c)
           \/ \E a \in Apps : AppStep(a)
           \/ \E c \in Clients : ConversionStep(c) \/ stageRequest(c) \/ RegistryAnswers(c)
           \/ RegistryRestarts
  BY DEF ImagesNext, RegistryWorks, AppStep, ConversionStep

\* A step of Images is one of the registry, or none of its.
LEMMA ImagesStep == [ImagesNext]_ivars => [Next]_vars
<1> SUFFICES ASSUME [ImagesNext]_ivars PROVE [Next]_vars
  OBVIOUS
<1>1. ASSUME NEW c \in Clients, RegistryWorks(c) PROVE Next
  BY <1>1 DEF RegistryWorks, RegistryStores, PullManifest, RegistryMakesConfig,
              PullBlob, RegistrySends, Next, ClientStep
<1>2. ASSUME NEW a \in Apps, AppStep(a) PROVE UNCHANGED vars
  BY <1>2 DEF AppStep, Push, StopApp, ConvertDocker, Convert
<1>3. ASSUME NEW c \in Clients, ConversionStep(c) PROVE UNCHANGED vars
  BY <1>3 DEF ConversionStep, GetDroplet, ConvertFails, Converted
<1>4. ASSUME NEW c \in Clients, stageRequest(c) \/ RegistryAnswers(c) PROVE Next
  BY <1>4 DEF stageRequest, RegistryAnswers, Next, ClientStep
<1>5. CASE RegistryRestarts
  BY <1>5 DEF RegistryRestarts, Next
<1>6. CASE UNCHANGED ivars
  BY <1>6 DEF ivars
<1>7. QED  BY <1>1, <1>2, <1>3, <1>4, <1>5, <1>6, ImagesKinds

(***************************************************************************)
(* Conversions use the registry as any client may: what is proved of the   *)
(* registry holds under the uploads and pulls that Bifrost and the         *)
(* container runtimes make (bifrost/convert.go).                           *)
(***************************************************************************)
THEOREM ImagesImplementRegistry == ImagesSpec => Spec
<1>1. ImagesInit => Init
  BY DEF ImagesInit
<1>2. QED  BY <1>1, ImagesStep, PTL DEF ImagesSpec, Spec
-----------------------------------------------------------------------------
(***************************************************************************)
(* The invariant.                                                          *)
(***************************************************************************)
\* Nothing has been converted at first.
LEMMA ImagesInitInv == ImagesInit => ImagesInv
<1> SUFFICES ASSUME ImagesInit PROVE ImagesInv
  OBVIOUS
<1>1. ImagesTypes
  BY DEF ImagesInit, ImagesTypes
<1>2. \A c \in Clients : conv[c] = "idle" /\ pc[c] = "idle"
  BY DEF ImagesInit, Init
<1>3. /\ \A a \in Apps : image[a] = NoImage
      /\ \A x \in Clients \cup Apps : since[x] <= epoch
      /\ \A g \in Guids : droplets[g] = NoDroplet
  BY DEF ImagesInit, Init
<1>4. QED
  BY <1>1, <1>2, <1>3, ImageNames
     DEF ImagesInv, ConversionShape, RightDroplet, Uploading, ImageHasItsDroplet

\* The registry at work for one client.
LEMMA WorkInv ==
    ASSUME RegistryInv, ImagesInv, NEW c \in Clients, RegistryWorks(c)
    PROVE  ImagesInv'
<1>1. UNCHANGED <<current, conv, job, got, image, epoch, since, mixed, pushes>>
  BY DEF RegistryWorks, RegistryStores, PullManifest, RegistryMakesConfig, PullBlob,
         RegistrySends, imageVars
<1>2. UNCHANGED <<droplets, arg>>
  BY DEF RegistryWorks, RegistryStores, PullManifest, RegistryMakesConfig, PullBlob,
         RegistrySends, PutLayer, PutLayerWithID, Manifest, PutConfig, GetBlob, Sent
<1>3. /\ pc \in [Clients -> {"idle", "put", "putWithID", "set", "config", "sending"}]
      /\ layer \in [Clients -> Layers \cup {NoDroplet}]
  BY DEF RegistryInv, RegistryTypeOK
<1>4. ASSUME NEW d \in Clients
      PROVE  /\ Uploading(d)' <=> Uploading(d)
             /\ Uploading(d) => layer'[d] = layer[d]
             /\ pc[d] = "idle" /\ conv[d] # "idle" => pc'[d] = "idle"
  <2>1. CASE RegistryStores(c)
    BY <1>3, <2>1 DEF RegistryStores, PutLayer, PutLayerWithID, Step, Uploading
  <2>2. CASE PullManifest(c)
    BY <1>3, <2>2 DEF PullManifest, Manifest, Begin, Step, Uploading
  <2>3. CASE RegistryMakesConfig(c)
    BY <1>3, <2>3 DEF RegistryMakesConfig, PutConfig, Step, Uploading
  <2>4. CASE PullBlob(c)
    BY <1>3, <2>4 DEF PullBlob, GetBlob, Begin, Step, Uploading
  <2>5. CASE RegistrySends(c)
    BY <1>3, <2>5 DEF RegistrySends, Sent, Step, Uploading
  <2>6. QED  BY <2>1, <2>2, <2>3, <2>4, <2>5 DEF RegistryWorks
<1>5. ImagesTypes'
  BY <1>1 DEF ImagesInv, ImagesTypes
<1>6. ASSUME NEW d \in Clients PROVE ConversionShape(d)' /\ RightDroplet(d)'
  <2>1. ConversionShape(d) /\ RightDroplet(d)
    BY DEF ImagesInv
  <2>2. ConversionShape(d)'
    BY <1>1, <1>2, <1>4, <2>1 DEF ConversionShape
  <2>3. RightDroplet(d)'
    BY <1>1, <1>2, <1>4, <2>1 DEF RightDroplet
  <2>4. QED  BY <2>2, <2>3
<1>7. QED  BY <1>1, <1>2, <1>5, <1>6 DEF ImagesInv, ImageHasItsDroplet

\* A conversion posts its droplet.
LEMMA StageInv ==
    ASSUME RegistryInv, ImagesInv, NEW c \in Clients, stageRequest(c)
    PROVE  ImagesInv'
<1>1. /\ UNCHANGED <<droplets, current, job, got, image, epoch, since, mixed, pushes>>
      /\ conv[c] = "stage" /\ conv' = [conv EXCEPT ![c] = "staging"]
      /\ arg'[c] = Guid(job[c].hash) /\ layer'[c] = got[c]
      /\ pc' = [pc EXCEPT ![c] = "put"]
      /\ \A d \in Clients \ {c} : arg'[d] = arg[d] /\ layer'[d] = layer[d]
  BY DEF stageRequest, ConvStep, Upload, Begin, Step, RegistryInv, RegistryTypeOK
<1>2. /\ pc \in [Clients -> {"idle", "put", "putWithID", "set", "config", "sending"}]
      /\ ImagesTypes
  BY DEF RegistryInv, RegistryTypeOK, ImagesInv
<1>3. ImagesTypes'
  BY <1>1, <1>2 DEF ImagesTypes
<1>4. ASSUME NEW d \in Clients PROVE ConversionShape(d)' /\ RightDroplet(d)'
  <2>1. ConversionShape(d) /\ RightDroplet(d)
    BY DEF ImagesInv
  <2>2. CASE d = c
    <3>1. ConversionShape(d)'
      BY <1>1, <1>2, <2>1, <2>2 DEF ConversionShape, Uploading, ImagesTypes
    <3>2. RightDroplet(d)'
      BY <1>1, <1>2, <2>1, <2>2, GuidKeys DEF RightDroplet, Uploading, ImagesTypes
    <3>3. QED  BY <3>1, <3>2
  <2>3. CASE d # c
    <3>1. conv'[d] = conv[d] /\ pc'[d] = pc[d]
      BY <1>1, <1>2, <2>3 DEF ImagesTypes
    <3>2. QED
      BY <1>1, <2>1, <2>3, <3>1 DEF ConversionShape, RightDroplet, Uploading
  <2>4. QED  BY <2>2, <2>3
<1>5. \A d \in Clients : conv'[d] = "created" => conv[d] = "created"
  BY <1>1, <1>2 DEF ImagesTypes
<1>6. QED  BY <1>1, <1>3, <1>4, <1>5 DEF ImagesInv, ImageHasItsDroplet

\* The registry has stored a droplet and answers.
LEMMA AnswerInv ==
    ASSUME RegistryInv, ImagesInv, NEW c \in Clients, RegistryAnswers(c)
    PROVE  ImagesInv'
<1>1. /\ UNCHANGED <<current, job, got, image, epoch, mixed, pushes>>
      /\ conv' = [conv EXCEPT ![c] = IF @ = "staging" THEN "created" ELSE @]
      /\ since' = [since EXCEPT ![c] = epoch]
      /\ pc[c] = "set" /\ pc' = [pc EXCEPT ![c] = "idle"]
      /\ droplets' = [droplets EXCEPT ![arg[c][2]] = layer[c]]
      /\ arg' = [arg EXCEPT ![c] = NoKey] /\ layer' = [layer EXCEPT ![c] = NoDroplet]
  BY DEF RegistryAnswers, SetDroplet, Step
<1>2. /\ pc \in [Clients -> {"idle", "put", "putWithID", "set", "config", "sending"}]
      /\ arg \in [Clients -> {Guid(g) : g \in Guids} \cup {NoKey}]
      /\ layer \in [Clients -> Layers \cup {NoDroplet}]
      /\ droplets \in [Guids -> Layers \cup {NoDroplet}]
      /\ ImagesTypes /\ ConversionShape(c) /\ RightDroplet(c)
  BY DEF RegistryInv, RegistryTypeOK, ImagesInv
<1>3. arg[c] # NoKey /\ layer[c] \in Layers /\ NoDroplet \notin Layers
  BY <1>1, RegistryAssumption DEF RegistryInv, ClientShape
<1>4. PICK g \in Guids : arg[c] = Guid(g) /\ arg[c][2] = g
  BY <1>2, <1>3, KeyNames
<1>5. /\ droplets'[g] = layer[c]
      /\ \A k \in Guids : k # g => droplets'[k] = droplets[k]
  BY <1>1, <1>2, <1>4
<1>6. ImagesTypes'
  BY <1>1, <1>2 DEF ImagesTypes
<1>7. ASSUME NEW d \in Clients PROVE ConversionShape(d)' /\ RightDroplet(d)'
  <2>1. ConversionShape(d) /\ RightDroplet(d)
    BY DEF ImagesInv
  <2>2. CASE d = c
    <3>1. pc'[d] = "idle" /\ ~Uploading(d)' /\ Uploading(d)
      BY <1>1, <1>2, <2>2 DEF Uploading
    <3>2. conv[d] \in {"idle", "staging"}
          /\ conv'[d] = IF conv[d] = "staging" THEN "created" ELSE conv[d]
      BY <1>1, <1>2, <2>1, <2>2 DEF ConversionShape, ImagesTypes
    <3>3. QED
      BY <1>1, <2>1, <3>1, <3>2 DEF ConversionShape, RightDroplet
  <2>3. CASE d # c
    <3>1. conv'[d] = conv[d] /\ pc'[d] = pc[d] /\ arg'[d] = arg[d] /\ layer'[d] = layer[d]
      BY <1>1, <1>2, <2>3 DEF ImagesTypes
    <3>2. QED
      BY <1>1, <2>1, <2>3, <3>1 DEF ConversionShape, RightDroplet, Uploading
  <2>4. QED  BY <2>2, <2>3
<1>8. \A x \in Clients \cup Apps : since'[x] = (IF x = c THEN epoch ELSE since[x])
  BY <1>1, <1>2 DEF ImagesTypes
<1>9. \A x \in Clients \cup Apps : since'[x] <= epoch'
  BY <1>1, <1>2, <1>8 DEF ImagesInv, ImagesTypes
<1>10. ASSUME NEW d \in Clients, conv'[d] = "created", since'[d] = epoch'
       PROVE  droplets'[job'[d].hash] # NoDroplet
  <2>1. job[d].hash \in Guids
    BY <1>1, <1>6, <1>7, <1>10 DEF ConversionShape
  <2>2. CASE d = c /\ conv[c] = "staging"
    BY <1>1, <1>2, <1>3, <1>4, <1>5, <2>2, GuidKeys DEF ConversionShape
  <2>3. CASE d = c /\ conv[c] # "staging"
    BY <1>1, <1>2, <1>10, <2>3 DEF ConversionShape, ImagesTypes
  <2>4. CASE d # c
    <3>1. conv[d] = "created" /\ since[d] = epoch
      BY <1>1, <1>2, <1>8, <1>10, <2>4 DEF ImagesTypes
    <3>2. droplets[job[d].hash] # NoDroplet
      BY <3>1 DEF ImagesInv
    <3>3. QED  BY <1>1, <1>3, <1>5, <2>1, <3>2
  <2>5. QED  BY <2>2, <2>3, <2>4
<1>11. ASSUME NEW a \in Apps, image'[a] \in Guids, since'[a] = epoch'
       PROVE  droplets'[image'[a]] # NoDroplet
  <2>1. a # c /\ since[a] = epoch
    BY <1>1, <1>8, <1>11, ImageNames
  <2>2. droplets[image[a]] # NoDroplet
    BY <1>1, <1>11, <2>1 DEF ImagesInv
  <2>3. QED  BY <1>1, <1>3, <1>5, <1>11, <2>2
<1>12. ImageHasItsDroplet'
  <2> SUFFICES ASSUME NEW k \in Guids \ mixed
               PROVE  droplets'[k] \in {NoDroplet, LayerOf(k)}
    BY <1>1 DEF ImageHasItsDroplet, LayerOf
  <2>1. CASE k = g
    <3>1. HashOf[layer[c]] = g
      BY <1>1, <1>2, <1>4, <2>1 DEF RightDroplet, Uploading
    <3>2. QED  BY <1>3, <1>5, <2>1, <3>1, LayerHash
  <2>2. CASE k # g
    BY <1>5, <2>2 DEF ImagesInv, ImageHasItsDroplet
  <2>3. QED  BY <2>1, <2>2
<1>13. QED  BY <1>6, <1>7, <1>9, <1>10, <1>11, <1>12 DEF ImagesInv

\* The registry restarts: what it knew is gone, and no answer vouches for it.
LEMMA RestartsInv ==
    ASSUME RegistryInv, ImagesInv, RegistryRestarts
    PROVE  ImagesInv'
<1>1. /\ UNCHANGED <<current, image, since, mixed, pushes>>
      /\ epoch' = epoch + 1
      /\ \A g \in Guids : droplets'[g] = NoDroplet
      /\ \A c \in Clients : pc'[c] = "idle"
      /\ conv' = [c \in Clients |-> IF conv[c] = "staging" THEN "idle" ELSE conv[c]]
      /\ job' = [c \in Clients |-> IF conv[c] = "staging" THEN NoJob ELSE job[c]]
      /\ got' = [c \in Clients |-> IF conv[c] = "staging" THEN NoDroplet ELSE got[c]]
  BY DEF RegistryRestarts, Restart
<1>2. ImagesTypes /\ \A x \in Clients \cup Apps : since[x] <= epoch
  BY DEF ImagesInv
<1>3. ImagesTypes'
  <2>1. conv' \in [Clients -> {"idle", "download", "stage", "staging", "created"}]
    BY <1>1, <1>2 DEF ImagesTypes
  <2>2. /\ job' \in [Clients -> [app : Apps, hash : Guids] \cup {NoJob}]
        /\ got' \in [Clients -> Layers \cup {NoDroplet}]
    BY <1>1, <1>2 DEF ImagesTypes
  <2>3. QED  BY <1>1, <1>2, <2>1, <2>2 DEF ImagesTypes
<1>4. ASSUME NEW c \in Clients PROVE ConversionShape(c)' /\ RightDroplet(c)'
  <2>1. ConversionShape(c) /\ RightDroplet(c)
    BY DEF ImagesInv
  <2>2. /\ pc'[c] = "idle" /\ conv'[c] # "staging"
        /\ conv'[c] # "idle" =>
              conv'[c] = conv[c] /\ job'[c] = job[c] /\ got'[c] = got[c]
    BY <1>1
  <2>3. QED  BY <1>1, <2>1, <2>2 DEF ConversionShape, RightDroplet, Uploading
<1>5. \A x \in Clients \cup Apps : since'[x] < epoch'
  BY <1>1, <1>2 DEF ImagesTypes
<1>6. \A x \in Clients \cup Apps : since'[x] <= epoch' /\ since'[x] # epoch'
  BY <1>1, <1>2, <1>5 DEF ImagesTypes
<1>7. QED  BY <1>1, <1>3, <1>4, <1>6 DEF ImagesInv, ImageHasItsDroplet

\* What is not the registry's does not change what the registry has.
LEMMA AppInv ==
    ASSUME RegistryInv, ImagesInv, NEW a \in Apps, AppStep(a)
    PROVE  ImagesInv'
<1>1. UNCHANGED <<droplets, pc, arg, layer, got, epoch, since>>
  BY DEF AppStep, Push, StopApp, ConvertDocker, Convert, vars
<1>2. ImagesTypes /\ HashOf \in [Layers -> Guids]
  BY ImagesAssumption DEF ImagesInv
<1>3. CASE Push(a)
  <2>1. PICK l \in Layers :
          /\ current' = [current EXCEPT ![a] = l]
          /\ mixed' = mixed \cup
                {job[c].hash :
                   c \in {d \in Clients : conv[d] = "download" /\ job[d].app = a}}
          /\ pushes' = pushes + 1
          /\ UNCHANGED <<conv, job, image>>
    BY <1>3 DEF Push
  <2>2. \A c \in Clients : conv[c] = "download" => job[c].hash \in Guids
    BY DEF ImagesInv, ConversionShape
  <2>3. ImagesTypes'
    BY <1>1, <1>2, <2>1, <2>2 DEF ImagesTypes
  <2>4. ASSUME NEW c \in Clients PROVE ConversionShape(c)' /\ RightDroplet(c)'
    <3>1. ConversionShape(c) /\ RightDroplet(c)
      BY DEF ImagesInv
    <3>2. ConversionShape(c)'
      BY <1>1, <2>1, <3>1 DEF ConversionShape, Uploading
    <3>3. ASSUME conv[c] = "download", job[c].hash \notin mixed'
          PROVE  HashOf[current'[job[c].app]] = job[c].hash
      <4>1. job[c].app # a /\ job[c].hash \notin mixed
        BY <2>1, <3>3
      <4>2. QED  BY <1>2, <2>1, <3>1, <3>3, <4>1 DEF RightDroplet, ConversionShape, ImagesTypes
    <3>4. RightDroplet(c)'
      BY <1>1, <2>1, <3>1, <3>3 DEF RightDroplet, Uploading
    <3>5. QED  BY <3>2, <3>4
  <2>5. QED  BY <1>1, <2>1, <2>3, <2>4 DEF ImagesInv, ImageHasItsDroplet
<1>4. CASE StopApp(a) \/ ConvertDocker(a)
  <2>1. /\ UNCHANGED <<current, conv, job, mixed, pushes>>
        /\ image' \in [Apps -> Guids \cup {NoImage, Docker}]
        /\ \A b \in Apps : image'[b] \in Guids => image'[b] = image[b]
    BY <1>2, <1>4, ImageNames DEF StopApp, ConvertDocker, Deploy, ImagesTypes
  <2>2. ImagesTypes'
    BY <1>1, <1>2, <2>1 DEF ImagesTypes
  <2>3. \A c \in Clients : ConversionShape(c)' /\ RightDroplet(c)'
    BY <1>1, <2>1 DEF ImagesInv, ConversionShape, RightDroplet, Uploading
  <2>4. QED  BY <1>1, <2>1, <2>2, <2>3 DEF ImagesInv, ImageHasItsDroplet
<1>5. ASSUME NEW c \in Clients, Convert(c, a) PROVE ImagesInv'
  <2>1. /\ UNCHANGED <<current, image, mixed, pushes>>
        /\ pc[c] = "idle" /\ conv[c] = "idle"
        /\ conv' = [conv EXCEPT ![c] = "download"]
        /\ job' = [job EXCEPT ![c] = [app |-> a, hash |-> HashOf[current[a]]]]
    BY <1>5 DEF Convert, ConvStep
  <2>2. [app |-> a, hash |-> HashOf[current[a]]] \in [app : Apps, hash : Guids]
    BY <1>2 DEF ImagesTypes
  <2>3. ImagesTypes'
    BY <1>1, <1>2, <2>1, <2>2 DEF ImagesTypes
  <2>4. ASSUME NEW d \in Clients PROVE ConversionShape(d)' /\ RightDroplet(d)'
    <3>1. ConversionShape(d) /\ RightDroplet(d)
      BY DEF ImagesInv
    <3>2. CASE d = c
      <4>1. /\ conv'[d] = "download" /\ job'[d] \in [app : Apps, hash : Guids]
            /\ job'[d].hash = HashOf[current[job'[d].app]]
        BY <1>2, <2>1, <2>2, <3>2 DEF ImagesTypes
      <4>2. QED
        BY <1>1, <2>1, <3>1, <3>2, <4>1 DEF ConversionShape, RightDroplet, Uploading
    <3>3. CASE d # c
      <4>1. conv'[d] = conv[d] /\ job'[d] = job[d]
        BY <1>2, <2>1, <3>3 DEF ImagesTypes
      <4>2. QED  BY <1>1, <2>1, <3>1, <4>1 DEF ConversionShape, RightDroplet, Uploading
    <3>4. QED  BY <3>2, <3>3
  <2>5. \A d \in Clients : conv'[d] = "created" => conv[d] = "created" /\ job'[d] = job[d]
    BY <1>2, <2>1 DEF ImagesTypes
  <2>6. QED  BY <1>1, <2>1, <2>3, <2>4, <2>5 DEF ImagesInv, ImageHasItsDroplet
<1>6. QED  BY <1>3, <1>4, <1>5 DEF AppStep

\* A conversion downloads, gives up, or has its answer and names the image.
LEMMA ConversionInv ==
    ASSUME RegistryInv, ImagesInv, NEW c \in Clients, ConversionStep(c)
    PROVE  ImagesInv'
<1>1. UNCHANGED <<droplets, pc, arg, layer, current, epoch, mixed, pushes>>
  BY DEF ConversionStep, GetDroplet, ConvertFails, Converted, vars
<1>2. ImagesTypes /\ ConversionShape(c) /\ RightDroplet(c)
  BY DEF ImagesInv
<1>3. conv[c] # "idle" /\ job[c].app \in Apps /\ job[c].hash \in Guids
  BY <1>2 DEF ConversionStep, GetDroplet, ConvertFails, Converted, ConvStep, ConversionShape
<1>4. \A d \in Clients \ {c} : conv'[d] = conv[d] /\ job'[d] = job[d] /\ got'[d] = got[d]
  BY <1>2 DEF ConversionStep, GetDroplet, ConvertFails, Converted, ConvStep, Forget,
              ImagesTypes
<1>5. CASE GetDroplet(c)
  <2>1. /\ UNCHANGED <<job, image, since>>
        /\ conv[c] = "download" /\ conv' = [conv EXCEPT ![c] = "stage"]
        /\ got' = [got EXCEPT ![c] = current[job[c].app]]
    BY <1>5 DEF GetDroplet, ConvStep
  <2>2. current[job[c].app] \in Layers
    BY <1>2, <1>3 DEF ImagesTypes
  <2>3. ImagesTypes'
    BY <1>1, <1>2, <2>1, <2>2 DEF ImagesTypes
  <2>4. ASSUME NEW d \in Clients PROVE ConversionShape(d)' /\ RightDroplet(d)'
    <3>1. ConversionShape(d) /\ RightDroplet(d)
      BY DEF ImagesInv
    <3>2. CASE d = c
      <4>1. conv'[d] = "stage" /\ got'[d] = current[job[c].app] /\ job'[d] = job[c]
        BY <1>2, <2>1, <3>2 DEF ImagesTypes
      <4>2. QED
        BY <1>1, <2>1, <2>2, <3>1, <3>2, <4>1 DEF ConversionShape, RightDroplet, Uploading
    <3>3. CASE d # c
      BY <1>1, <1>4, <3>1, <3>3 DEF ConversionShape, RightDroplet, Uploading
    <3>4. QED  BY <3>2, <3>3
  <2>5. \A d \in Clients : conv'[d] = "created" => conv[d] = "created"
    BY <1>2, <2>1 DEF ImagesTypes
  <2>6. QED  BY <1>1, <2>1, <2>3, <2>4, <2>5 DEF ImagesInv, ImageHasItsDroplet
<1>6. CASE ConvertFails(c) \/ Converted(c)
  <2>1. /\ conv' = [conv EXCEPT ![c] = "idle"]
        /\ job' = [job EXCEPT ![c] = NoJob]
        /\ got' = [got EXCEPT ![c] = NoDroplet]
    BY <1>6 DEF ConvertFails, Converted, ConvStep, Forget
  <2>2. ASSUME NEW d \in Clients PROVE ConversionShape(d)' /\ RightDroplet(d)'
    <3>1. ConversionShape(d) /\ RightDroplet(d)
      BY DEF ImagesInv
    <3>2. CASE d = c
      <4>1. conv'[d] = "idle"
        BY <1>2, <2>1, <3>2 DEF ImagesTypes
      <4>2. QED  BY <1>1, <3>1, <4>1 DEF ConversionShape, RightDroplet, Uploading
    <3>3. CASE d # c
      BY <1>1, <1>4, <3>1, <3>3 DEF ConversionShape, RightDroplet, Uploading
    <3>4. QED  BY <3>2, <3>3
  <2>3. /\ image' \in [Apps -> Guids \cup {NoImage, Docker}]
        /\ since' \in [Clients \cup Apps -> Nat]
        /\ \A x \in Clients \cup Apps : since'[x] <= epoch
        /\ \A d \in Clients \ {c} : since'[d] = since[d]
        /\ \A a \in Apps : image'[a] \in Guids =>
              \/ image'[a] = image[a] /\ since'[a] = since[a]
              \/ image'[a] = job[c].hash /\ since'[a] = since[c] /\ conv[c] = "created"
    <3>1. \A x \in Clients \cup Apps : since[x] <= epoch
      BY DEF ImagesInv
    <3>2. CASE ConvertFails(c)
      BY <1>2, <3>1, <3>2 DEF ConvertFails, ImagesTypes
    <3>3. CASE Converted(c)
      <4> DEFINE a == job[c].app
                 s == IF image[a] = NoImage THEN since[c] ELSE since[a]
      <4>1. /\ conv[c] = "created"
            /\ image' = [image EXCEPT ![a] = IF @ = NoImage THEN job[c].hash ELSE @]
            /\ since' = [since EXCEPT ![a] = IF image[a] = NoImage
                                             THEN since[c] ELSE @, ![c] = 0]
        BY <3>3 DEF Converted, ConvStep, Deploy
      <4>2. a # c /\ a \in Apps
        BY <1>3, ImageNames
      <4>3. /\ since' \in [Clients \cup Apps -> Nat]
            /\ since'[c] = 0 /\ since'[a] = s
            /\ \A x \in (Clients \cup Apps) \ {a, c} : since'[x] = since[x]
        BY <1>2, <4>1, <4>2 DEF ImagesTypes
      <4>4. \A x \in Clients \cup Apps : since'[x] <= epoch
        BY <1>2, <3>1, <4>2, <4>3 DEF ImagesTypes
      <4>5. /\ image' \in [Apps -> Guids \cup {NoImage, Docker}]
            /\ image'[a] = IF image[a] = NoImage THEN job[c].hash ELSE image[a]
            /\ \A b \in Apps \ {a} : image'[b] = image[b]
        BY <1>2, <1>3, <4>1, <4>2 DEF ImagesTypes
      <4>6. \A d \in Clients \ {c} : since'[d] = since[d]
        BY <4>2, <4>3, ImageNames
      <4>7. ASSUME NEW b \in Apps
            PROVE  \/ image'[b] = image[b] /\ since'[b] = since[b]
                   \/ image'[b] = job[c].hash /\ since'[b] = since[c]
        BY <4>2, <4>3, <4>5, ImageNames
      <4>8. QED  BY <4>1, <4>3, <4>4, <4>5, <4>6, <4>7
    <3>4. QED  BY <1>6, <3>2, <3>3
  <2>4. ImagesTypes'
    BY <1>1, <1>2, <2>1, <2>3 DEF ImagesTypes
  <2>5. ASSUME NEW d \in Clients, conv'[d] = "created", since'[d] = epoch
        PROVE  droplets[job'[d].hash] # NoDroplet
    <3>1. d # c
      BY <1>2, <2>1, <2>5 DEF ImagesTypes
    <3>2. QED  BY <1>4, <2>3, <2>5, <3>1 DEF ImagesInv
  <2>6. ASSUME NEW a \in Apps, image'[a] \in Guids, since'[a] = epoch
        PROVE  droplets[image'[a]] # NoDroplet
    BY <2>3, <2>6 DEF ImagesInv
  <2>7. QED
    BY <1>1, <2>2, <2>3, <2>4, <2>5, <2>6 DEF ImagesInv, ImageHasItsDroplet
<1>7. QED  BY <1>5, <1>6 DEF ConversionStep

\* Every step keeps the invariant.
LEMMA ImagesNextInv == RegistryInv /\ ImagesInv /\ [ImagesNext]_ivars => ImagesInv'
<1> SUFFICES ASSUME RegistryInv, ImagesInv, [ImagesNext]_ivars PROVE ImagesInv'
  OBVIOUS
<1>1. CASE ImagesNext
  BY <1>1, ImagesKinds, WorkInv, AppInv, ConversionInv, StageInv, AnswerInv, RestartsInv
<1>2. CASE UNCHANGED ivars
  <2>1. UNCHANGED <<droplets, pc, arg, layer, current, conv, job, got, image, epoch, since,
                    mixed, pushes>>
    BY <1>2 DEF ivars, vars, imageVars
  <2>2. /\ ImagesTypes' = ImagesTypes
        /\ \A c \in Clients : ConversionShape(c)' = ConversionShape(c)
        /\ \A c \in Clients : RightDroplet(c)' = RightDroplet(c)
    BY <2>1 DEF ImagesTypes, ConversionShape, RightDroplet, Uploading
  <2>3. QED  BY <2>1, <2>2 DEF ImagesInv, ImageHasItsDroplet
<1>3. QED  BY <1>1, <1>2

(***************************************************************************)
(* The inductive invariant of Images, together with that of the registry:  *)
(* a conversion is told of a droplet that the registry has, and posts the  *)
(* droplet its request was about unless the app got another one meanwhile. *)
(***************************************************************************)
THEOREM ImagesInvariance == ImagesSpec => [](RegistryInv /\ ImagesInv)
<1>1. ImagesInit => RegistryInv /\ ImagesInv
  BY ImagesInitInv, InitInv DEF ImagesInit
<1>2. RegistryInv /\ ImagesInv /\ [ImagesNext]_ivars => (RegistryInv /\ ImagesInv)'
  BY ImagesNextInv, ImagesStep, NextInv
<1>3. QED  BY <1>1, <1>2, PTL DEF ImagesSpec

\* Type correctness of conversions, images and the registry behind them.
THEOREM ImagesTypeCorrect == ImagesSpec => []ImagesTypeOK
<1>1. RegistryInv /\ ImagesInv => ImagesTypeOK
  BY DEF RegistryInv, ImagesInv, ImagesTypes, ConversionShape, ImagesTypeOK
<1>2. QED  BY <1>1, ImagesInvariance, PTL

(***************************************************************************)
(* The image of a deployed app can be pulled until the registry restarts:  *)
(* its hash is known and its layer stored, however uploads overlap, fail   *)
(* or are given up (dropletToImageURI in bifrost/convert.go).              *)
(***************************************************************************)
THEOREM DeployedImagesResolve == ImagesSpec => []DeployedImageResolves
<1>1. RegistryInv /\ ImagesInv => DeployedImageResolves
  BY DEF RegistryInv, ManifestResolves, ImagesInv, DeployedImageResolves
<1>2. QED  BY <1>1, ImagesInvariance, PTL

(***************************************************************************)
(* A hash stands for its own droplet, or for none, in every state of the   *)
(* registry, unless a new droplet came between the request and the         *)
(* download that Convert makes by the app's guid (bifrost/convert.go).     *)
(***************************************************************************)
THEOREM ImagesHaveTheirDroplets == ImagesSpec => []ImageHasItsDroplet
<1>1. RegistryInv /\ ImagesInv => ImageHasItsDroplet
  BY DEF ImagesInv
<1>2. QED  BY <1>1, ImagesInvariance, PTL

(***************************************************************************)
(* Behind the conversions of bifrost/convert.go the registry keeps its     *)
(* promises: it is a content store, a digest is never served with another  *)
(* content, every manifest resolves, and a layer that was not pulled since *)
(* its upload is whole (registry.go, blonde.go).                           *)
(***************************************************************************)
THEOREM ImagesKeepRegistryPromises ==
    ImagesSpec => /\ ImplementsContentStore
                  /\ []ContentAddressed
                  /\ []ManifestResolves
                  /\ []FreshIsWhole
  BY ImagesImplementRegistry, RegistryRefinesContentStore, StoreIsContentAddressed,
     ManifestsResolve, FirstPullIsWhole
=============================================================================
