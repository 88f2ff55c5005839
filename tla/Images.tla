------------------------------- MODULE Images -------------------------------
(***************************************************************************)
(* How an app gets its image: Convert (bifrost/convert.go) downloads the   *)
(* droplet of the app from the Cloud Controller, has the registry turn it  *)
(* into a layer and names the image by the hash of the droplet; container  *)
(* runtimes ask the registry for the manifest of that image whenever they  *)
(* start a container, long after.                                          *)
(*                                                                         *)
(* Registry is the other side of the upload.  A conversion holds one       *)
(* goroutine of the registry at a time, the one with its own name, and     *)
(* that goes on when the conversion has given up.  A droplet's hash is     *)
(* what Registry calls its guid.  Pulls are the registry's own steps, made *)
(* by a goroutine that no conversion holds.                                *)
(***************************************************************************)
EXTENDS Registry

CONSTANTS
    Apps,
    HashOf,             \* hash of the droplet that a layer is made from
    MaxPushes,          \* bound on new droplets of apps
    MaxRestarts         \* bound on restarts of the registry

NoImage == "none"
Docker  == "docker"

ASSUME ImagesAssumption ==
    /\ HashOf \in [Layers -> Guids]
    /\ \A k, l \in Layers : HashOf[k] = HashOf[l] => k = l
    /\ MaxPushes \in Nat /\ MaxRestarts \in Nat

\* Hashes are not taken for other images, nor conversions for apps.
ASSUME ImageNames ==
    /\ NoImage \notin Guids /\ Docker \notin Guids
    /\ Clients \cap Apps = {}

VARIABLES
    current,            \* current droplet of an app in the Cloud Controller
    conv,               \* where a conversion is
    job,                \* the app and the droplet hash of its request
    got,                \* the droplet it has downloaded
    image,              \* image of the app's StatefulSet
    epoch,              \* restarts of the registry so far
    since,              \* history: epoch in which a conversion or an image was
                        \* told that its droplet is stored
    mixed,              \* history: hashes requested for an app that got another
                        \* droplet before the download
    pushes

imageVars == <<current, conv, job, got, image, epoch, since, mixed, pushes>>
ivars == <<vars, imageVars>>

NoJob == [app |-> "none", hash |-> "none"]

\* The layer with a hash.
LayerOf(g) == CHOOSE l \in Layers : HashOf[l] = g

ImagesInit ==
    /\ Init
    /\ current \in [Apps -> Layers]
    /\ conv = [c \in Clients |-> "idle"]
    /\ job = [c \in Clients |-> NoJob]
    /\ got = [c \in Clients |-> NoDroplet]
    /\ image = [a \in Apps |-> NoImage]
    /\ epoch = 0
    /\ since = [x \in Clients \cup Apps |-> 0]
    /\ mixed = {}
    /\ pushes = 0

\* A conversion has ended.
Forget(c) ==
    /\ job' = [job EXCEPT ![c] = NoJob]
    /\ got' = [got EXCEPT ![c] = NoDroplet]

ConvStep(c, from, to) == conv[c] \in from /\ conv' = [conv EXCEPT ![c] = to]
-----------------------------------------------------------------------------
(***************************************************************************)
(* The Cloud Controller (external).                                        *)
(***************************************************************************)
\* An app gets a new droplet.
Push(a) ==
    \E l \in Layers \ {current[a]} :
        /\ pushes < MaxPushes
        /\ pushes' = pushes + 1
        /\ current' = [current EXCEPT ![a] = l]
        /\ mixed' = mixed \cup
              {job[c].hash :
                 c \in {d \in Clients : conv[d] = "download" /\ job[d].app = a}}
        /\ UNCHANGED <<vars, conv, job, got, image, epoch, since>>

StopApp(a) ==
    /\ image[a] # NoImage
    /\ image' = [image EXCEPT ![a] = NoImage]
    /\ UNCHANGED <<vars, current, conv, job, got, epoch, since, mixed, pushes>>
-----------------------------------------------------------------------------
(***************************************************************************)
(* Convert, up to the image of the LRP.  Desire keeps what is deployed.    *)
(***************************************************************************)
Deploy(a, i) == image' = [image EXCEPT ![a] = IF @ = NoImage THEN i ELSE @]

\* A request for an app with a Docker image needs no droplet.
ConvertDocker(a) ==
    /\ image[a] = NoImage
    /\ Deploy(a, Docker)
    /\ UNCHANGED <<vars, current, conv, job, got, epoch, since, mixed, pushes>>

\* A request arrives with the hash of the droplet the app has at the time.
Convert(c, a) ==
    /\ pc[c] = "idle"
    /\ served < MaxServed
    /\ ConvStep(c, {"idle"}, "download")
    /\ job' = [job EXCEPT ![c] = [app |-> a, hash |-> HashOf[current[a]]]]
    /\ UNCHANGED <<vars, current, got, image, epoch, since, mixed, pushes>>

\* GetDropletByAppGuid: the droplet the app has now.
GetDroplet(c) ==
    /\ ConvStep(c, {"download"}, "stage")
    /\ got' = [got EXCEPT ![c] = current[job[c].app]]
    /\ UNCHANGED <<vars, current, job, image, epoch, since, mixed, pushes>>

\* Mutant: the hash is a field of the converter, which all requests share.
stageRequestShared(c) ==
    /\ ConvStep(c, {"stage"}, "staging")
    /\ Upload(c)
    /\ \E d \in Clients : conv[d] # "idle" /\ arg'[c] = Guid(job[d].hash)
    /\ layer'[c] = got[c]
    /\ UNCHANGED <<current, job, got, image, epoch, since, mixed, pushes>>

\* The droplet is posted to the registry under the hash of the request.
stageRequest(c) ==
    /\ ConvStep(c, {"stage"}, "staging")
    /\ Upload(c)
    /\ arg'[c] = Guid(job[c].hash)
    /\ layer'[c] = got[c]
    /\ UNCHANGED <<current, job, got, image, epoch, since, mixed, pushes>>

\* Mutant: an error of the registry is ignored.
StageUnchecked(c) ==
    /\ ConvStep(c, {"stage", "staging"}, "idle")
    /\ Deploy(job[c].app, job[c].hash)
    /\ since' = [since EXCEPT ![job[c].app] = IF image[job[c].app] = NoImage
                                              THEN epoch ELSE @]
    /\ Forget(c)
    /\ UNCHANGED <<vars, current, epoch, mixed, pushes>>

\* Download or upload fails, or the registry answers with an error.
ConvertFails(c) ==
    /\ ConvStep(c, {"download", "stage", "staging"}, "idle")
    /\ Forget(c)
    /\ UNCHANGED <<vars, current, image, epoch, since, mixed, pushes>>

\* 201: the image is named by the hash of the request.
Converted(c) ==
    /\ ConvStep(c, {"created"}, "idle")
    /\ Deploy(job[c].app, job[c].hash)
    /\ since' = [since EXCEPT ![job[c].app] = IF image[job[c].app] = NoImage
                                              THEN since[c] ELSE @,
                              ![c] = 0]
    /\ Forget(c)
    /\ UNCHANGED <<vars, current, epoch, mixed, pushes>>
-----------------------------------------------------------------------------
(***************************************************************************)
(* The registry.                                                           *)
(***************************************************************************)
RegistryStores(c) == (PutLayer(c) \/ PutLayerWithID(c)) /\ UNCHANGED imageVars

\* The upload is done, and its conversion told so if it is still there.
RegistryAnswers(c) ==
    /\ SetDroplet(c)
    /\ conv' = [conv EXCEPT ![c] = IF @ = "staging" THEN "created" ELSE @]
    /\ since' = [since EXCEPT ![c] = epoch]
    /\ UNCHANGED <<current, job, got, image, epoch, mixed, pushes>>

\* A container runtime asks for the manifest of an app's image.
PullManifest(c) ==
    /\ conv[c] = "idle"
    /\ Manifest(c)
    /\ \E a \in Apps : image[a] \in Guids /\ layer'[c] = droplets[image[a]]
    /\ UNCHANGED imageVars

RegistryMakesConfig(c) == PutConfig(c) /\ UNCHANGED imageVars

\* It asks for blobs, of that image or of one it has seen before.
PullBlob(c) == conv[c] = "idle" /\ GetBlob(c) /\ UNCHANGED imageVars

RegistrySends(c) == Sent(c) /\ UNCHANGED imageVars

\* Connections break; an answer that has been sent is read all the same.
RegistryRestarts ==
    /\ epoch < MaxRestarts
    /\ epoch' = epoch + 1
    /\ Restart
    /\ LET cut == {c \in Clients : conv[c] = "staging"} IN
          /\ conv' = [c \in Clients |-> IF c \in cut THEN "idle" ELSE conv[c]]
          /\ job' = [c \in Clients |-> IF c \in cut THEN NoJob ELSE job[c]]
          /\ got' = [c \in Clients |-> IF c \in cut THEN NoDroplet ELSE got[c]]
    /\ UNCHANGED <<current, image, since, mixed, pushes>>
-----------------------------------------------------------------------------
ImagesNext ==
    \/ \E a \in Apps : Push(a) \/ StopApp(a) \/ ConvertDocker(a)
    \/ \E c \in Clients, a \in Apps : Convert(c, a)
    \/ \E c \in Clients :
          \/ GetDroplet(c) \/ stageRequest(c) \/ ConvertFails(c) \/ Converted(c)
          \/ RegistryStores(c) \/ RegistryAnswers(c)
          \/ PullManifest(c) \/ RegistryMakesConfig(c)
          \/ PullBlob(c) \/ RegistrySends(c)
    \/ RegistryRestarts

ImagesSpec == ImagesInit /\ [][ImagesNext]_ivars
-----------------------------------------------------------------------------
\* Every variable has its type.
ImagesTypeOK ==
    /\ RegistryTypeOK
    /\ current \in [Apps -> Layers]
    /\ conv \in [Clients -> {"idle", "download", "stage", "staging", "created"}]
    /\ \A c \in Clients :
          /\ conv[c] # "idle" => job[c] \in [app : Apps, hash : Guids]
          /\ conv[c] \in {"staging", "created"} => got[c] \in Layers
    /\ image \in [Apps -> Guids \cup {NoImage, Docker}]
    /\ mixed \subseteq Guids

(***************************************************************************)
(* The image of an app can be pulled: the registry knows its hash and has  *)
(* its layer, until the registry restarts (dropletToImageURI and           *)
(* stageRequest in bifrost/convert.go go on only after a 201, and the      *)
(* registry answers only when everything is stored).                       *)
(***************************************************************************)
DeployedImageResolves ==
    \A a \in Apps : image[a] \in Guids /\ since[a] = epoch =>
        /\ droplets[image[a]] # NoDroplet
        /\ Digest(droplets[image[a]]) \in DOMAIN data

(***************************************************************************)
(* An image has the droplet whose hash it is named by, however conversions *)
(* for apps that share droplets overlap, unless an app got a new droplet   *)
(* after the request was made and before Convert downloaded it.            *)
(***************************************************************************)
ImageHasItsDroplet ==
    \A g \in Guids \ mixed : droplets[g] \in {NoDroplet, LayerOf(g)}

(***************************************************************************)
(* "Whenever you pull you get the specific droplet" (registry/README.md):  *)
(* the manifest of an image names the layer of the droplet with its hash.  *)
(***************************************************************************)
PullsSpecificDroplet ==
    \A a \in Apps : image[a] \in Guids =>
        droplets[image[a]] \in {NoDroplet, LayerOf(image[a])}
-----------------------------------------------------------------------------
(***************************************************************************)
(* The inductive invariant behind the theorems of ImagesProofs.            *)
(***************************************************************************)
Uploading(c) == pc[c] \in {"put", "putWithID", "set"}

ImagesTypes ==
    /\ current \in [Apps -> Layers]
    /\ conv \in [Clients -> {"idle", "download", "stage", "staging", "created"}]
    /\ job \in [Clients -> [app : Apps, hash : Guids] \cup {NoJob}]
    /\ got \in [Clients -> Layers \cup {NoDroplet}]
    /\ image \in [Apps -> Guids \cup {NoImage, Docker}]
    /\ epoch \in Nat
    /\ since \in [Clients \cup Apps -> Nat]
    /\ mixed \subseteq Guids
    /\ pushes \in Nat

\* A conversion has its request, and the goroutine with its name while it waits
\* for the registry, which then works on what it has posted.
ConversionShape(c) ==
    /\ conv[c] # "idle" => job[c] \in [app : Apps, hash : Guids]
    /\ conv[c] \in {"stage", "staging", "created"} => got[c] \in Layers
    /\ conv[c] \in {"download", "stage", "created"} => pc[c] = "idle"
    /\ conv[c] = "staging" => /\ Uploading(c)
                              /\ arg[c] = Guid(job[c].hash)
                              /\ layer[c] = got[c]

\* What is under way for a hash that is not mixed up is its droplet.
RightDroplet(c) ==
    /\ conv[c] = "download" /\ job[c].hash \notin mixed =>
          HashOf[current[job[c].app]] = job[c].hash
    /\ conv[c] \in {"stage", "staging"} /\ job[c].hash \notin mixed =>
          HashOf[got[c]] = job[c].hash
    /\ \A g \in Guids \ mixed : Uploading(c) /\ arg[c] = Guid(g) => HashOf[layer[c]] = g

(***************************************************************************)
(* The answer of the registry vouches for the droplet as long as the       *)
(* registry lives, and so does the image that is named after it.           *)
(***************************************************************************)
ImagesInv ==
    /\ ImagesTypes
    /\ \A c \in Clients : ConversionShape(c) /\ RightDroplet(c)
    /\ \A x \in Clients \cup Apps : since[x] <= epoch
    /\ \A c \in Clients : conv[c] = "created" /\ since[c] = epoch =>
          droplets[job[c].hash] # NoDroplet
    /\ \A a \in Apps : image[a] \in Guids /\ since[a] = epoch =>
          droplets[image[a]] # NoDroplet
    /\ ImageHasItsDroplet
=============================================================================
