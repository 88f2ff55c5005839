# Eirini in TLA+

Eirini runs Cloud Foundry apps on Kubernetes. This directory specifies the parts
of it that keep or change state, checks them with TLC on small instances and
proves what matters most with TLAPS for instances of any size. Every definition
is translated from the Go code; `PROJECT.json` maps each one to its lines.

## The system

| Component | State | Operations | Talks to |
|---|---|---|---|
| App handler, Bifrost (`handler/`, `bifrost/`) | none; one goroutine per request | Desire, Update, Stop, List, GetApp, GetInstances | Desirer, Cloud Controller, registry |
| Desirer and its managers (`k8s/desire.go`, `statefulset.go`, `service.go`, `ingress.go`) | Kubernetes objects: StatefulSet, headless Service and Service per app, one Ingress for all | Create, Update, Delete, Exists of each | Kubernetes API, routes channel |
| Collector (`route/collector.go`, `k8s/routes.go`) | the list it is about to send | list all routes every 15 s | Kubernetes API, routes channel |
| Emitter (`route/emitter.go`) | the batch it publishes | publish register and unregister messages | routes channel, NATS |
| Stager (`handler/stage_handler.go`, `stager/`, `k8s/desiretask.go`) | a Job per staging | Stage, CompleteStaging | Kubernetes API, Cloud Controller |
| Recipe (`recipe/`) | its progress, in a pod of the Job | install, build, upload, report | Cloud Controller, opi |
| Registry (`registry/`, `blobondemand/`) | two maps in memory: blobs by key, layers by droplet guid | upload, manifest, blob | Bifrost, container runtimes |
| Converter (`bifrost/convert.go`) | the droplet it has downloaded | Convert | Cloud Controller, registry |
| Probes, launcher (`k8s/probe.go`, `launcher/`) | the environment of a container | SetupEnv, both probes, launch | kubelet, the app |
| Unzipper, result modifier (`recipe/unzip.go`, `staging_result_modifier.go`) | a directory; the result of the builder | Extract, Modify | recipe |
| opi process (`cmd/opi/cmd/connect.go`) | how far its start-up has got | connect | all of the above |
| Simulator, command line | none | | |

What is hard about it:

- Nothing locks an app. A request is a sequence of API calls, and those of other
  requests, also for the same app, come in between. All apps share one Ingress,
  which is read and written as a whole; only the resource version that the
  object carries protects it, and a delete does not carry one.
- A request that fails halfway is not undone, and the process may die between
  two calls.
- The routes channel has no buffer, so requests wait for the emitter and compete
  with the collector. Publishes may be lost; the collector's list may be stale.
- A staging is spread over opi, a Job with retries and the Cloud Controller, and
  each of three calls may be lost.
- The registry's maps are not locked, and reading a blob drains it. Bifrost names
  an image by a hash it is given and fills it with the droplet of that moment.
- The environment of a container is merged from four sources, and a health check
  timeout is rounded and cut on its way to the kubelet.
- Apps go by two guids, of the app and of its process, and each endpoint has its
  own way to get from one to the other.
- Start-up fails at any step and is repeated, while the router forgets routes.

`PROJECT.json` lists these hazards with the line at which each bites and the
properties that would catch it.

## Modules

| Module | Models |
|---|---|
| `Kube` | the Kubernetes API server as the `k8s` package uses it (external): which objects exist, and their versions |
| `Desirer` | Desire, Update and Stop, from the HTTP handler to the last API call |
| `RuleTable` | what the Ingress manager promises: an atomic table of rules by app |
| `Routes` | collector, emitter and channel; NATS and the router are external |
| `Eirini` | the opi process: `Desirer` and `Routes` composed over the channel |
| `Staging` | stager, Job, recipe and callback; Job controller and Cloud Controller are external |
| `Verdicts` | what staging promises the Cloud Controller: requests, Jobs, droplets and what it is told |
| `Registry` | registry and blob store |
| `ContentStore` | what the registry promises: contents that are added, named and drained, and lost only all together |
| `Images` | `Convert` up to the image of an app, composed with `Registry` |
| `Instances` | from a request to the running instances: `Convert`, `toStatefulSet`, the probes, `launch`; GetApp and GetInstances. StatefulSet controller and kubelet are external |
| `Listing` | `Desirer` with both kinds of guids, the annotations List shows and the routes of an Update |
| `Opi` | `Eirini` with the start-up of the process and its restarts |
| `Unzip` | download and extraction of an app's bits |
| `Buildpacks` | the recipe's result modifier |
| `Recipe` | the recipe's container: `Unzip`, builder, upload and `Buildpacks`, one after the other |
| `DesirerProofs`, `EiriniProofs` (also of `Opi`), `ListingProofs`, `StagingProofs`, `RegistryProofs`, `ImagesProofs`, `InstancesProofs`, `RecipeProofs` (also of `Unzip` and `Buildpacks`) | theorems |
| `MCRequests` (of `Listing`), `MCDesirer`, `MCEirini`, `MCOpi`, `MCStaging`, `MCImages`, `MCInstances`, `MCRecipe` | instances for TLC |

Definitions whose comment begins with "Mutant:" are bugs that the code could
have had. They are not used by any specification; they show that the property
they are paired with in `PROJECT.json` is sensitive to the code.

### Desirer

A handler `h` is a goroutine of the HTTP server. `pc[h]` names the call it makes
next, `req[h]` the request, `seen[h]`, `old[h]` and `plan[h]` what it has read
and means to write. Each API call is one action, together with the computation
up to the next call:

| Request | Calls |
|---|---|
| Desire | `Exists`, `CreateSts`, `CreateHeadless`, `CreateSvc`, `Send`, then the Ingress |
| Update | `GetLRP`, `GetSts`, `PutSts`, `GetSvc`, `PutSvc`, `Send`, then the Ingress |
| Stop | `DeleteSts`, `DeleteHeadless`, `GetIngress` and `PutIngress` or `DropIngress`, `GetSvc`, `Send`, `DeleteSvc` |
| Ingress | `ListIngress`, then `PutIngress` or `CreateIngress`, or (no URI) `GetIngress` and `PutIngress` or `DropIngress` |

`Refused` is a call the API server turns down (the name is taken, the object is
gone, the version has changed): the code returns the error at once. With
`Faults`, `CallFails` is a call that fails for a reason of its own, before or
after it had its effect, and `Crash` the death of the process.

Abstractions: instance count and last_updated annotation, which are written
together, are one value of `Specs`. URI lists are sets; `ValidUris` are those
that `validateURL` accepts and `RuleOf` maps each to the lower-case host and the
path of its rule. The rule maps of `removeDifference` are keyed by structs that
hold pointers, so an unchanged rule is removed and added again; as sets of rules
the result is the model's. The process guid of a request is taken to be the app
guid; `Listing` tells them apart. A conversion that fails (droplet download,
upload to the registry) comes before the first API call and is `CallFails` at
`Exists`; its steps are in `Images`.

`acked` and `tainted` are history variables: what the last acknowledged request
of an app asked for, and the apps that had a failed request or two at a time. An
app of which nothing is left starts afresh.

### Routes and Eirini

A batch on the channel is a set of messages, since only registrations come
several at a time. Every message names the same host and ports, those of the
Kubernetes endpoint, so an entry of the router is a URI. The router forgets an
entry after `TTL` ticks of 15 s (120 s in a default installation, so 8 ticks).
A tick either finds the collector ready and makes it list the Services (`Tick`),
or finds it blocked on the channel and passes (`TickBlocked`): entries grow older
all the same. `waited` counts the ticks of the second kind since the last list.
They are bounded by `MaxWait`, since nothing in the code limits how long the
collector is blocked, and with no limit every entry could expire. The bound is
generous: the emitter publishes to a local connection without waiting for an
answer. The ticker keeps one dropped tick, so the list after a wait may come
sooner than the model's next `Tick`, which has already made the entries a tick
older; the model is the worse case.

In `Eirini` a handler's `Send` and the emitter's `Receive` are one step, as on
an unbuffered channel, and a crash ends handlers, collector and emitter. `lost`
counts failed lists, lost publishes and ends of the process, and `MaxLost` bounds
them. `UrisOf` gives each app the URIs that its users may map to it.

### Staging

The n-th pod of staging g is `<<g, n>>`; it reports at most once, so `call[p]`
is opi's handling of the report of pod `p`, which goes on when the pod is gone.
`disturbed` is a history variable: the stagings hit by a lost pod, a lost answer
of the Cloud Controller or the API server, or a crash of opi during their
report. `Verdicts` is what is left of it for the Cloud Controller: its `heard`
is the verdict of the pods in `told`, and pods, deadlines and opi's handling are
steps it does not see, or sees as `Disturb`. `MaxPods` is the Job's backoff
limit and one (7 by default). Each staging guid is requested once, as the Cloud
Controller does.

### Registry

A client is a goroutine of the registry's HTTP server; each access of a map is
an action. `data[k].left` is what is left of the buffer of blob `k`. A client
that is sent a blob holds its buffer (`buffer[c]`), and storing the key again
makes a new one. A digest is as good as its content. `ContentStore` is the same
without keys, buffers and goroutines: what is stored under a digest, which of it
is whole, and what was asked for since it was stored; the blobs that `PutWithID`
stores, which are empty, are not part of it. The two maps are not
locked: the Go runtime stops a process that it catches, which is `Restart`; that
it may also miss the race and corrupt a map is not modelled.

### Images

A client of `Registry` is here a conversion of Bifrost together with the
goroutine that takes its upload; the goroutine goes on when the conversion has
given up. `HashOf` gives every droplet its hash, which is the guid of the upload.
`Deploy` is what Desire makes of the image: it keeps the StatefulSet that is
there. `since` and `mixed` are history variables: in which life of the registry an
app's droplet was stored, and the hashes of requests whose app got a new droplet
before `Convert` downloaded it. A client that no conversion holds serves
container runtimes: manifests of images that are deployed, and blobs.

### Instances

One app. `request` is the Cloud Controller's, `sts` the StatefulSet, `pod[i]`
and `env[i]` the container with ordinal i and its environment. A value of a
variable is the sequence of its parts between dashes, which is all
`parsePodIndex` looks at. Time is in milliseconds: `clock[i]` is how long a
container has been starting and `due[i]` when its next liveness probe may come;
the kubelet may be late with it and is never early. `prompt`, which never
changes, says whether the app is up within its timeout. An instance count that
wraps to a negative number is refused by the API server, in a Desire as in an
Update. The constants of the code and of Kubernetes (`MsPerSecond`, `Period`,
`IntBound`) are parameters. GetApp and GetInstances change nothing and are
operators on the state.

Three things the model shows that no property asks for, because they hold by the
shape of the code: an LRP that is read from a StatefulSet has no target
instances, so GetApp always says 0; GetInstances numbers ready instances from 0,
so that it names instance 0 when only instance 1 is ready, and is right only once
an app has settled, which `InstancesComeUp` says; and the launcher's
`VCAP_SERVICES`, `{}`, replaces that of the request.

### Listing

Guids are sequences, `<<a>>` for an app and `<<a, v>>` for a version of its
process; `Apps` has both, since a call can be made with either. Every action is
one of `Desirer` with the annotation and two histories added: `raced` are the
requests that overlapped another one for the same app, `written` what the last
Update asked for if it made all its calls alone. `UpdateRepairs` is an action
property: with the call that completes such an Update, the app's rules are
exactly those asked for, so that missing rules are back and obsolete ones gone.
In later steps annotation and routes stay as asked until the next request for
the app comes; the rules stay too, or all of them go at once in a delete of the
Ingress (`ingress_drop_race`), and no step may leave a part of them. An Update
never makes a missing headless Service again, so `UpdateRepairs` does not ask for
it.

### Opi

`boot` is the step of `connect` that is next and `goroutines` what
`launchRouteEmitter` has started. `Exit` is a start-up that fails or a process
that is ended while it serves nobody, `Crashes` its end during requests. The
router's clock, which goes with the collector's ticker in `Eirini`, goes on by
itself while there is no collector (`RouterWaits`).

### Recipe, Unzip and Buildpacks

`Unzip` has one action per operation on the file system, any of which may fail. A
path is the sequence of its names; names with `..` are left out. `Buildpacks` has
one action per look-up; place 0 of the result is its own buildpack key, the
others are the list. `Recipe` puts the builder and the upload between them, as
`ExecuteRecipe` does; "failed" is a failure that is reported and "exited" one
after the upload, which is not. `Staging` is about the same steps, each of them
one action that succeeds or fails, and about what is reported of them:
`ImplementsStagingRecipe` says that they are the same, with `PodLabel` as the
place of the pod in `Staging`.

## Runs

| Run | Checks | Instance |
|---|---|---|
| `requests` | `ListedCanBeStopped`, `UpdateRepairs`, `ListingInv`, `AckedIsDeployed`, `IngressSane`, `IInv`, `ImplementsRuleTable`, `DroppedRoutesAnnounced` | 2 apps with a process guid each, 2 handlers, two valid URIs and an invalid one, 2 specs, 3 requests, failing calls, lost answers, crashes |
| `ingress_drop_race` | `RulesComplete` is violated | 2 apps, 3 requests |
| `routeless_stop` | `NoOrphanService` is violated | 1 app, 2 requests |
| `routes_overlap` | `RoutesAvailable`, `RoutesUpheld`, `RouterConverges` | 1 app, 2 handlers, 1 URI, 3 requests, TTL 5, `MaxWait` 1 |
| `router_converges` | `RouterConverges` | 2 apps that share a URI, 1 handler, 3 requests, TTL 3, `MaxWait` 0, two losses or crashes |
| `opi` | `OpiTypeOK`, `RequestsAnswered`, `RouterConverges` | 1 app, 2 handlers, 1 URI, 2 requests, TTL 5, `MaxWait` 1, two losses, crashes or ended processes, and start-ups that fail |
| `staging` | `SuccessHasDroplet`, `JobKeptUntilTold`, `ToldOnce`, `NeverStuck`, `StagingInv`, `ImplementsVerdicts`, `StagingEnds` | 1 staging, 3 pods |
| `images` | `DeployedImageResolves`, `ImageHasItsDroplet`, `ImagesInv`, `ContentAddressed`, `ManifestResolves`, `FreshIsWhole`, `RegistryInv`, `ImplementsContentStore` | 2 apps, 2 conversions or pulls at a time, 2 droplets, 3 registry requests, a new droplet, a restart |
| `registry_second_pull` | `PullsRootfs` is violated | the same |
| `images_pull` | `PullsSpecificDroplet` is violated | the same |
| `instances` | `RunsAsAsked`, `InstancesInv`, `TimeToStart`, `InstancesComeUp` | 2 instances, all health checks, 2 timeouts, prompt and slow apps, users who set `START_COMMAND`, `POD_NAME` and `PORT`, an update, crash or hang |
| `recipe` | `ExtractedAsArchived`, `UnzipInv`, `ReplacedOnce`, `FailsWhenUnknown`, `ModifierInv`, `ImplementsStagingRecipe` | every archive of up to 4 entries on 3 nested paths with 2 modes; every list of up to 3 buildpacks and every result with up to 3, over 3 names |

The type invariants `TypeOK`, `RegistryTypeOK`, `StagingTypeOK` and
`InstancesTypeOK` are conjuncts of `IInv`, `RegistryInv`, `StagingInv` and
`InstancesInv`, `EiriniTypeOK` is one of `OpiTypeOK`, and `ListingTypeOK`,
`ImagesTypeOK` and `UnzipTypeOK` follow from `IInv` and `ListingInv`,
`RegistryInv` and `ImagesInv`, and `UnzipInv` in one step (`ListingTypeCorrect`,
`ImagesTypeCorrect`, `UnzipTypeCorrect`).

Why the bounds are enough. Interference between requests needs two handlers, and
two apps to tell own from foreign; a lost write of the Ingress needs a third
request that has made it, and two URIs, so that an app's rules change while the
Ingress stays. Three requests also make an app, let an Update fail halfway and
repair it. Versions are bounded by the number of requests. In `routes_overlap`
a Desire makes the Service, and two Updates, or an Update and a Stop, then
overlap for the same app: they read the Service, write it and send their
messages in any order, while the collector holds an older list. What
`RoutesAvailable` says of an app among others is proved for any number of apps.
Of a URI that apps share it says nothing, because an app that unregisters it
removes it for both until the next tick; that the router recovers is
`router_converges`. An entry is at its oldest when its route comes just after the
collector's list: it then has to outlive that wait, a tick and the wait of the
next list, so TTL must exceed `2 * MaxWait + 1`, which the proofs assume (8 ticks
allow waits of 3). The router converges with one tick more, since an entry
whose age has reached TTL may expire before the batch in the emitter's hands
renews it; the runs have the least such TTL, 3 and 5. Stagings only meet
in a crash of opi, which disturbs each of them as if it were alone, so one
staging is enough; three pods make a retry of a retry. `CHECK_DEADLOCK FALSE` is
used for `Staging` and `Recipe`, which end, and for `Instances`, where an app
with all its instances up and no events left has nothing to do.

A second of two milliseconds is the least that rounding can cut something off,
and with an int32 of three bits the longer of the two timeouts wraps to a negative
number, which the API server refuses. With one second between probes the
margin that `TimeToStart` is about is as small as it can be: the three failures a
probe may have take longer than the part of a second that was cut off. In
`images` two conversions share or change a droplet (besides apps and clients,
the two droplets with their hashes may change places), and the third request is an
upload after a restart, or a pull between the two.

Fairness. `FairEiriniSpec`: handlers, the ticker and the emitter are goroutines
that run when they can (weak fairness); blocked senders on a Go channel are
served first in, first out, so one that the emitter comes back to again and
again is served (strong fairness on `SendRoutes` and `Collect`); the router
drops what has expired. No request has to come and no call has to fail.
`FairOpiSpec` asks the same of the parts that have been started, and that a
start-up goes on unless it fails. `FairSpec` of `Instances`: controller, kubelet
and launch do what they can, time goes on, and an app that is given the time
comes up; no update, crash or hang has to happen. `FairSpec` of `Staging`: the
Job controller starts pods it may start, recipes and handlers go on. The
deadline, which would end every staging by itself, is not assumed to be reached.

What the violations show:

- `ingress_drop_race`: `Delete` reads the Ingress, finds only the app's own rules
  and deletes the object in a second call. Rules another app added in between
  are lost, although its request succeeded; `RuleTable` has the step `Wipe` for
  this. `Deployed` therefore asks that an app has no rules but its own, not that
  it has all.
- `routeless_stop`: `Stop` of an app without routes, when no app has any, fails
  on the missing Ingress before the Service is deleted, and fails on the
  StatefulSet when it is repeated. The Service stays.
- `registry_second_pull`: reading a blob drains its buffer; the second pull of
  the rootfs, which is stored at start only, is empty.
- `images_pull`: the hash comes with the request and the droplet from a later
  download. A droplet pushed in between is stored under the old hash, for every
  app that uses that hash.

## Proofs

Every invariant and every action property of the passing runs is also a theorem,
for any apps, handlers, URIs, stagings, pods, clients, archives, timeouts and
bounds, under the named assumptions of the modules, which TLC evaluates on each
run:

| Assumption | Why the code justifies it |
|---|---|
| `DesirerAssumption`, `BuildpacksAssumption`, `StagingAssumption` | constants have their types, bounds are numbers, a Job has at least one pod |
| `EiriniAssumption`, `TTLAssumption` | apps have sets of URIs; the router keeps an entry for longer than two waits of the collector and a tick (8 ticks, which allow waits of 3 ticks, 45 s) |
| `ListingAssumption` | a process guid starts with the guid of an app |
| `RegistryAssumption`, `ImagesAssumption`, `ImageNames` | digests and hashes do not collide, and a hash is not the name of another image |
| `UnzipAssumption` | a path has at least one name |
| `InstancesAssumption` | seconds, periods and the bound of an int32 are positive |

`DesirerProofs`. None of the properties is inductive: that a write is right
depends on what the handler read some calls before. `IInv` says

- `RequestShape`: a handler makes only calls of its request, and writes rules
  only for valid URIs;
- `IngressRead`, `ServiceRead`: if the version a handler has seen is still the
  object's, then what it read is still what the object has, so what it is about
  to write differs from the object in the app's own part only;
- `Untouched`: an app without failed or overlapping requests has one request at
  most and is exactly where this one has got to (`Halfway`), or as the last one
  left it (`Intact`);
- `IngressSane` and `RoutesKept`: rules go with the Ingress and routes with the
  Service.

A step is classified by the kind of object it writes (`StepKinds`); `StepLocal`
shows that other apps and other handlers' reads survive it, `OwnAppUntouched`
and `OwnHandlerInv` that its own are where they should be. From `IInv` follow
`Isolation`, `IngressSanity`, `IngressRefinesRuleTable` (the refinement of
`RuleTable`: every write of the Ingress replaces one entry or wipes all) and
`DropsAreAnnounced`.

`EiriniProofs`. The composition only delays handlers, so every step of it is a
step of `Desirer` or leaves it alone (`EiriniImplementsDesirer`), and it
inherits the theorems, as `EiriniIsolation` shows; the same goes for the process
with its start-ups (`OpiImplementsDesirer`, `OpiKeepsPromises`).
`RoutesStayAvailable` follows from `RoutesStayUpheld`. `RoutesUpheld` is about
all announced routes and not only those of settled apps: such a route is in the
emitter's batch, or in the table and young enough (`Youth`): no older than the
ticks the collector has `waited` if the list it holds does not have the route,
which was then registered after that list was made, and by a full wait and a
tick more if it does. A tick thus always finds the route young and takes it into
its list, and the oldest entry there can be is still younger than `TTL`. `OwnUris` keeps the messages of other
apps away from a URI that only this app can have. `IInv` says what an
undisturbed app's handler is about to announce (`Unannounced`), so that no
message in flight takes away a route of the Service. For `Opi` two facts are
added: `BootOrder`, no request is handled before both goroutines run, and
`NothingToCollect`, there are no routes to keep up while no collector runs,
unless something was lost; `OpiRoutesUpheld` and `OpiRoutesAvailable` are the
same two theorems for the process with its start-ups.

`ListingProofs`. `ListingSpec` implements `Desirer`'s specification, so `IInv`
holds of it, and with it what is proved of requests (`ListingKeepsPromises`).
`ListingInv` adds `NamedByApp` (a StatefulSet goes by the app guid of the
process guid it is annotated with), that two requests for one app at a time are
both `raced`, and `UpdateProgress`: an Update that nothing overlapped has
written what its calls so far were for, whatever failed requests had left. The
last makes `UpdatesRepair` independent of `Untouched`, which says nothing of
apps with failed requests. `Repaired` is what is left of an Update later on;
that the rules are exactly those asked for when it is done is `DoneRepairs`, from
`IngressRead`: a write whose version still matches has all rules of its own app.

`StagingProofs`: `StagingInv`. That the Cloud Controller is told once rests on
`FailedUntold`: while a Job can start another pod, a pod that failed has told it
nothing, because the Job is gone before a pod that did is answered. From it
follows `RetriedIsSilent`, and from that `OneVerdict`, for any backoff limit.
`StagingRefinesVerdicts` shows that every step is one of `Verdicts` or is not
seen there. Two things are needed besides: the verdict of a pod does not change
once opi has its report (`ReportShape`), and a report that is passed on while
nothing disturbed the staging is the first one and finds the Job there
(`FirstReport`). The latter rests on `StartedKept`, which, unlike
`JobKeptUntilTold`, covers a Job whose request was answered with an error.
`StagingNeverStuck` is the safety half of `StagingEnds`: in every state somebody
can move. If no pod is at work, those that were started have failed, and the
first of the others can be started; that there is a first one is the least
number principle (`LeastNumber`, from the library's `WFMin`).

`RegistryProofs`: `RegistryInv`. An upload stores its layer before the guid is
known (`ClientShape`), and a buffer loses bytes only to clients that count as
uses of it (`SendingCounts`). With these `RegistryRefinesContentStore` maps each
access of a map to a step of `ContentStore`: `Put` adds a content and forgets who
asked for it, `PutWithID` is not seen, the droplet map is set to a content that
is there, and only a content that was asked for is drained.

`ImagesProofs`: every step of `Images` is one of `Registry` or leaves it alone
(`ImagesImplementRegistry`), so `RegistryInv` holds and gives the layer of a
known guid; the refinement of `ContentStore` holds behind the conversions too
(`ImagesKeepRegistryPromises`). `ImagesInv` adds how far a conversion and its
upload have got (`ConversionShape`), that a droplet on its way is the one its
hash stands for unless the hash is `mixed` (`RightDroplet`), and that an answer
of this life of the registry (`since` against `epoch`) means the guid is known.

`InstancesProofs`: `InstancesInv`. The StatefulSet is the template that the
request asks for but for the number of instances (`StsAsAsked`), and a
container's environment is that of the template, before or after launch
(`EnvAsAsked`); lemmas say which of the four sources wins each variable. For
`AppsHaveTimeToStart`, `TimeGiven` says that time passed and time to the next
probe together make up the delay and a period for every miss. The fourth miss
kills, so three periods have passed since the delay, which is the timeout less a
part of a second. The property is conditional on timeouts whose seconds are an
int32 (`Representable`).

`RecipeProofs`. For `Buildpacks`, `ModifierInv`: the places before `place` hold
keys, those from it on are as the builder left them, and the entries before `pos`
do not have the name that is looked for. For `Unzip`, `UnzipInv`: the entries
before `next` are there and of the right kind (`EntriesDone`), a directory has the
permissions of the first entry that needs it (`DirsRight`), and a file is that of
its last entry so far, but for the one that is being written (`FilesRight`).
Lemmas about paths (`Upto`, `Above`) replace an induction over their length.
`RecipeRefinesStaging` puts the two together: all operations on files are one
step of the pod in `Staging`, `Install`, taken when the last of them is done or
one has failed, and all look-ups are `createSuccessResponse`. It needs no
invariant, so what `StagingProofs` says of reports does not depend on what the
steps do.

Only model-checked: the liveness properties `RouterConverges`,
`RequestsAnswered`, `StagingEnds` and `InstancesComeUp`, since fairness is out of
the prover's reach, and the four violations.

## Not modelled

- The simulator, a stub with fixed answers and no state, and the fakes, which are
  generated for tests.
- The text of requests, manifests, messages and configurations: the models keep
  the fields that the code acts on.
- The conversion of a droplet's tarball to a layer, and the buildpacks
  themselves: external programs and libraries do the work.
- `TaskDesirer.Desire`, which has no caller.
- A file system operation of the unzipper that is left half done: a recipe that
  fails leaves its directory to the end of its pod.

## What could follow

- `RoutesAvailable` of a URI that apps share, from the tick that follows the last
  request for either of them. It needs a history of the requests for a URI.
- The liveness properties as theorems, once the prover takes fairness.
