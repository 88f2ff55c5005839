------------------------------ MODULE Instances ------------------------------
(***************************************************************************)
(* The instances of one app: how a request of the Cloud Controller becomes *)
(* a StatefulSet (bifrost/convert.go, launcher/launcher.go,                *)
(* k8s/statefulset.go, k8s/probe.go), what its containers do when they are *)
(* started (launcher/launchcmd/launch.go), and what GetApp and             *)
(* GetInstances report of them (bifrost/bifrost.go).                       *)
(*                                                                         *)
(* The StatefulSet controller and the kubelet are external: the controller *)
(* starts the pods of an app one after the other and removes them from the *)
(* end, the kubelet runs the probes, never earlier than they are due, and  *)
(* restarts containers.  A value of an environment variable is the         *)
(* sequence of its parts between dashes.                                   *)
(***************************************************************************)
EXTENDS Integers, Sequences, FiniteSets

CONSTANTS
    MaxInstances,       \* bound on the instances asked for
    Environments,       \* sets of variables the users of apps set
    Timeouts,           \* health check timeouts, in milliseconds
    MsPerSecond,        \* 1000
    Period,             \* seconds between two probes: 10 by default
    IntBound,           \* 2^31: an int32 is in -IntBound .. IntBound - 1
    MaxEvents           \* bound on updates, crashes and apps that hang

ASSUME InstancesAssumption ==
    /\ MaxInstances \in Nat
    /\ MsPerSecond \in Nat \ {0}
    /\ Period \in Nat \ {0}
    /\ IntBound \in Nat \ {0}
    /\ Timeouts \subseteq Nat
    /\ MaxEvents \in Nat

Ordinals == 0 .. MaxInstances - 1

VARIABLES
    request,            \* what the Cloud Controller asks for
    staged,             \* start command of the droplet, if it has one
    prompt,             \* the app comes up within its timeout
    sts,                \* the StatefulSet
    readyReplicas,      \* its status
    pod,                \* state of the container of a pod
    env,                \* environment and command of the app in a container
    clock,              \* milliseconds it has been starting, up to its timeout
    due,                \* milliseconds until its next liveness probe
    misses,             \* liveness probes in a row that failed
    ready,              \* pods that are ready
    events              \* updates, crashes and hangs so far

app  == <<request, staged, prompt>>        \* these never change
vars == <<app, sts, readyReplicas, pod, env, clock, due, misses,
          ready, events>>

Empty     == <<>>                       \* the empty string
UserValue == <<"user", -1>>
Missing   == <<"no staging_info.yml">>
NoSts     == [replicas |-> 0]
NoEnv     == [n \in {} |-> Empty]
NoProbe   == [type |-> "none"]

Requests == [startCommand : {Empty, <<"asked">>},
             environment  : UNION {[S -> {UserValue}] : S \in Environments},
             instances    : 0 .. MaxInstances,
             healthType   : {"http", "port", "process"},
             timeoutMs    : Timeouts]
-----------------------------------------------------------------------------
(***************************************************************************)
(* From the request to the StatefulSet.                                    *)
(***************************************************************************)
\* A conversion to int32 keeps the low bits.
ToInt32(n) == ((n + IntBound) % (2 * IntBound)) - IntBound

toSeconds(millis) == ToInt32(millis \div MsPerSecond)

\* What the launcher sets: the start command, and fixed values.
SetupEnv(startCmd) ==
    [n \in {"HOME", "LANG", "PATH", "USER", "CF_INSTANCE_ADDR",
            "CF_INSTANCE_GUID", "CF_INSTANCE_INTERNAL_IP", "CF_INSTANCE_IP",
            "CF_INSTANCE_PORT", "CF_INSTANCE_PORTS", "INSTANCE_GUID", "PORT",
            "TMPDIR", "VCAP_APP_HOST", "VCAP_APP_PORT", "VCAP_SERVICES",
            "START_COMMAND"} |->
        CASE n = "START_COMMAND" -> startCmd
          [] n = "PORT"          -> <<8080>>
          [] OTHER               -> <<"fixed">>]

\* Mutant: the first map wins.
mergeMapsFirst(m1, m2) ==
    [n \in DOMAIN m1 \cup DOMAIN m2 |->
        IF n \in DOMAIN m1 THEN m1[n] ELSE m2[n]]

\* The last map that has a key wins.
mergeMaps(m1, m2) ==
    [n \in DOMAIN m1 \cup DOMAIN m2 |->
        IF n \in DOMAIN m2 THEN m2[n] ELSE m1[n]]

\* Mutant: the port of the health check is left out.
ConvertNoPort(r) ==
    [targetInstances |-> r.instances,
     env             |-> mergeMaps(r.environment, SetupEnv(r.startCommand)),
     health          |-> [type |-> r.healthType, timeoutMs |-> r.timeoutMs,
                          port |-> 0]]

Convert(r) ==
    [targetInstances |-> r.instances,
     env             |-> mergeMaps(r.environment, SetupEnv(r.startCommand)),
     health          |-> [type |-> r.healthType, timeoutMs |-> r.timeoutMs,
                          port |-> 8080]]

Probe(health, initialDelay, failureThreshold) ==
    [type |-> health.type, port |-> health.port, delay |-> initialDelay,
     threshold |-> failureThreshold]

\* Mutant: one failure is enough, as for the readiness probe.
CreateLivenessProbeOnce(health) ==
    IF health.type \in {"http", "port"}
    THEN Probe(health, toSeconds(health.timeoutMs), 1) ELSE NoProbe

CreateLivenessProbe(health) ==
    IF health.type \in {"http", "port"}
    THEN Probe(health, toSeconds(health.timeoutMs), 4) ELSE NoProbe

CreateReadinessProbe(health) ==
    IF health.type \in {"http", "port"} THEN Probe(health, 0, 1) ELSE NoProbe

\* The container of pod i gets the variables of the LRP, and after them
\* POD_NAME, which is the name of the pod; of two values the later one counts.
ContainerEnv(lrpEnv, i) ==
    mergeMaps(lrpEnv, [n \in {"POD_NAME"} |-> <<"app", "guid", i>>])

toStatefulSet(lrp) ==
    [replicas  |-> ToInt32(lrp.targetInstances),
     env       |-> lrp.env,
     liveness  |-> CreateLivenessProbe(lrp.health),
     readiness |-> CreateReadinessProbe(lrp.health)]

\* External: the API server accepts no negative number.
Valid(s) == s.replicas >= 0 /\ (s.liveness # NoProbe => s.liveness.delay >= 0)
-----------------------------------------------------------------------------
Init ==
    /\ request \in Requests
    /\ staged \in {<<"staged">>, Missing}
    /\ prompt \in BOOLEAN
    /\ sts = NoSts
    /\ readyReplicas = 0
    /\ pod = [i \in Ordinals |-> "none"]
    /\ env = [i \in Ordinals |-> NoEnv]
    /\ clock = [i \in Ordinals |-> 0]
    /\ due = [i \in Ordinals |-> 0]
    /\ misses = [i \in Ordinals |-> 0]
    /\ ready = {}
    /\ events = 0

Event == events < MaxEvents /\ events' = events + 1

CreateSts ==
    /\ sts = NoSts
    /\ Valid(toStatefulSet(Convert(request)))
    /\ sts' = toStatefulSet(Convert(request))
    /\ UNCHANGED <<app, readyReplicas, pod, env, clock, due, misses,
                   ready, events>>

\* Mutant: an Update writes what it was sent, which has no variables.
UpdateStsReplaced(n) ==
    /\ sts # NoSts
    /\ n # sts.replicas
    /\ Event
    /\ sts' = [sts EXCEPT !.replicas = ToInt32(n), !.env = NoEnv]
    /\ Valid(sts')
    /\ UNCHANGED <<app, readyReplicas, pod, env, clock, due, misses, ready>>

\* An Update writes the instance count and leaves the pods' template alone.
UpdateSts(n) ==
    /\ sts # NoSts
    /\ n # sts.replicas
    /\ Event
    /\ sts' = [sts EXCEPT !.replicas = ToInt32(n)]
    /\ Valid(sts')
    /\ UNCHANGED <<app, readyReplicas, pod, env, clock, due, misses, ready>>
-----------------------------------------------------------------------------
(***************************************************************************)
(* The StatefulSet controller.                                             *)
(***************************************************************************)
\* A container starts, for the first time or again.
Start(i) ==
    /\ pod' = [pod EXCEPT ![i] = "started"]
    /\ env' = [env EXCEPT ![i] = ContainerEnv(sts.env, i)]
    /\ clock' = [clock EXCEPT ![i] = 0]
    /\ due' = [due EXCEPT ![i] = IF sts.liveness = NoProbe THEN 0
                                 ELSE sts.liveness.delay * MsPerSecond]
    /\ misses' = [misses EXCEPT ![i] = 0]

CreatePod(i) ==
    /\ i < sts.replicas
    /\ pod[i] = "none"
    /\ 0 .. i - 1 \subseteq ready
    /\ Start(i)
    /\ UNCHANGED <<app, sts, readyReplicas, ready, events>>

DeletePod(i) ==
    /\ i >= sts.replicas
    /\ pod[i] # "none"
    /\ \A j \in Ordinals : j > i => pod[j] = "none"
    /\ pod' = [pod EXCEPT ![i] = "none"]
    /\ env' = [env EXCEPT ![i] = NoEnv]
    /\ clock' = [clock EXCEPT ![i] = 0]
    /\ due' = [due EXCEPT ![i] = 0]
    /\ misses' = [misses EXCEPT ![i] = 0]
    /\ ready' = ready \ {i}
    /\ UNCHANGED <<app, sts, readyReplicas, events>>

\* The status follows the pods, some time later.
UpdateStatus ==
    /\ readyReplicas # Cardinality(ready)
    /\ readyReplicas' = Cardinality(ready)
    /\ UNCHANGED <<app, sts, pod, env, clock, due, misses, ready, events>>
-----------------------------------------------------------------------------
(***************************************************************************)
(* launch, the first process of a container.                               *)
(***************************************************************************)
\* START_COMMAND, or else the command in staging_info.yml.
StartCommand(e) ==
    IF e["START_COMMAND"] # Empty THEN e["START_COMMAND"] ELSE staged

\* The part of the pod's name after the last dash.
parsePodIndex(e) == e["POD_NAME"][Len(e["POD_NAME"])]

\* A check fails and the process exits with 1.
CannotLaunch(e) ==
    \/ StartCommand(e) = Missing
    \/ Len(e["POD_NAME"]) <= 1

Launched(e) ==
    mergeMaps(e, [INSTANCE_INDEX    |-> <<parsePodIndex(e)>>,
                  CF_INSTANCE_INDEX |-> <<parsePodIndex(e)>>,
                  command           |-> StartCommand(e)])

\* The launcher is executed in place of launch.
Launch(i) ==
    /\ pod[i] = "started"
    /\ ~CannotLaunch(env[i])
    /\ pod' = [pod EXCEPT ![i] = "booting"]
    /\ env' = [env EXCEPT ![i] = Launched(env[i])]
    /\ UNCHANGED <<app, sts, readyReplicas, clock, due, misses, ready, events>>

LaunchFails(i) ==
    /\ pod[i] = "started"
    /\ CannotLaunch(env[i])
    /\ pod' = [pod EXCEPT ![i] = "exited"]
    /\ ready' = ready \ {i}
    /\ UNCHANGED <<app, sts, readyReplicas, env, clock, due, misses, events>>
-----------------------------------------------------------------------------
(***************************************************************************)
(* The app and the kubelet.                                                *)
(***************************************************************************)
\* The app answers on the port the launcher told it.
Booted(i) ==
    /\ pod[i] = "booting"
    /\ pod' = [pod EXCEPT ![i] = "up"]
    /\ clock' = [clock EXCEPT ![i] = 0]
    /\ UNCHANGED <<app, sts, readyReplicas, env, due, misses, ready, events>>

Hang(i) ==
    /\ pod[i] = "up"
    /\ Event
    /\ pod' = [pod EXCEPT ![i] = "hung"]
    /\ UNCHANGED <<app, sts, readyReplicas, env, clock, due, misses, ready>>

Exit(i) ==
    /\ pod[i] \in {"booting", "up", "hung"}
    /\ Event
    /\ pod' = [pod EXCEPT ![i] = "exited"]
    /\ ready' = ready \ {i}
    /\ UNCHANGED <<app, sts, readyReplicas, env, clock, due, misses>>

RestartContainer(i) ==
    /\ pod[i] \in {"exited", "killed"}
    /\ Start(i)
    /\ UNCHANGED <<app, sts, readyReplicas, ready, events>>

Runs(i) == pod[i] \in {"started", "booting", "up", "hung"}

Healthy(i, probe) == pod[i] = "up" /\ env[i]["PORT"] = <<probe.port>>

ProbeSucceeds(i) ==
    /\ Healthy(i, sts.liveness)
    /\ misses' = [misses EXCEPT ![i] = 0]
    /\ UNCHANGED <<pod, ready>>

ProbeFails(i) ==
    /\ ~Healthy(i, sts.liveness)
    /\ misses' = [misses EXCEPT ![i] = @ + 1]
    /\ \/ /\ misses[i] + 1 < sts.liveness.threshold
          /\ UNCHANGED <<pod, ready>>
       \/ /\ misses[i] + 1 >= sts.liveness.threshold
          /\ pod' = [pod EXCEPT ![i] = "killed"]
          /\ ready' = ready \ {i}

LivenessProbe(i) ==
    /\ Runs(i)
    /\ sts.liveness # NoProbe
    /\ due[i] = 0
    /\ due' = [due EXCEPT ![i] = Period * MsPerSecond]
    /\ ProbeSucceeds(i) \/ ProbeFails(i)
    /\ UNCHANGED <<app, sts, readyReplicas, env, clock, events>>

\* A container without a readiness probe is ready as soon as it runs.
IsReady(i) ==
    IF sts.readiness = NoProbe THEN Runs(i) ELSE Healthy(i, sts.readiness)

ReadinessProbe(i) ==
    /\ Runs(i)
    /\ i \in ready <=> ~IsReady(i)
    /\ ready' = IF IsReady(i) THEN ready \cup {i} ELSE ready \ {i}
    /\ UNCHANGED <<app, sts, readyReplicas, pod, env, clock, due, misses,
                   events>>

Starting(i) == pod[i] \in {"started", "booting"}

\* A prompt app is up before its timeout is over.
Late(i) == Starting(i) /\ clock[i] >= request.timeoutMs

Tick ==
    /\ \E i \in Ordinals : Runs(i)
    /\ prompt => \A i \in Ordinals : ~Late(i)
    /\ clock' = [i \in Ordinals |->
                    IF Starting(i) /\ ~Late(i) THEN clock[i] + 1 ELSE clock[i]]
    /\ due' = [i \in Ordinals |->
                    IF Runs(i) /\ due[i] > 0 THEN due[i] - 1 ELSE due[i]]
    /\ UNCHANGED <<app, sts, readyReplicas, pod, env, misses, ready,
                   events>>
-----------------------------------------------------------------------------
PodStep(i) ==
    \/ CreatePod(i) \/ DeletePod(i) \/ Launch(i) \/ LaunchFails(i) \/ Booted(i)
    \/ RestartContainer(i) \/ LivenessProbe(i) \/ ReadinessProbe(i)

Next ==
    \/ CreateSts
    \/ UpdateStatus
    \/ Tick
    \/ \E n \in 0 .. MaxInstances : UpdateSts(n)
    \/ \E i \in Ordinals : PodStep(i) \/ Hang(i) \/ Exit(i)

Spec == Init /\ [][Next]_vars

(***************************************************************************)
(* Controller, kubelet and launcher do what they can, and an app that is   *)
(* given the time comes up.  Time goes on.                                 *)
(***************************************************************************)
Fairness ==
    /\ WF_vars(CreateSts)
    /\ WF_vars(Tick) /\ WF_vars(UpdateStatus)
    /\ \A i \in Ordinals :
          /\ WF_vars(CreatePod(i)) /\ WF_vars(DeletePod(i))
          /\ WF_vars(Launch(i)) /\ WF_vars(Booted(i))
          /\ WF_vars(RestartContainer(i))
          /\ WF_vars(LivenessProbe(i)) /\ WF_vars(ReadinessProbe(i))

FairSpec == Spec /\ Fairness
-----------------------------------------------------------------------------
(***************************************************************************)
(* What Bifrost reports.  The LRP it gets from a StatefulSet has no target *)
(* instances, and its running instances are only counted.                  *)
(***************************************************************************)
statefulSetToLRP == [targetInstances |-> 0, runningInstances |-> readyReplicas]

GetApp == [instances |-> ToInt32(statefulSetToLRP.targetInstances)]

\* The indices of the instances reported as running.
GetInstances == 0 .. statefulSetToLRP.runningInstances - 1

\* The handlers' responses.  An app that is not there is a 404 of GetApp, and
\* an error in the body of a 200 of GetInstances.
AppResponse ==
    IF sts = NoSts THEN [status |-> 404] ELSE [status |-> 200, lrp |-> GetApp]

GetInstancesResponse ==
    IF sts = NoSts THEN [error |-> TRUE, instances |-> {}]
    ELSE [error |-> FALSE, instances |-> GetInstances]
-----------------------------------------------------------------------------
\* Every variable has its type.
InstancesTypeOK ==
    /\ request \in Requests
    /\ sts = NoSts \/ (sts.replicas \in 0 .. MaxInstances /\ Valid(sts))
    /\ readyReplicas \in 0 .. MaxInstances
    /\ pod \in [Ordinals -> {"none", "started", "booting", "up", "hung",
                             "exited", "killed"}]
    /\ clock \in [Ordinals -> 0 .. request.timeoutMs]
    /\ due \in [Ordinals -> Nat]
    /\ misses \in [Ordinals -> 0 .. 4]
    /\ ready \subseteq {i \in Ordinals : Runs(i)}

\* The timeout in seconds is an int32 (the Cloud Controller's limit is far lower).
Representable == request.timeoutMs \div MsPerSecond < IntBound

(***************************************************************************)
(* An app that is still starting is not killed before its health check     *)
(* timeout is over, although the timeout is rounded down to seconds        *)
(* (toSeconds in k8s/probe.go): the failures the liveness probe tolerates  *)
(* make up for the part of a second that was cut off.                      *)
(***************************************************************************)
TimeToStart ==
    [][\A i \in Ordinals :
          Starting(i) /\ pod'[i] = "killed" /\ Representable
             => clock[i] >= request.timeoutMs]_vars

(***************************************************************************)
(* A container runs the start command of the request, or else that of its  *)
(* droplet, under the index that its pod has in the StatefulSet, whatever  *)
(* variables the app's user has set: the launcher's variables, POD_NAME    *)
(* and the index replace the user's on the long way through Convert,       *)
(* toStatefulSet and launch.                                               *)
(***************************************************************************)
RunsAsAsked ==
    \A i \in Ordinals : pod[i] \in {"booting", "up", "hung"} =>
        /\ env[i]["command"] =
              IF request.startCommand # Empty THEN request.startCommand
              ELSE staged
        /\ env[i]["CF_INSTANCE_INDEX"] = <<i>>
        /\ env[i]["INSTANCE_INDEX"] = <<i>>

(***************************************************************************)
(* Apps that start in time come up and stay up, all instances that were    *)
(* asked for last, after any crash and hang: the probes look where the     *)
(* launcher makes the app listen, and never kill an app that has not had   *)
(* its time (k8s/probe.go, launcher/launcher.go, bifrost/convert.go).      *)
(* From then on GetApp finds the app and GetInstances lists these          *)
(* instances, no more and no fewer (bifrost/bifrost.go).                   *)
(***************************************************************************)
InstancesComeUp ==
    prompt /\ Representable /\ (request.startCommand # Empty \/ staged # Missing)
        => <>[](/\ AppResponse.status = 200
                /\ ready = 0 .. sts.replicas - 1
                /\ \A i \in ready : pod[i] = "up" \/ sts.liveness = NoProbe
                /\ GetInstancesResponse.instances = ready)
-----------------------------------------------------------------------------
Template == toStatefulSet(Convert(request))

\* The StatefulSet is what was asked for, but for the number of instances.
StsAsAsked ==
    \/ sts = NoSts /\ \A i \in Ordinals : pod[i] = "none"
    \/ sts = [Template EXCEPT !.replicas = sts.replicas]

\* A container has the variables of the template and, once launch has done its
\* work, the command and the index.
EnvAsAsked ==
    /\ DOMAIN env = Ordinals
    /\ \A i \in Ordinals :
          /\ pod[i] = "started" => env[i] = ContainerEnv(Template.env, i)
          /\ pod[i] \in {"booting", "up", "hung"} =>
                env[i] = Launched(ContainerEnv(Template.env, i))

\* No container runs that has missed all its probes, and a container that is
\* starting has had the time that its misses stand for, or all of its timeout.
TimeGiven ==
    Template.liveness # NoProbe => \A i \in Ordinals :
        /\ Runs(i) => misses[i] < Template.liveness.threshold
        /\ Starting(i) =>
              \/ Late(i)
              \/ clock[i] + due[i] >= Template.liveness.delay * MsPerSecond
                                       + misses[i] * (Period * MsPerSecond)

(***************************************************************************)
(* The inductive invariant of the instances: what Convert, toStatefulSet   *)
(* and launch have made of the request stays in the StatefulSet and in     *)
(* every container through updates, crashes, hangs and restarts, and every *)
(* failed probe of a starting container is paid for with time              *)
(* (k8s/probe.go).                                                         *)
(***************************************************************************)
InstancesInv == InstancesTypeOK /\ StsAsAsked /\ EnvAsAsked /\ TimeGiven
=============================================================================
