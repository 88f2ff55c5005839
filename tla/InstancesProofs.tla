--------------------------- MODULE InstancesProofs ---------------------------
(***************************************************************************)
(* Proofs about Instances, for any request, any numbers of instances and   *)
(* events, any length of a second and of a probe period and any width of   *)
(* an int32.                                                               *)
(***************************************************************************)
EXTENDS Instances, TLAPS, FiniteSetTheorems

(***************************************************************************)
(* Arithmetic.                                                             *)
(***************************************************************************)
\* A remainder is no larger than the number, and a small number remains.
LEMMA ModBounds ==
    \A a \in Nat, b \in Nat \ {0} : a % b \in Nat /\ a % b <= a /\ (a < b => a % b = a)
  OBVIOUS

\* What is cut off is less than a second.
LEMMA DivBounds ==
    \A t \in Nat, m \in Nat \ {0} :
        t \div m \in Nat /\ t < (t \div m) * m + m
  OBVIOUS

\* One more factor is one more summand.
LEMMA OneMore == \A m, p \in Nat : (m + 1) * p = m * p + p
  OBVIOUS

\* Products are natural numbers.
LEMMA Products == \A m, p \in Nat : m * p \in Nat
  OBVIOUS

\* A period of seconds is at least one of them.
LEMMA Longer == \A m, p \in Nat : p > 0 => p * m >= m
  OBVIOUS

\* A conversion to int32 keeps small numbers and never makes one larger.
LEMMA Int32Bounds ==
    \A n \in Nat : /\ ToInt32(n) \in Int
                   /\ ToInt32(n) <= n
                   /\ n < IntBound => ToInt32(n) = n
<1> TAKE n \in Nat
<1> DEFINE a == n + IntBound
           b == 2 * IntBound
<1>1. a \in Nat /\ b \in Nat \ {0} /\ IntBound \in Nat
  BY InstancesAssumption
<1>2. a % b \in Nat /\ a % b <= a /\ (a < b => a % b = a)
  BY <1>1, ModBounds
<1>3. ToInt32(n) = (a % b) - IntBound
  BY DEF ToInt32
<1>4. n < IntBound => a < b
  BY <1>1
<1>5. a - IntBound = n
  BY <1>1
<1> HIDE DEF a, b
<1>6. QED  BY <1>1, <1>2, <1>3, <1>4, <1>5
-----------------------------------------------------------------------------
(***************************************************************************)
(* The way of the request to a container.                                  *)
(***************************************************************************)
\* The template has the command and the probes of the request.
LEMMA TemplateFields ==
    /\ Template.env = mergeMaps(request.environment, SetupEnv(request.startCommand))
    /\ Template.liveness # NoProbe =>
          /\ Template.liveness.delay = toSeconds(request.timeoutMs)
          /\ Template.liveness.threshold = 4
    /\ Template.replicas = ToInt32(request.instances)
    /\ Template = [replicas |-> Template.replicas, env |-> Template.env,
                   liveness |-> Template.liveness, readiness |-> Template.readiness]
<1>1. Template.env = mergeMaps(request.environment, SetupEnv(request.startCommand))
  BY DEF Template, toStatefulSet, Convert
<1>2. Template.liveness = CreateLivenessProbe(Convert(request).health)
  BY DEF Template, toStatefulSet
<1>3. Convert(request).health.timeoutMs = request.timeoutMs
  BY DEF Convert
<1>4. Template.liveness # NoProbe =>
          /\ Template.liveness.delay = toSeconds(request.timeoutMs)
          /\ Template.liveness.threshold = 4
  BY <1>2, <1>3 DEF CreateLivenessProbe, Probe
<1>5. Template.replicas = ToInt32(request.instances)
  BY DEF Template, toStatefulSet, Convert
<1>6. Template = [replicas |-> Template.replicas, env |-> Template.env,
                  liveness |-> Template.liveness, readiness |-> Template.readiness]
  BY DEF Template, toStatefulSet
<1>7. QED  BY <1>1, <1>4, <1>5, <1>6

\* A StatefulSet that is there has the fields of the template.
LEMMA StsFields ==
    ASSUME sts = [Template EXCEPT !.replicas = sts.replicas]
    PROVE  /\ sts.liveness = Template.liveness
           /\ sts.readiness = Template.readiness
           /\ sts.env = Template.env
           /\ \A n : [sts EXCEPT !.replicas = n] = [Template EXCEPT !.replicas = n]
           /\ \A n : [sts EXCEPT !.replicas = n].replicas = n
  BY TemplateFields

\* A StatefulSet that is there is not none.
LEMMA NotNoSts == \A n : [Template EXCEPT !.replicas = n] # NoSts
<1> TAKE n
<1>1. DOMAIN NoSts = {"replicas"}
  BY DEF NoSts
<1>2. "env" \in DOMAIN Template
  BY DEF Template, toStatefulSet
<1>3. "env" \in DOMAIN [Template EXCEPT !.replicas = n]
  BY <1>2
<1>4. QED  BY <1>1, <1>3

\* launch finds the command of the request and the name of its pod, whatever the
\* user has set.
LEMMA ContainerVariables ==
    ASSUME NEW i \in Ordinals
    PROVE  /\ ContainerEnv(Template.env, i)["START_COMMAND"] = request.startCommand
           /\ ContainerEnv(Template.env, i)["POD_NAME"] = <<"app", "guid", i>>
<1> DEFINE s == SetupEnv(request.startCommand)
           o == [n \in {"POD_NAME"} |-> <<"app", "guid", i>>]
<1>1. "START_COMMAND" \in DOMAIN s /\ s["START_COMMAND"] = request.startCommand
  BY DEF SetupEnv
<1>2. DOMAIN o = {"POD_NAME"} /\ o["POD_NAME"] = <<"app", "guid", i>>
  OBVIOUS
<1>3. ContainerEnv(Template.env, i) = mergeMaps(Template.env, o)
  BY DEF ContainerEnv
<1>4. Template.env = mergeMaps(request.environment, s)
  BY TemplateFields
<1> HIDE DEF s, o
<1>5. "START_COMMAND" \in DOMAIN Template.env
      /\ Template.env["START_COMMAND"] = request.startCommand
  BY <1>1, <1>4 DEF mergeMaps
<1>6. "START_COMMAND" \notin DOMAIN o
  BY <1>2
<1>7. QED  BY <1>2, <1>3, <1>5, <1>6 DEF mergeMaps

\* What the app is started with.
LEMMA LaunchedVariables ==
    ASSUME NEW e, NEW i, e["POD_NAME"] = <<"app", "guid", i>>
    PROVE  /\ Launched(e)["command"] = StartCommand(e)
           /\ Launched(e)["INSTANCE_INDEX"] = <<i>>
           /\ Launched(e)["CF_INSTANCE_INDEX"] = <<i>>
<1> DEFINE l == [INSTANCE_INDEX    |-> <<parsePodIndex(e)>>,
                 CF_INSTANCE_INDEX |-> <<parsePodIndex(e)>>,
                 command           |-> StartCommand(e)]
<1>1. parsePodIndex(e) = i
  BY DEF parsePodIndex
<1>2. DOMAIN l = {"INSTANCE_INDEX", "CF_INSTANCE_INDEX", "command"}
      /\ l["INSTANCE_INDEX"] = <<i>> /\ l["CF_INSTANCE_INDEX"] = <<i>>
      /\ l["command"] = StartCommand(e)
  BY <1>1
<1>3. Launched(e) = mergeMaps(e, l)
  BY DEF Launched
<1> HIDE DEF l
<1>4. QED  BY <1>2, <1>3 DEF mergeMaps
-----------------------------------------------------------------------------
(***************************************************************************)
(* The inductive invariant.                                                *)
(***************************************************************************)
PodStates == {"none", "started", "booting", "up", "hung", "exited", "killed"}

\* The time that m misses in a row stand for.
Owed(m) == Template.liveness.delay * MsPerSecond + m * (Period * MsPerSecond)

\* The constants and what they are multiplied to.
LEMMA Numbers ==
    /\ Ordinals \subseteq Nat /\ MaxInstances \in Nat
    /\ MsPerSecond \in Nat \ {0} /\ Period * MsPerSecond \in Nat
    /\ Period * MsPerSecond >= MsPerSecond
<1>1. MaxInstances \in Nat /\ MsPerSecond \in Nat \ {0} /\ Period \in Nat \ {0}
  BY InstancesAssumption
<1>2. Ordinals \subseteq Nat
  BY <1>1 DEF Ordinals
<1>3. QED  BY <1>1, <1>2, Products, Longer

\* The numbers of a request.
LEMMA Request ==
    ASSUME request \in Requests
    PROVE  /\ request.timeoutMs \in Nat
           /\ request.instances \in 0 .. MaxInstances
           /\ toSeconds(request.timeoutMs) \in Int
<1>1. request.timeoutMs \in Nat /\ request.instances \in 0 .. MaxInstances
  BY InstancesAssumption DEF Requests
<1>2. request.timeoutMs \div MsPerSecond \in Nat
  BY <1>1, DivBounds, Numbers
<1>3. QED  BY <1>1, <1>2, Int32Bounds DEF toSeconds

\* A pod that is there is one of the StatefulSet that was asked for.
LEMMA Running ==
    ASSUME InstancesInv, NEW i \in Ordinals, pod[i] # "none" \/ i < sts.replicas
    PROVE  /\ sts = [Template EXCEPT !.replicas = sts.replicas]
           /\ sts.liveness = Template.liveness
           /\ sts.readiness = Template.readiness
           /\ sts.env = Template.env
           /\ Template.liveness # NoProbe =>
                /\ Template.liveness.delay = toSeconds(request.timeoutMs)
                /\ Template.liveness.delay \in Nat
                /\ Template.liveness.threshold = 4
<1>1. NoSts.replicas = 0 /\ ~(i < 0)
  BY Numbers DEF NoSts
<1>2. sts # NoSts /\ sts = [Template EXCEPT !.replicas = sts.replicas]
  BY <1>1, NotNoSts DEF InstancesInv, StsAsAsked
<1>3. sts.liveness = Template.liveness /\ sts.readiness = Template.readiness
      /\ sts.env = Template.env
  BY <1>2, StsFields
<1>4. ASSUME Template.liveness # NoProbe
      PROVE  /\ Template.liveness.delay = toSeconds(request.timeoutMs)
             /\ Template.liveness.delay \in Nat
             /\ Template.liveness.threshold = 4
  <2>1. Template.liveness.delay = toSeconds(request.timeoutMs)
        /\ Template.liveness.threshold = 4
    BY <1>4, TemplateFields
  <2>2. toSeconds(request.timeoutMs) \in Int
    BY Request DEF InstancesInv, InstancesTypeOK
  <2>3. Template.liveness.delay >= 0
    BY <1>2, <1>3, <1>4 DEF InstancesInv, InstancesTypeOK, Valid
  <2>4. QED  BY <2>1, <2>2, <2>3
<1>5. QED  BY <1>2, <1>3, <1>4

\* Each further miss stands for a period.
LEMMA OwedTime ==
    ASSUME Template.liveness.delay \in Nat
    PROVE  /\ Owed(0) = Template.liveness.delay * MsPerSecond
           /\ Template.liveness.delay * MsPerSecond \in Nat
           /\ \A m \in Nat : Owed(m) \in Nat /\ Owed(m + 1) = Owed(m) + Period * MsPerSecond
<1> DEFINE P == Period * MsPerSecond
           D == Template.liveness.delay * MsPerSecond
<1>1. P \in Nat /\ D \in Nat
  BY Numbers, Products
<1>2. \A m \in Nat : Owed(m) = D + m * P
  BY DEF Owed
<1> HIDE DEF P, D
<1>3. 0 * P = 0 /\ \A m \in Nat : m * P \in Nat /\ (m + 1) * P = m * P + P
  BY <1>1, Products, OneMore
<1>4. Owed(0) = D /\ \A m \in Nat : Owed(m) \in Nat /\ Owed(m + 1) = Owed(m) + P
  BY <1>1, <1>2, <1>3
<1>5. QED  BY <1>1, <1>4 DEF P, D

\* At the start nothing runs.
LEMMA InitInv == Init => InstancesInv
<1> SUFFICES ASSUME Init PROVE InstancesInv
  OBVIOUS
<1>1. request.timeoutMs \in Nat /\ MaxInstances \in Nat
  BY Request, Numbers DEF Init
<1>2. 0 \in 0 .. request.timeoutMs /\ 0 \in 0 .. MaxInstances
  BY <1>1
<1>3. InstancesTypeOK
  BY <1>2 DEF Init, InstancesTypeOK
<1>4. \A i \in Ordinals : pod[i] = "none"
  BY DEF Init
<1>5. StsAsAsked /\ EnvAsAsked /\ TimeGiven
  BY <1>4 DEF Init, StsAsAsked, EnvAsAsked, TimeGiven, Runs, Starting
<1>6. QED  BY <1>3, <1>5 DEF InstancesInv

\* What does not change with the app.
LEMMA SameApp ==
    ASSUME UNCHANGED app
    PROVE  /\ request' = request /\ staged' = staged /\ prompt' = prompt
           /\ Template' = Template
           /\ \A e : Launched(e)' = Launched(e)
<1>1. request' = request /\ staged' = staged /\ prompt' = prompt
  BY DEF app
<1>2. Template' = Template
  BY <1>1 DEF Template
<1>3. \A e : Launched(e)' = Launched(e)
  BY <1>1 DEF Launched, StartCommand
<1>4. QED  BY <1>1, <1>2, <1>3

\* The StatefulSet is created or its number of instances is changed.
LEMMA StsInv ==
    ASSUME InstancesInv, CreateSts \/ \E n \in 0 .. MaxInstances : UpdateSts(n)
    PROVE  InstancesInv'
<1>1. UNCHANGED <<app, readyReplicas, pod, env, clock, due, misses, ready>>
  BY DEF CreateSts, UpdateSts
<1>2. Template' = Template /\ request' = request /\ \A e : Launched(e)' = Launched(e)
  BY <1>1, SameApp
<1>3. /\ sts' = [Template EXCEPT !.replicas = sts'.replicas]
      /\ sts'.replicas \in 0 .. MaxInstances
      /\ Valid(sts)'
  <2>1. CASE CreateSts
    <3>1. sts' = Template /\ Valid(sts')
      BY <2>1 DEF CreateSts, Template
    <3>2. Template = [Template EXCEPT !.replicas = Template.replicas]
      BY TemplateFields
    <3>3. request.instances \in 0 .. MaxInstances /\ MaxInstances \in Nat
      BY Request, Numbers DEF InstancesInv, InstancesTypeOK
    <3>4. sts'.replicas \in Int /\ sts'.replicas <= request.instances
      BY <3>1, <3>3, TemplateFields, Int32Bounds
    <3>5. sts'.replicas >= 0
      BY <3>1 DEF Valid
    <3>6. QED  BY <3>1, <3>2, <3>3, <3>4, <3>5 DEF Valid
  <2>2. ASSUME NEW n \in 0 .. MaxInstances, UpdateSts(n)
        PROVE  /\ sts' = [Template EXCEPT !.replicas = sts'.replicas]
               /\ sts'.replicas \in 0 .. MaxInstances
               /\ Valid(sts)'
    <3>1. sts # NoSts /\ sts' = [sts EXCEPT !.replicas = ToInt32(n)] /\ Valid(sts')
      BY <2>2 DEF UpdateSts
    <3>2. sts = [Template EXCEPT !.replicas = sts.replicas]
      BY <3>1 DEF InstancesInv, StsAsAsked
    <3>3. sts' = [Template EXCEPT !.replicas = ToInt32(n)] /\ sts'.replicas = ToInt32(n)
      BY <3>1, <3>2, StsFields
    <3>4. MaxInstances \in Nat /\ n \in Nat /\ n <= MaxInstances
      BY Numbers
    <3>5. ToInt32(n) \in Int /\ ToInt32(n) <= n
      BY <3>4, Int32Bounds
    <3>6. ToInt32(n) >= 0
      BY <3>1, <3>3 DEF Valid
    <3>7. sts'.replicas \in 0 .. MaxInstances
      BY <3>3, <3>4, <3>5, <3>6
    <3>8. sts' = [Template EXCEPT !.replicas = sts'.replicas]
      BY <3>3
    <3>9. Valid(sts)'
      BY <3>1 DEF Valid
    <3>10. QED  BY <3>7, <3>8, <3>9
  <2>3. QED  BY <2>1, <2>2
<1>4. StsAsAsked'
  BY <1>2, <1>3 DEF StsAsAsked
<1>5. InstancesTypeOK'
  BY <1>1, <1>2, <1>3 DEF InstancesInv, InstancesTypeOK, Runs
<1>6. EnvAsAsked'
  BY <1>1, <1>2 DEF InstancesInv, EnvAsAsked, ContainerEnv, mergeMaps
<1>7. TimeGiven'
  BY <1>1, <1>2 DEF InstancesInv, TimeGiven, Runs, Starting, Late
<1>8. QED  BY <1>4, <1>5, <1>6, <1>7 DEF InstancesInv

\* A container starts with the template's variables and all of its time.
LEMMA StartInv ==
    ASSUME InstancesInv, NEW i \in Ordinals, CreatePod(i) \/ RestartContainer(i)
    PROVE  InstancesInv'
<1>1. UNCHANGED <<app, sts, readyReplicas, ready>> /\ Start(i)
  BY DEF CreatePod, RestartContainer
<1>2. Template' = Template /\ request' = request /\ \A e : Launched(e)' = Launched(e)
  BY <1>1, SameApp
<1>3. /\ sts = [Template EXCEPT !.replicas = sts.replicas]
      /\ sts.liveness = Template.liveness
      /\ sts.env = Template.env
      /\ Template.liveness # NoProbe =>
            Template.liveness.delay \in Nat /\ Template.liveness.threshold = 4
  BY Running DEF CreatePod, RestartContainer
<1>4. Template.liveness # NoProbe =>
        /\ Template.liveness.delay * MsPerSecond \in Nat
        /\ Owed(0) = Template.liveness.delay * MsPerSecond
  BY <1>3, OwedTime
<1>5. StsAsAsked'
  BY <1>1, <1>2, <1>3 DEF StsAsAsked
<1>6. InstancesTypeOK'
  <2>1. i \notin ready
    BY DEF CreatePod, RestartContainer, InstancesInv, InstancesTypeOK, Runs
  <2>2. request.timeoutMs \in Nat
    BY Request DEF InstancesInv, InstancesTypeOK
  <2>3. clock' \in [Ordinals -> 0 .. request.timeoutMs]
    BY <1>1, <2>2 DEF Start, InstancesInv, InstancesTypeOK
  <2>4. due' \in [Ordinals -> Nat]
    BY <1>1, <1>3, <1>4 DEF Start, InstancesInv, InstancesTypeOK
  <2>5. misses' \in [Ordinals -> 0 .. 4]
    BY <1>1 DEF Start, InstancesInv, InstancesTypeOK
  <2>6. pod' \in [Ordinals -> PodStates]
    BY <1>1 DEF Start, InstancesInv, InstancesTypeOK, PodStates
  <2>7. ready \subseteq {j \in Ordinals : Runs(j)'}
    BY <1>1, <2>1 DEF Start, InstancesInv, InstancesTypeOK, Runs
  <2>8. QED
    BY <1>1, <1>2, <2>3, <2>4, <2>5, <2>6, <2>7 DEF InstancesInv, InstancesTypeOK, PodStates, Valid
<1>7. EnvAsAsked'
  <2>1. pod' = [pod EXCEPT ![i] = "started"]
        /\ env' = [env EXCEPT ![i] = ContainerEnv(Template.env, i)]
    BY <1>1, <1>3 DEF Start
  <2>2. QED  BY <1>2, <2>1 DEF InstancesInv, EnvAsAsked, InstancesTypeOK
<1>8. TimeGiven'
  <2> SUFFICES ASSUME Template.liveness # NoProbe, NEW j \in Ordinals
               PROVE  /\ Runs(j)' => misses'[j] < Template.liveness.threshold
                      /\ Starting(j)' => Late(j)' \/ clock'[j] + due'[j] >= Owed(misses'[j])
    BY <1>2 DEF TimeGiven, Owed
  <2>1. CASE j = i
    <3>1. clock'[i] = 0 /\ due'[i] = Owed(0) /\ misses'[i] = 0 /\ Owed(0) \in Nat
      BY <1>1, <1>3, <1>4 DEF Start, InstancesInv, InstancesTypeOK
    <3>2. QED  BY <1>3, <2>1, <3>1
  <2>2. CASE j # i
    <3>1. pod'[j] = pod[j] /\ clock'[j] = clock[j] /\ due'[j] = due[j]
          /\ misses'[j] = misses[j]
      BY <1>1, <2>2 DEF Start, InstancesInv, InstancesTypeOK
    <3>2. /\ Runs(j) => misses[j] < Template.liveness.threshold
          /\ Starting(j) => Late(j) \/ clock[j] + due[j] >= Owed(misses[j])
      BY DEF InstancesInv, TimeGiven, Owed
    <3>3. QED  BY <1>2, <3>1, <3>2 DEF Runs, Starting, Late
  <2>3. QED  BY <2>1, <2>2
<1>9. QED  BY <1>5, <1>6, <1>7, <1>8 DEF InstancesInv

\* TimeGiven follows from what it says of each pod in the next state.
LEMMA TimeStep ==
    ASSUME InstancesInv, UNCHANGED app,
           \A j \in Ordinals :
                \/ /\ Runs(j)' => Runs(j)
                   /\ Starting(j)' => Starting(j)
                   /\ clock'[j] = clock[j] /\ due'[j] = due[j] /\ misses'[j] = misses[j]
                \/ ~Runs(j)' /\ ~Starting(j)'
                \/ Runs(j) /\ misses'[j] = misses[j] /\ ~Starting(j)'
                \/ Template.liveness # NoProbe =>
                    /\ Runs(j)' => misses'[j] < Template.liveness.threshold
                    /\ Starting(j)' => Late(j)' \/ clock'[j] + due'[j] >= Owed(misses'[j])
    PROVE  TimeGiven'
<1>1. Template' = Template /\ request' = request
  BY SameApp
<1>2. SUFFICES ASSUME Template.liveness # NoProbe, NEW j \in Ordinals
               PROVE  /\ Runs(j)' => misses'[j] < Template.liveness.threshold
                      /\ Starting(j)' => Late(j)' \/ clock'[j] + due'[j] >= Owed(misses'[j])
  BY <1>1 DEF TimeGiven, Owed
<1>3. /\ Runs(j) => misses[j] < Template.liveness.threshold
      /\ Starting(j) => Late(j) \/ clock[j] + due[j] >= Owed(misses[j])
  BY <1>2 DEF InstancesInv, TimeGiven, Owed
<1>4. Late(j) /\ clock'[j] = clock[j] /\ Starting(j)' => Late(j)'
  BY <1>1 DEF Late
<1>5. QED  BY <1>2, <1>3, <1>4

\* A pod is removed.
LEMMA DeletePodInv ==
    ASSUME InstancesInv, NEW i \in Ordinals, DeletePod(i) PROVE InstancesInv'
<1>1. UNCHANGED <<app, sts, readyReplicas>> /\ ready' = ready \ {i}
      /\ pod' = [pod EXCEPT ![i] = "none"] /\ env' = [env EXCEPT ![i] = NoEnv]
      /\ clock' = [clock EXCEPT ![i] = 0] /\ due' = [due EXCEPT ![i] = 0]
      /\ misses' = [misses EXCEPT ![i] = 0]
  BY DEF DeletePod
<1>2. Template' = Template /\ request' = request /\ \A e : Launched(e)' = Launched(e)
  BY <1>1, SameApp
<1>3. request.timeoutMs \in Nat
  BY Request DEF InstancesInv, InstancesTypeOK
<1>4. InstancesTypeOK'
  BY <1>1, <1>2, <1>3 DEF InstancesInv, InstancesTypeOK, Runs, Valid
<1>5. StsAsAsked'
  BY <1>1, <1>2 DEF InstancesInv, InstancesTypeOK, StsAsAsked
<1>6. EnvAsAsked'
  BY <1>1, <1>2 DEF InstancesInv, InstancesTypeOK, EnvAsAsked
<1>7. TimeGiven'
  <2>1. \A j \in Ordinals :
          \/ pod'[j] = pod[j] /\ clock'[j] = clock[j] /\ due'[j] = due[j]
             /\ misses'[j] = misses[j]
          \/ pod'[j] = "none"
    BY <1>1 DEF InstancesInv, InstancesTypeOK
  <2>2. QED  BY <1>1, <2>1, TimeStep DEF Runs, Starting
<1>8. QED  BY <1>4, <1>5, <1>6, <1>7 DEF InstancesInv

\* launch does its work or gives up; an app comes up, hangs or exits.
LEMMA ContainerInv ==
    ASSUME InstancesInv, NEW i \in Ordinals,
           Launch(i) \/ LaunchFails(i) \/ Booted(i) \/ Hang(i) \/ Exit(i)
    PROVE  InstancesInv'
<1>1. /\ UNCHANGED <<app, sts, readyReplicas, due, misses>>
      /\ \E s \in PodStates : pod' = [pod EXCEPT ![i] = s]
      /\ pod[i] \in {"started", "booting", "up", "hung"}
      /\ \/ /\ pod[i] = "started" /\ pod'[i] = "booting" /\ clock' = clock /\ ready' = ready
            /\ env' = [env EXCEPT ![i] = Launched(env[i])]
         \/ pod'[i] = "exited" /\ env' = env /\ clock' = clock /\ ready' = ready \ {i}
         \/ /\ pod[i] = "booting" /\ pod'[i] = "up" /\ env' = env /\ ready' = ready
            /\ clock' = [clock EXCEPT ![i] = 0]
         \/ /\ pod[i] = "up" /\ pod'[i] = "hung" /\ env' = env /\ ready' = ready
            /\ clock' = clock
  <2>1. pod \in [Ordinals -> PodStates]
    BY DEF InstancesInv, InstancesTypeOK, PodStates
  <2>2. CASE Launch(i)
    BY <2>1, <2>2 DEF Launch, PodStates
  <2>3. CASE LaunchFails(i)
    BY <2>1, <2>3 DEF LaunchFails, PodStates
  <2>4. CASE Booted(i)
    BY <2>1, <2>4 DEF Booted, PodStates
  <2>5. CASE Hang(i)
    BY <2>1, <2>5 DEF Hang, PodStates
  <2>6. CASE Exit(i)
    BY <2>1, <2>6 DEF Exit, PodStates
  <2>7. QED  BY <2>2, <2>3, <2>4, <2>5, <2>6
<1>2. Template' = Template /\ request' = request /\ \A e : Launched(e)' = Launched(e)
  BY <1>1, SameApp
<1>3. pod' \in [Ordinals -> PodStates] /\ \A j \in Ordinals : j # i => pod'[j] = pod[j]
  BY <1>1 DEF InstancesInv, InstancesTypeOK, PodStates
<1>4. InstancesTypeOK'
  <2>1. request.timeoutMs \in Nat
    BY Request DEF InstancesInv, InstancesTypeOK
  <2>2. clock' \in [Ordinals -> 0 .. request.timeoutMs]
    BY <1>1, <2>1 DEF InstancesInv, InstancesTypeOK
  <2>3. ready' \subseteq {j \in Ordinals : Runs(j)'}
    BY <1>1, <1>3 DEF InstancesInv, InstancesTypeOK, Runs
  <2>4. QED
    BY <1>1, <1>2, <1>3, <2>2, <2>3 DEF InstancesInv, InstancesTypeOK, PodStates, Valid
<1>5. StsAsAsked'
  <2>1. sts = [Template EXCEPT !.replicas = sts.replicas]
    BY <1>1, Running
  <2>2. QED  BY <1>1, <1>2, <2>1 DEF StsAsAsked
<1>6. EnvAsAsked'
  <2>1. \A j \in Ordinals : j # i => env'[j] = env[j]
    BY <1>1 DEF InstancesInv, EnvAsAsked
  <2>2. DOMAIN env' = Ordinals
    BY <1>1 DEF InstancesInv, EnvAsAsked
  <2>3. /\ pod'[i] = "started" => env'[i] = ContainerEnv(Template.env, i)
        /\ pod'[i] \in {"booting", "up", "hung"} =>
              env'[i] = Launched(ContainerEnv(Template.env, i))
    BY <1>1 DEF InstancesInv, EnvAsAsked
  <2>4. QED  BY <1>2, <1>3, <2>1, <2>2, <2>3 DEF InstancesInv, EnvAsAsked
<1>7. TimeGiven'
  <2>1. \A j \in Ordinals :
          /\ misses'[j] = misses[j] /\ due'[j] = due[j]
          /\ j # i => pod'[j] = pod[j] /\ clock'[j] = clock[j]
    BY <1>1, <1>3 DEF InstancesInv, InstancesTypeOK
  <2>2. \/ clock'[i] = clock[i] /\ Starting(i) /\ Starting(i)' /\ Runs(i)
        \/ ~Runs(i)' /\ ~Starting(i)'
        \/ Runs(i) /\ ~Starting(i)'
    BY <1>1 DEF Runs, Starting
  <2>3. QED  BY <1>1, <2>1, <2>2, TimeStep DEF Runs, Starting
<1>8. QED  BY <1>4, <1>5, <1>6, <1>7 DEF InstancesInv

\* The status and the readiness of pods change.
LEMMA ReadyInv ==
    ASSUME InstancesInv, UpdateStatus \/ \E i \in Ordinals : ReadinessProbe(i)
    PROVE  InstancesInv'
<1>1. UNCHANGED <<app, sts, pod, env, clock, due, misses>>
  BY DEF UpdateStatus, ReadinessProbe
<1>2. Template' = Template /\ request' = request /\ \A e : Launched(e)' = Launched(e)
  BY <1>1, SameApp
<1>3. ready' \subseteq {j \in Ordinals : Runs(j)'}
  BY <1>1 DEF UpdateStatus, ReadinessProbe, InstancesInv, InstancesTypeOK, Runs
<1>4. readyReplicas' \in 0 .. MaxInstances
  <2>1. CASE UpdateStatus
    <3>1. IsFiniteSet(Ordinals) /\ Cardinality(Ordinals) = MaxInstances
      <4>1. MaxInstances \in Nat /\ MaxInstances - 1 \in Int
        BY Numbers
      <4>2. IsFiniteSet(0 .. MaxInstances - 1)
            /\ Cardinality(0 .. MaxInstances - 1) =
                  IF 0 > MaxInstances - 1 THEN 0 ELSE (MaxInstances - 1) - 0 + 1
        BY <4>1, FS_Interval
      <4>3. QED  BY <4>1, <4>2 DEF Ordinals
    <3>2. ready \subseteq Ordinals
      BY DEF InstancesInv, InstancesTypeOK
    <3>3. Cardinality(ready) \in Nat /\ Cardinality(ready) <= MaxInstances
      BY <3>1, <3>2, FS_Subset, FS_CardinalityType
    <3>4. QED  BY <2>1, <3>3, Numbers DEF UpdateStatus
  <2>2. CASE \E i \in Ordinals : ReadinessProbe(i)
    BY <2>2 DEF ReadinessProbe, InstancesInv, InstancesTypeOK
  <2>3. QED  BY <2>1, <2>2
<1>5. InstancesTypeOK'
  BY <1>1, <1>2, <1>3, <1>4 DEF InstancesInv, InstancesTypeOK, Valid
<1>6. StsAsAsked' /\ EnvAsAsked'
  BY <1>1, <1>2 DEF InstancesInv, StsAsAsked, EnvAsAsked
<1>7. TimeGiven'
  BY <1>1, <1>2 DEF InstancesInv, TimeGiven, Runs, Starting, Late
<1>8. QED  BY <1>5, <1>6, <1>7 DEF InstancesInv

(***************************************************************************)
(* A liveness probe: a failure adds a miss and a period of time, and the   *)
(* one that reaches the threshold kills the container.                     *)
(***************************************************************************)
LEMMA LivenessProbeInv ==
    ASSUME InstancesInv, NEW i \in Ordinals, LivenessProbe(i) PROVE InstancesInv'
<1>1. /\ UNCHANGED <<app, sts, readyReplicas, env, clock>>
      /\ Runs(i) /\ sts.liveness # NoProbe /\ due[i] = 0
      /\ due' = [due EXCEPT ![i] = Period * MsPerSecond]
      /\ ProbeSucceeds(i) \/ ProbeFails(i)
  BY DEF LivenessProbe
<1>2. Template' = Template /\ request' = request /\ \A e : Launched(e)' = Launched(e)
  BY <1>1, SameApp
<1>3. pod[i] # "none"
  BY <1>1 DEF Runs
<1>4. /\ sts = [Template EXCEPT !.replicas = sts.replicas]
      /\ sts.liveness = Template.liveness /\ Template.liveness # NoProbe
      /\ Template.liveness.delay \in Nat /\ Template.liveness.threshold = 4
  BY <1>1, <1>3, Running
<1>5. misses[i] \in 0 .. 3 /\ clock[i] \in Nat
  <2>1. misses[i] \in 0 .. 4 /\ misses[i] < 4
    BY <1>1, <1>4 DEF InstancesInv, InstancesTypeOK, TimeGiven
  <2>2. request.timeoutMs \in Nat /\ clock[i] \in 0 .. request.timeoutMs
    BY Request DEF InstancesInv, InstancesTypeOK
  <2>3. QED  BY <2>1, <2>2
<1>6. \/ /\ pod[i] = "up" /\ misses' = [misses EXCEPT ![i] = 0]
         /\ pod' = pod /\ ready' = ready
      \/ /\ misses[i] + 1 < 4 /\ misses' = [misses EXCEPT ![i] = misses[i] + 1]
         /\ pod' = pod /\ ready' = ready
      \/ /\ misses' = [misses EXCEPT ![i] = misses[i] + 1]
         /\ pod' = [pod EXCEPT ![i] = "killed"] /\ ready' = ready \ {i}
  BY <1>1, <1>4 DEF ProbeSucceeds, ProbeFails, Healthy
<1>7. InstancesTypeOK'
  <2>1. misses' \in [Ordinals -> 0 .. 4]
    BY <1>5, <1>6 DEF InstancesInv, InstancesTypeOK
  <2>2. due' \in [Ordinals -> Nat]
    BY <1>1, Numbers DEF InstancesInv, InstancesTypeOK
  <2>3. pod' \in [Ordinals -> PodStates]
    BY <1>6 DEF InstancesInv, InstancesTypeOK, PodStates
  <2>4. ready' \subseteq {j \in Ordinals : Runs(j)'}
    BY <1>6 DEF InstancesInv, InstancesTypeOK, Runs
  <2>5. QED
    BY <1>1, <1>2, <2>1, <2>2, <2>3, <2>4 DEF InstancesInv, InstancesTypeOK, PodStates, Valid
<1>8. StsAsAsked'
  BY <1>1, <1>2, <1>4 DEF StsAsAsked
<1>9. EnvAsAsked'
  <2>1. \A j \in Ordinals : pod'[j] = pod[j] \/ pod'[j] = "killed"
    BY <1>6 DEF InstancesInv, InstancesTypeOK
  <2>2. QED  BY <1>1, <1>2, <2>1 DEF InstancesInv, EnvAsAsked
<1>10. TimeGiven'
  <2>1. ASSUME NEW j \in Ordinals, j # i
        PROVE  pod'[j] = pod[j] /\ clock'[j] = clock[j] /\ due'[j] = due[j]
               /\ misses'[j] = misses[j]
    BY <1>1, <1>6, <2>1 DEF InstancesInv, InstancesTypeOK
  <2>2. \/ ~Runs(i)' /\ ~Starting(i)'
        \/ /\ Runs(i)' => misses'[i] < Template.liveness.threshold
           /\ Starting(i)' => Late(i)' \/ clock'[i] + due'[i] >= Owed(misses'[i])
    <3>1. CASE pod[i] = "up" /\ misses' = [misses EXCEPT ![i] = 0] /\ pod' = pod
      <4>1. misses'[i] = 0 /\ ~Starting(i)'
        BY <3>1 DEF InstancesInv, InstancesTypeOK, Starting
      <4>2. QED  BY <1>4, <4>1
    <3>2. CASE /\ misses[i] + 1 < 4 /\ misses' = [misses EXCEPT ![i] = misses[i] + 1]
               /\ pod' = pod
      <4>1. misses'[i] = misses[i] + 1 /\ due'[i] = Period * MsPerSecond /\ clock'[i] = clock[i]
        BY <1>1, <3>2 DEF InstancesInv, InstancesTypeOK
      <4>2. Starting(i) => Late(i) \/ clock[i] >= Owed(misses[i])
        <5>1. Starting(i) => Late(i) \/ clock[i] + due[i] >= Owed(misses[i])
          BY <1>4 DEF InstancesInv, TimeGiven, Owed
        <5>2. QED  BY <1>1, <1>5, <5>1
      <4>3. Owed(misses[i]) \in Nat
            /\ Owed(misses[i] + 1) = Owed(misses[i]) + Period * MsPerSecond
        BY <1>4, <1>5, OwedTime
      <4>4. Starting(i)' => Starting(i)
        BY <3>2 DEF Starting
      <4>5. Starting(i)' => Late(i)' \/ clock'[i] >= Owed(misses[i])
        BY <1>2, <4>1, <4>2, <4>4 DEF Late
      <4>6. clock'[i] >= Owed(misses[i]) => clock'[i] + due'[i] >= Owed(misses'[i])
        BY <1>5, <4>1, <4>3, Numbers
      <4>7. QED  BY <1>4, <3>2, <4>1, <4>5, <4>6
    <3>3. CASE pod' = [pod EXCEPT ![i] = "killed"]
      BY <3>3 DEF InstancesInv, InstancesTypeOK, Runs, Starting
    <3>4. QED  BY <1>6, <3>1, <3>2, <3>3
  <2>3. QED  BY <1>1, <2>1, <2>2, TimeStep DEF Runs, Starting
<1>11. QED  BY <1>7, <1>8, <1>9, <1>10 DEF InstancesInv

\* Time passes for every container that runs.
LEMMA TickInv == ASSUME InstancesInv, Tick PROVE InstancesInv'
<1>1. /\ UNCHANGED <<app, sts, readyReplicas, pod, env, misses, ready>>
      /\ clock' = [i \in Ordinals |->
                    IF Starting(i) /\ ~Late(i) THEN clock[i] + 1 ELSE clock[i]]
      /\ due' = [i \in Ordinals |->
                    IF Runs(i) /\ due[i] > 0 THEN due[i] - 1 ELSE due[i]]
  BY DEF Tick
<1>2. Template' = Template /\ request' = request /\ \A e : Launched(e)' = Launched(e)
  BY <1>1, SameApp
<1>3. /\ request.timeoutMs \in Nat
      /\ \A i \in Ordinals : /\ clock[i] \in 0 .. request.timeoutMs
                              /\ due[i] \in Nat
                              /\ misses[i] \in 0 .. 4
  BY Request DEF InstancesInv, InstancesTypeOK
<1>4. InstancesTypeOK'
  <2>1. clock' \in [Ordinals -> 0 .. request.timeoutMs]
    BY <1>1, <1>3 DEF Late
  <2>2. due' \in [Ordinals -> Nat]
    BY <1>1, <1>3
  <2>3. QED  BY <1>1, <1>2, <2>1, <2>2 DEF InstancesInv, InstancesTypeOK, Runs, Valid
<1>5. StsAsAsked' /\ EnvAsAsked'
  BY <1>1, <1>2 DEF InstancesInv, StsAsAsked, EnvAsAsked
<1>6. TimeGiven'
  <2>1. ASSUME NEW j \in Ordinals, Template.liveness # NoProbe
        PROVE  /\ Runs(j)' => misses'[j] < Template.liveness.threshold
               /\ Starting(j)' => Late(j)' \/ clock'[j] + due'[j] >= Owed(misses'[j])
    <3>1. (Runs(j)' <=> Runs(j)) /\ (Starting(j)' <=> Starting(j)) /\ misses'[j] = misses[j]
          /\ (Starting(j) => Runs(j))
      BY <1>1 DEF Runs, Starting
    <3>2. /\ Runs(j) => misses[j] < Template.liveness.threshold
          /\ Starting(j) => Late(j) \/ clock[j] + due[j] >= Owed(misses[j])
      BY <2>1 DEF InstancesInv, TimeGiven, Owed
    <3>3. ASSUME Starting(j) PROVE Late(j)' \/ clock'[j] + due'[j] >= Owed(misses[j])
      <4>1. CASE Late(j)
        BY <1>1, <1>2, <3>1, <3>3, <4>1 DEF Late
      <4>2. CASE ~Late(j)
        <5>1. clock'[j] = clock[j] + 1 /\ (due'[j] = due[j] - 1 \/ due'[j] = due[j])
          BY <1>1, <3>3, <4>2
        <5>2. pod[j] # "none"
          BY <3>3 DEF Starting
        <5>3. Owed(misses[j]) \in Nat
          BY <1>3, <2>1, <5>2, Running, OwedTime
        <5>4. QED  BY <1>3, <3>2, <3>3, <4>2, <5>1, <5>3
      <4>3. QED  BY <4>1, <4>2
    <3>4. QED  BY <3>1, <3>2, <3>3
  <2>2. QED  BY <1>1, <2>1, TimeStep
<1>7. QED  BY <1>4, <1>5, <1>6 DEF InstancesInv

\* Every step preserves the inductive invariant.
LEMMA NextInv == InstancesInv /\ [Next]_vars => InstancesInv'
<1> SUFFICES ASSUME InstancesInv, [Next]_vars PROVE InstancesInv'
  OBVIOUS
<1>1. CASE Next
  BY <1>1, StsInv, ReadyInv, TickInv, StartInv, DeletePodInv, ContainerInv,
     LivenessProbeInv DEF Next, PodStep
<1>2. CASE UNCHANGED vars
  <2>1. UNCHANGED <<app, sts, readyReplicas, pod, env, clock, due, misses, ready>>
    BY <1>2 DEF vars
  <2>2. Template' = Template /\ request' = request /\ \A e : Launched(e)' = Launched(e)
    BY <2>1, SameApp
  <2>3. InstancesTypeOK'
    BY <2>1, <2>2 DEF InstancesInv, InstancesTypeOK, Runs, Valid
  <2>4. StsAsAsked' /\ EnvAsAsked'
    BY <2>1, <2>2 DEF InstancesInv, StsAsAsked, EnvAsAsked
  <2>5. TimeGiven'
    BY <2>1, <2>2 DEF InstancesInv, TimeGiven, Runs, Starting, Late
  <2>6. QED  BY <2>3, <2>4, <2>5 DEF InstancesInv
<1>3. QED  BY <1>1, <1>2
-----------------------------------------------------------------------------
(***************************************************************************)
(* InstancesInv holds always: updates, crashes, hangs and probes of any    *)
(* number of instances in any order.                                       *)
(***************************************************************************)
THEOREM InstancesInvariance == Spec => []InstancesInv
  BY InitInv, NextInv, PTL DEF Spec

(***************************************************************************)
(* Every variable keeps its type, also when an instance count does not fit *)
(* an int32 (toStatefulSet in k8s/statefulset.go): a pod that is ready     *)
(* runs, and a container is killed at its fourth miss.                     *)
(***************************************************************************)
THEOREM InstancesTypeCorrect == Spec => []InstancesTypeOK
<1>1. InstancesInv => InstancesTypeOK
  BY DEF InstancesInv
<1>2. QED  BY <1>1, InstancesInvariance, PTL

(***************************************************************************)
(* Whatever variables the user of the app has set, a container runs the    *)
(* start command of the request, or else that of the droplet, under the    *)
(* index of its pod (Convert, toStatefulSet, launch).                      *)
(***************************************************************************)
THEOREM ContainersRunAsAsked == Spec => []RunsAsAsked
<1>1. ASSUME InstancesInv, NEW i \in Ordinals, pod[i] \in {"booting", "up", "hung"}
      PROVE  /\ env[i]["command"] =
                    IF request.startCommand # Empty THEN request.startCommand ELSE staged
             /\ env[i]["CF_INSTANCE_INDEX"] = <<i>>
             /\ env[i]["INSTANCE_INDEX"] = <<i>>
  <2> DEFINE e == ContainerEnv(Template.env, i)
  <2>1. env[i] = Launched(e)
    BY <1>1 DEF InstancesInv, EnvAsAsked
  <2>2. e["START_COMMAND"] = request.startCommand /\ e["POD_NAME"] = <<"app", "guid", i>>
    BY ContainerVariables
  <2> HIDE DEF e
  <2>3. Launched(e)["command"] = StartCommand(e) /\ Launched(e)["INSTANCE_INDEX"] = <<i>>
        /\ Launched(e)["CF_INSTANCE_INDEX"] = <<i>>
    BY <2>2, LaunchedVariables
  <2>4. StartCommand(e) =
          IF request.startCommand # Empty THEN request.startCommand ELSE staged
    BY <2>2 DEF StartCommand
  <2>5. QED  BY <2>1, <2>3, <2>4
<1>2. InstancesInv => RunsAsAsked
  BY <1>1 DEF RunsAsAsked
<1>3. QED  BY <1>2, InstancesInvariance, PTL

(***************************************************************************)
(* An app that is still starting is not killed before its timeout is over, *)
(* for any timeout that fits an int32 of seconds, any period and any       *)
(* length of a second: the probe that kills is the fourth, three periods   *)
(* after the delay, and the timeout is less than a second longer than the  *)
(* delay (toSeconds and CreateLivenessProbe in k8s/probe.go).              *)
(***************************************************************************)
THEOREM AppsHaveTimeToStart == Spec => TimeToStart
<1>1. ASSUME InstancesInv, Next, NEW i \in Ordinals, Starting(i), pod'[i] = "killed",
             Representable
      PROVE  clock[i] >= request.timeoutMs
  <2>1. pod[i] \in {"started", "booting"} /\ pod \in [Ordinals -> PodStates]
    BY <1>1 DEF Starting, InstancesInv, InstancesTypeOK, PodStates
  <2>2. LivenessProbe(i) /\ ProbeFails(i) /\ misses[i] + 1 >= sts.liveness.threshold
    <3>1. ASSUME NEW j \in Ordinals, PodStep(j) \/ Hang(j) \/ Exit(j), ~LivenessProbe(j)
          PROVE  pod'[i] # "killed"
      BY <2>1, <3>1 DEF PodStep, CreatePod, DeletePod, Launch, LaunchFails, Booted,
         RestartContainer, ReadinessProbe, Start, Hang, Exit, PodStates
    <3>2. CreateSts \/ UpdateStatus \/ Tick \/ (\E n \in 0 .. MaxInstances : UpdateSts(n))
          => pod' = pod
      BY DEF CreateSts, UpdateStatus, Tick, UpdateSts
    <3>3. PICK j \in Ordinals : LivenessProbe(j)
      BY <1>1, <2>1, <3>1, <3>2 DEF Next
    <3>4. QED
      BY <1>1, <2>1, <3>3 DEF LivenessProbe, ProbeSucceeds, ProbeFails
  <2>3. /\ sts.liveness = Template.liveness /\ Template.liveness # NoProbe
        /\ Template.liveness.delay = toSeconds(request.timeoutMs)
        /\ Template.liveness.delay \in Nat /\ Template.liveness.threshold = 4
    <3>1. pod[i] # "none" /\ sts.liveness # NoProbe
      BY <2>1, <2>2 DEF LivenessProbe
    <3>2. QED  BY <1>1, <3>1, Running
  <2>4. misses[i] \in 0 .. 4 /\ misses[i] < 4 /\ misses[i] + 1 >= 4 /\ due[i] = 0
    BY <1>1, <2>2, <2>3 DEF InstancesInv, InstancesTypeOK, TimeGiven, LivenessProbe
  <2>5. misses[i] = 3
    BY <2>4
  <2>6. Late(i) \/ clock[i] + 0 >= Owed(3)
    BY <1>1, <2>3, <2>4, <2>5 DEF InstancesInv, TimeGiven, Owed
  <2> DEFINE P == Period * MsPerSecond
             D == Template.liveness.delay * MsPerSecond
  <2>7. Owed(3) = D + 3 * P
    BY DEF Owed
  <2>8. P \in Nat /\ P >= MsPerSecond /\ MsPerSecond \in Nat /\ D \in Nat
    BY <2>3, Numbers, OwedTime
  <2>9. request.timeoutMs \in Nat /\ clock[i] \in 0 .. request.timeoutMs
    BY <1>1, Request DEF InstancesInv, InstancesTypeOK
  <2>10. request.timeoutMs < D + MsPerSecond
    <3>1. request.timeoutMs \div MsPerSecond \in Nat
          /\ request.timeoutMs <
                (request.timeoutMs \div MsPerSecond) * MsPerSecond + MsPerSecond
      BY <2>9, DivBounds, Numbers
    <3>2. Template.liveness.delay = request.timeoutMs \div MsPerSecond
      BY <1>1, <2>3, <3>1, Int32Bounds DEF Representable, toSeconds
    <3>3. QED  BY <3>1, <3>2
  <2> HIDE DEF P, D
  <2>11. D + 3 * P >= request.timeoutMs
    BY <2>8, <2>9, <2>10
  <2>12. QED  BY <2>6, <2>7, <2>8, <2>9, <2>11 DEF Late
<1>2. InstancesInv /\ [Next]_vars =>
        [\A i \in Ordinals :
            Starting(i) /\ pod'[i] = "killed" /\ Representable
               => clock[i] >= request.timeoutMs]_vars
  BY <1>1
<1>3. QED  BY <1>2, InstancesInvariance, PTL DEF Spec, TimeToStart
=============================================================================
