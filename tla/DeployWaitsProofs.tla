--------------------------- MODULE DeployWaitsProofs ---------------------------
(***************************************************************************)
(* Proofs about DeployWaits, for every set of buckets, every number of     *)
(* workers of each job and every budget of faults.                         *)
(***************************************************************************)
EXTENDS DeployWaits, FiniteSetTheorems, TLAPS

\* The constants in the form the proofs use.
LEMMA ConstantFacts ==
    /\ \A j \in Jobs : Size[j] \in Nat /\ Size[j] >= 1 /\ 1 \in Workers(j) /\ Workers(j) \subseteq Nat
    /\ Gated \subseteq Jobs /\ Serial \subseteq Jobs
    /\ MaxFaults \in Nat
    /\ \A b \in Buckets : b \subseteq Jobs
<1>1. \A j \in Jobs : Size[j] \in Nat /\ Size[j] >= 1
  BY SizeAssumption
<1>2. \A j \in Jobs : 1 \in Workers(j) /\ Workers(j) \subseteq Nat
  BY <1>1 DEF Workers
<1> QED BY <1>1, <1>2, BoundsAssumption, BucketsAssumption DEF Gated, Serial, Jobs

\* No job asks itself.
LEMMA DependencyFacts ==
    /\ Dependency("postgres") = "zookeeper"
    /\ Dependency("kafka_broker") = "kafka_controller"
    /\ Dependency("clickhouse") = "clickhouse_keeper"
    /\ Dependency("otel_collector") = "clickhouse"
    /\ \A j \in Gated : Dependency(j) \in Jobs /\ Dependency(j) # j
<1>1. Dependency("postgres") = "zookeeper"
  BY DEF Dependency
<1>2. Dependency("kafka_broker") = "kafka_controller"
  BY DEF Dependency
<1>3. Dependency("clickhouse") = "clickhouse_keeper"
  BY DEF Dependency
<1>4. Dependency("otel_collector") = "clickhouse"
  BY DEF Dependency
<1> QED BY <1>1, <1>2, <1>3, <1>4 DEF Gated, Jobs

\* An allocation is a job and one of its workers.
LEMMA AllocFacts ==
    /\ \A j \in Jobs : \A i \in Workers(j) : <<j, i>> \in Allocs
    /\ \A a \in Allocs : a[1] \in Jobs /\ a[2] \in Workers(a[1]) /\ a = <<a[1], a[2]>>
BY DEF Allocs

LEMMA AskedFacts ==
    ASSUME job \in Gated
    PROVE  /\ Asked \in Nat
           /\ \A h \in Workers(Dependency(job)) : h < Asked /\ h \in Nat
           /\ Asked \notin Workers(Dependency(job))
<1>1. Size[Dependency(job)] \in Nat
  BY ConstantFacts, DependencyFacts
<1> QED BY <1>1 DEF Asked, Workers

\* What may be started next was on the list; of a serial job it is one, of
\* cassandra the first.
LEMMA BatchFacts ==
    ASSUME NEW b \in Batches
    PROVE  /\ b \subseteq todo /\ b # {}
           /\ job \in Serial => \A i, k \in b : i = k
           /\ job = "cassandra" => \A i \in b : \A l \in todo : i <= l
<1>1. CASE job \notin Serial
  <2>1. job # "cassandra"
    BY <1>1 DEF Serial
  <2>2. b \in (SUBSET todo) \ {{}}
    BY <1>1, <2>1 DEF Batches
  <2>3. b \subseteq todo /\ b # {}
    BY <2>2
  <2> QED BY <1>1, <2>1, <2>3
<1>2. CASE job \in Serial /\ job = "cassandra"
  <2>1. b \in {{i} : i \in {k \in todo : \A l \in todo : k <= l}}
    BY <1>2 DEF Batches
  <2> QED BY <2>1
<1>3. CASE job \in Serial /\ job # "cassandra"
  <2>1. b \in {{i} : i \in todo}
    BY <1>3 DEF Batches
  <2> QED BY <1>3, <2>1
<1> QED BY <1>1, <1>2, <1>3

\* One more fault stays within the budget and shows.
LEMMA SpendFacts ==
    ASSUME TypeOK, NEW kind, Spend(kind) \/ faults' = faults
    PROVE  faults' \in 0..MaxFaults /\ (Spend(kind) => faults' > 0) /\ faults' >= faults
BY ConstantFacts DEF Spend, TypeOK

-----------------------------------------------------------------------------
\* The hooks.

\* What the four hooks have in common: a step of one skips, reads or has an answer,
\* or it ends the deploy.
Excuses == external \/ "clickhouse" \notin bucket \/ faults' > 0
Skips(i) == /\ Skip(i)
            /\ job = "otel_collector" => Excuses
            /\ job # "otel_collector" => i # 1
Answers(i) == /\ ask[i] \in Workers(Dependency(job))
              /\ node[<<Dependency(job), ask[i]>>] = "up"
              /\ ask' = [ask EXCEPT ![i] = ask[i] + 1]
              /\ UNCHANGED <<pc, job, skips, rollout, whole>>
Fine == faults' \in 0..MaxFaults /\ faults' >= faults

LEMMA AskNextStep ==
    ASSUME TypeOK, NEW i \in Workers(job), AskNext(i)
    PROVE  Fine /\ (Answers(i) \/ Stop)
<1>1. CASE faults' = faults
  BY <1>1, SpendFacts DEF AskNext, Answers, Fine, TypeOK
<1>2. CASE faults' # faults
  <2>1. Spend("slow") /\ Stop
    BY <1>2 DEF AskNext
  <2> QED BY <2>1, SpendFacts DEF Fine
<1> QED BY <1>1, <1>2

LEMMA OnFirstStep ==
    ASSUME TypeOK, NEW i \in Workers(job), NEW found, job # "otel_collector", OnFirst(i, found)
    PROVE  Fine /\ (Skips(i) \/ Read(i) \/ Answers(i) \/ Stop)
<1>1. CASE i # 1 /\ Skip(i) /\ UNCHANGED faults
  BY <1>1, ConstantFacts DEF Skips, Fine, TypeOK
<1>2. CASE Read(i) /\ UNCHANGED faults
  BY <1>2, ConstantFacts DEF Fine, TypeOK
<1>3. CASE Missing(i) /\ UNCHANGED faults
  BY <1>3, ConstantFacts DEF Missing, Fine, TypeOK
<1>4. CASE Spend("kv") /\ Missing(i)
  BY <1>4, SpendFacts DEF Missing, Fine
<1>5. CASE AskNext(i)
  BY <1>5, AskNextStep
<1> QED BY <1>1, <1>2, <1>3, <1>4, <1>5 DEF OnFirst

LEMMA HookStep ==
    ASSUME TypeOK, NEW i, GateStep(i)
    PROVE  /\ i \in Workers(job) /\ pc = "gate" /\ job \in Gated
           /\ UNCHANGED <<given, servers, calm>>
           /\ Fine
           /\ Skips(i) \/ Read(i) \/ Answers(i) \/ Stop
<1>1. i \in Workers(job) /\ pc = "gate" /\ UNCHANGED <<given, servers, calm>>
  BY DEF GateStep
<1>2. CASE WaitZookeeper(i)
  <2>1. job = "postgres" /\ OnFirst(i, DependencyListed)
    BY <1>2 DEF WaitZookeeper
  <2> QED BY <1>1, <2>1, OnFirstStep DEF Gated
<1>3. CASE WaitClickhouseKeeper(i)
  <2>1. job = "clickhouse" /\ OnFirst(i, DependencyListed)
    BY <1>3 DEF WaitClickhouseKeeper
  <2> QED BY <1>1, <2>1, OnFirstStep DEF Gated
<1>4. CASE WaitKafkaController(i)
  <2>1. job = "kafka_broker" /\ OnFirst(i, portFound /\ DependencyListed)
    BY <1>4 DEF WaitKafkaController
  <2> QED BY <1>1, <2>1, OnFirstStep DEF Gated
<1>5. CASE WaitClickhouse(i)
  <2>1. job = "otel_collector" /\ Dependency(job) = "clickhouse"
    BY <1>5, DependencyFacts DEF WaitClickhouse
  <2> SUFFICES Fine /\ (Skips(i) \/ Read(i) \/ Answers(i) \/ Stop)
    BY <1>1, <2>1 DEF Gated
  <2>2. CASE external /\ Skip(i) /\ UNCHANGED faults
    BY <2>1, <2>2, ConstantFacts DEF Skips, Excuses, Fine, TypeOK
  <2>3. CASE /\ IF external THEN Spend("kv") ELSE UNCHANGED faults
             /\ IF DependencyListed THEN Read(i) ELSE Skip(i)
    <3>1. Fine
      BY <2>3, SpendFacts DEF Fine
    <3>2. CASE DependencyListed
      BY <2>3, <3>1, <3>2
    <3>3. CASE ~DependencyListed
      BY <2>1, <2>3, <3>1, <3>3 DEF Skips, Excuses, DependencyListed
    <3> QED BY <3>2, <3>3
  <2>4. CASE Spend("kv") /\ Skip(i)
    BY <2>1, <2>4, SpendFacts DEF Skips, Excuses, Fine
  <2>5. CASE AskNext(i)
    BY <1>1, <2>5, AskNextStep
  <2> QED BY <1>5, <2>2, <2>3, <2>4, <2>5 DEF WaitClickhouse
<1> QED BY <1>1, <1>2, <1>3, <1>4, <1>5 DEF GateStep

-----------------------------------------------------------------------------
\* Types.

LEMMA StopTypes ==
    ASSUME TypeOK, Stop, UNCHANGED <<given, servers, calm>>, faults' \in 0..MaxFaults
    PROVE  TypeOK'
<1>1. UNCHANGED <<bucket, external, portFound, node, seen, calm, job, blind, whole>>
  BY DEF Stop, given, servers
<1>2. ask' \in [Workers(job) -> Nat] /\ skips' = {} /\ todo' = {} /\ batch' = {} /\ pc' = "idle"
  BY DEF Stop
<1> QED BY <1>1, <1>2 DEF TypeOK, Workers, Allocs

LEMMA InitTypes == Init => TypeOK
<1> SUFFICES ASSUME Init PROVE TypeOK
  OBVIOUS
<1>1. node \in [Allocs -> {"absent", "starting", "up"}] /\ \A a \in Allocs : node[a] # "up"
  BY DEF Init
<1>2. job \in Jobs
  BY ConstantFacts DEF Init
<1>3. ask \in [Workers(job) -> Nat] /\ faults \in 0..MaxFaults
  BY ConstantFacts DEF Init
<1>4. /\ bucket \in Buckets /\ external \in BOOLEAN /\ portFound \in BOOLEAN
      /\ seen = {} /\ skips = {} /\ blind = {} /\ todo = {} /\ batch = {}
      /\ pc = "idle" /\ whole \in BOOLEAN /\ calm \in BOOLEAN
  BY DEF Init
<1> QED BY <1>1, <1>2, <1>3, <1>4 DEF TypeOK

LEMMA StepTypes == TypeOK /\ [Next]_vars => TypeOK'
<1> SUFFICES ASSUME TypeOK, [Next]_vars PROVE TypeOK'
  OBVIOUS
<1>1. ASSUME NEW j \in Jobs, StartDeploy(j) PROVE TypeOK'
  <2>1. UNCHANGED <<bucket, external, portFound, node, seen, blind, faults>>
    BY <1>1 DEF StartDeploy, given, servers
  <2>2. /\ job' = j /\ pc' \in {"gate", "start"} /\ ask' = [i \in Workers(j) |-> 0] /\ skips' = {}
        /\ todo' = Workers(j) /\ batch' = {} /\ whole' \in BOOLEAN /\ calm' \in BOOLEAN
    BY <1>1 DEF StartDeploy
  <2> QED BY <2>1, <2>2 DEF TypeOK, Workers, Allocs
<1>2. ASSUME NEW i, GateStep(i) PROVE TypeOK'
  <2>1. /\ i \in Workers(job) /\ pc = "gate" /\ job \in Gated
        /\ UNCHANGED <<given, servers, calm>> /\ faults' \in 0..MaxFaults
        /\ Skips(i) \/ Read(i) \/ Answers(i) \/ Stop
    BY <1>2, HookStep DEF Fine
  <2>2. CASE Stop
    BY <2>1, <2>2, StopTypes
  <2>3. CASE Skips(i) \/ Read(i) \/ Answers(i)
    <3>1. UNCHANGED <<bucket, external, portFound, node, seen, calm, pc, job, todo, batch, blind, whole>>
      BY <2>1, <2>3 DEF Skips, Skip, Read, Answers, given, servers, rollout
    <3>2. ask' \in [Workers(job) -> Nat] /\ skips' \subseteq Workers(job)
      <4>1. CASE Skips(i)
        BY <2>1, <4>1, AskedFacts DEF Skips, Skip, TypeOK
      <4>2. CASE Read(i)
        BY <2>1, <4>2 DEF Read, TypeOK
      <4>3. CASE Answers(i)
        <5>1. ask[i] + 1 \in Nat
          BY <2>1 DEF TypeOK
        <5> QED BY <2>1, <4>3, <5>1 DEF Answers, TypeOK
      <4> QED BY <2>3, <4>1, <4>2, <4>3
    <3> QED BY <2>1, <3>1, <3>2 DEF TypeOK, Workers, Allocs
  <2> QED BY <2>1, <2>2, <2>3
<1>3. CASE PassGate
  <2>1. UNCHANGED <<bucket, external, portFound, node, seen, calm, job, ask, skips, todo, batch, whole, faults>>
    BY <1>3 DEF PassGate, given, servers, gate
  <2>2. pc' = "start" /\ blind' \subseteq blind \cup {job}
    BY <1>3 DEF PassGate
  <2> QED BY <2>1, <2>2 DEF TypeOK, Workers, Allocs
<1>4. CASE StartBatch
  <2> DEFINE Starts(b, again) ==
                /\ node' = [a \in Allocs |-> IF a[1] = job /\ a[2] \in again THEN "starting" ELSE node[a]]
                /\ batch' = b
                /\ todo' = todo \ b
  <2>0. PICK b \in Batches : \E again \in SUBSET b : Starts(b, again)
    BY <1>4 DEF StartBatch
  <2>1. PICK again \in SUBSET b : Starts(b, again)
    BY <2>0
  <2>2. /\ UNCHANGED <<bucket, external, portFound, seen, job, ask, skips, blind, whole, calm, faults>>
        /\ pc' = "await"
    BY <1>4 DEF StartBatch, given, gate
  <2>3. b \subseteq todo
    BY <2>1, BatchFacts
  <2>4. /\ node' \in [Allocs -> {"absent", "starting", "up"}]
        /\ \A a \in Allocs : node'[a] = "up" => a \in seen
    BY <2>1 DEF TypeOK
  <2> QED BY <2>1, <2>2, <2>3, <2>4 DEF TypeOK, Workers, Allocs
<1>5. ASSUME NEW i \in Workers(job), WaitUp(i) PROVE TypeOK'
  <2>1. UNCHANGED <<given, servers, calm, faults>>
    BY <1>5 DEF WaitUp
  <2>2. CASE Stop
    BY <2>1, <2>2, StopTypes DEF TypeOK
  <2>3. CASE ~Stop
    <3>1. /\ batch' \subseteq batch /\ pc' \in {"await", "start"}
          /\ UNCHANGED <<job, ask, skips, todo, blind, whole>>
      BY <1>5, <2>3 DEF WaitUp, gate
    <3> QED BY <2>1, <3>1 DEF TypeOK, given, servers, Workers, Allocs
  <2> QED BY <2>2, <2>3
<1>6. ASSUME NEW i \in Workers(job), WaitTimeout(i) PROVE TypeOK'
  <2>1. Stop /\ UNCHANGED <<given, servers, calm>> /\ (Spend("slow") \/ faults' = faults)
    BY <1>6 DEF WaitTimeout
  <2> QED BY <2>1, StopTypes, SpendFacts
<1>7. CASE HookFails
  <2>1. Stop /\ UNCHANGED <<given, servers, calm>> /\ Spend("hook")
    BY <1>7 DEF HookFails
  <2> QED BY <2>1, StopTypes, SpendFacts
<1>8. ASSUME NEW a \in Allocs, Boot(a) PROVE TypeOK'
  <2>1. UNCHANGED <<bucket, external, portFound, pc, job, ask, skips, todo, batch, blind, whole, calm, faults>>
    BY <1>8 DEF Boot, given, gate, rollout
  <2>2. node' = [node EXCEPT ![a] = "up"] /\ seen' = seen \cup {a}
    BY <1>8 DEF Boot
  <2> QED BY <2>1, <2>2 DEF TypeOK, Workers
<1>9. ASSUME NEW a \in Allocs, Crash(a) PROVE TypeOK'
  <2>1. UNCHANGED <<bucket, external, portFound, pc, job, ask, skips, todo, batch, blind, whole, seen>>
    BY <1>9 DEF Crash, given, gate, rollout
  <2>2. node' = [node EXCEPT ![a] = "starting"] /\ Spend("crash") /\ calm' = FALSE
    BY <1>9 DEF Crash
  <2>3. faults' \in 0..MaxFaults
    BY <2>2, SpendFacts
  <2> QED BY <2>1, <2>2, <2>3 DEF TypeOK, Workers
<1>10. CASE UNCHANGED vars
  BY <1>10 DEF vars, given, servers, gate, rollout, TypeOK, Workers, Allocs
<1> QED BY <1>1, <1>2, <1>3, <1>4, <1>5, <1>6, <1>7, <1>8, <1>9, <1>10 DEF Next, DeployStep

\* Every list of what is to be asked and to be started is one of allocations of the
\* job that is deployed, and no allocation is up that never came up.
THEOREM WaitsTypeCorrect == Spec => []TypeOK
<1> QED BY InitTypes, StepTypes, PTL DEF Spec

-----------------------------------------------------------------------------
\* What the steps do to the containers.

\* The step that starts containers, as the lemmas below use it.
LEMMA StartStep ==
    ASSUME TypeOK, StartBatch
    PROVE  /\ pc = "start" /\ pc' = "await"
           /\ UNCHANGED <<bucket, external, portFound, seen, job, ask, skips, blind, whole, calm, faults>>
           /\ \E b \in Batches :
                /\ b \subseteq todo /\ batch' = b /\ todo' = todo \ b
                /\ job \in Serial => \A i, k \in b : i = k
                /\ job = "cassandra" => \A i \in b : \A l \in todo : i <= l
                /\ \A j \in Jobs : \A i \in Workers(j) :
                       ~(j = job /\ i \in b) => node'[<<j, i>>] = node[<<j, i>>]
<1> DEFINE Starts(b, again) ==
              /\ node' = [a \in Allocs |-> IF a[1] = job /\ a[2] \in again THEN "starting" ELSE node[a]]
              /\ batch' = b
              /\ todo' = todo \ b
<1>1. PICK b \in Batches : \E again \in SUBSET b : Starts(b, again)
  BY DEF StartBatch
<1>2. PICK again \in SUBSET b : Starts(b, again)
  BY <1>1
<1>3. /\ b \subseteq todo
      /\ job \in Serial => \A i, k \in b : i = k
      /\ job = "cassandra" => \A i \in b : \A l \in todo : i <= l
  BY BatchFacts
<1>4. ASSUME NEW j \in Jobs, NEW i \in Workers(j), ~(j = job /\ i \in b)
      PROVE  node'[<<j, i>>] = node[<<j, i>>]
  BY <1>2, <1>4, AllocFacts
<1>5. /\ pc = "start" /\ pc' = "await"
      /\ UNCHANGED <<bucket, external, portFound, seen, job, ask, skips, blind, whole, calm, faults>>
  BY DEF StartBatch, given, gate
<1> QED BY <1>2, <1>3, <1>4, <1>5

\* A step that ends no deploy and starts nothing: a container that was started
\* came up, or the rollout goes on.
LEMMA WaitStep ==
    ASSUME TypeOK, NEW i \in Workers(job), WaitUp(i)
    PROVE  /\ pc = "await" /\ i \in batch /\ node[<<job, i>>] = "up" /\ <<job, i>> \in seen
           /\ UNCHANGED <<bucket, external, portFound, node, seen, calm, faults>>
           /\ \/ Stop
              \/ /\ batch' = batch \ {i} /\ (pc' = "start" => batch' = {})
                 /\ pc' \in {"await", "start"}
                 /\ UNCHANGED <<job, ask, skips, todo, blind, whole>>
<1>1. /\ pc = "await" /\ i \in batch /\ node[<<job, i>>] = "up"
      /\ UNCHANGED <<bucket, external, portFound, node, seen, calm, faults>>
  BY DEF WaitUp, IsNodeUp, given, servers
<1>2. <<job, i>> \in seen
  BY <1>1, AllocFacts DEF TypeOK
<1>3. CASE batch # {i}
  BY <1>1, <1>2, <1>3 DEF WaitUp, gate
<1>4. CASE batch = {i} /\ todo # {}
  BY <1>1, <1>2, <1>4 DEF WaitUp, gate
<1>5. CASE batch = {i} /\ todo = {}
  BY <1>1, <1>2, <1>5 DEF WaitUp
<1> QED BY <1>3, <1>4, <1>5

LEMMA BootStep ==
    ASSUME TypeOK, NEW a \in Allocs, Boot(a)
    PROVE  /\ UNCHANGED <<bucket, external, portFound, pc, job, ask, skips, todo, batch, blind, whole, calm, faults>>
           /\ node[a] = "starting" /\ CanBoot(a)
           /\ seen' = seen \cup {a}
           /\ \A c \in Allocs : node'[c] = IF c = a THEN "up" ELSE node[c]
BY DEF Boot, given, gate, rollout, TypeOK

LEMMA CrashStep ==
    ASSUME TypeOK, NEW a \in Allocs, Crash(a)
    PROVE  /\ UNCHANGED <<bucket, external, portFound, seen, pc, job, ask, skips, todo, batch, blind, whole>>
           /\ node[a] = "up" /\ calm' = FALSE /\ Fine
           /\ \A c \in Allocs : node'[c] = IF c = a THEN "starting" ELSE node[c]
<1>1. /\ UNCHANGED <<bucket, external, portFound, seen, pc, job, ask, skips, todo, batch, blind, whole>>
      /\ node[a] = "up" /\ calm' = FALSE /\ Spend("crash")
      /\ node' = [node EXCEPT ![a] = "starting"]
  BY DEF Crash, given, gate, rollout
<1>2. Fine
  BY <1>1, SpendFacts DEF Fine
<1> QED BY <1>1, <1>2 DEF TypeOK

\* Deploys that end leave the servers alone.
LEMMA EndStep ==
    ASSUME TypeOK, HookFails \/ \E i \in Workers(job) : WaitTimeout(i)
    PROVE  /\ Stop /\ Fine /\ pc # "idle"
           /\ UNCHANGED <<bucket, external, portFound, node, seen, calm>>
<1>1. CASE HookFails
  BY <1>1, SpendFacts DEF HookFails, Fine, given, servers
<1>2. ASSUME NEW i \in Workers(job), WaitTimeout(i)
      PROVE  /\ Stop /\ Fine /\ pc # "idle"
             /\ UNCHANGED <<bucket, external, portFound, node, seen, calm>>
  <2>1. /\ Stop /\ pc = "await" /\ (Spend("slow") \/ faults' = faults)
        /\ UNCHANGED <<given, servers, calm>>
    BY <1>2 DEF WaitTimeout
  <2> QED BY <2>1, SpendFacts DEF Fine, given, servers
<1> QED BY <1>1, <1>2

LEMMA PassStep ==
    ASSUME PassGate
    PROVE  /\ pc = "gate" /\ pc' = "start" /\ \A i \in Workers(job) : ask[i] = Asked
           /\ blind' = IF skips = Workers(job) THEN blind \cup {job} ELSE blind
           /\ UNCHANGED <<bucket, external, portFound, node, seen, job, ask, skips, todo, batch, whole, calm, faults>>
BY DEF PassGate, given, servers, gate

-----------------------------------------------------------------------------
\* The hooks, half way.

\* What a hook has found stays found while the rollout goes on.
LEMMA HooksKept ==
    ASSUME TypeOK, HooksAsked,
           UNCHANGED <<bucket, external, job, ask, skips, blind>>, Fine,
           pc' = pc \/ {pc, pc'} \subseteq {"start", "await"},
           seen \subseteq seen', calm' => calm,
           job \in Gated => \A h \in Workers(Dependency(job)) :
               calm' /\ node[<<Dependency(job), h>>] = "up" => node'[<<Dependency(job), h>>] = "up"
    PROVE  HooksAsked'
<1>1. pc' = "gate" => job' \in Gated
  BY DEF HooksAsked
<1>2. ASSUME pc' # "idle", job \in Gated
      PROVE  /\ \A i \in Workers(job) \ skips, h \in Workers(Dependency(job)) :
                    h < ask[i] => /\ <<Dependency(job), h>> \in seen'
                                  /\ calm' => node'[<<Dependency(job), h>>] = "up"
             /\ pc' # "gate" => /\ \A i \in Workers(job) : ask[i] = Asked
                                /\ skips = Workers(job) => job \in blind
             /\ IF job = "otel_collector" THEN skips # {} => Excused' ELSE 1 \notin skips
  <2>1. pc # "idle" /\ (pc' # "gate" => pc # "gate")
    BY <1>2
  <2>2. Excused => Excused'
    BY ConstantFacts DEF Excused, Fine, TypeOK
  <2> QED BY <1>2, <2>1, <2>2 DEF HooksAsked
<1> QED BY <1>1, <1>2 DEF HooksAsked, Workers, Dependency, Asked

LEMMA StepHooksAsked == TypeOK /\ HooksAsked /\ [Next]_vars => HooksAsked'
<1> SUFFICES ASSUME TypeOK, HooksAsked, [Next]_vars PROVE HooksAsked'
  OBVIOUS
<1>0. Stop => HooksAsked'
  BY DEF Stop, HooksAsked
<1>1. ASSUME NEW j \in Jobs, StartDeploy(j) PROVE HooksAsked'
  <2>1. /\ job' = j /\ skips' = {} /\ ask' = [i \in Workers(j) |-> 0]
        /\ IF j \in Gated THEN pc' = "gate" ELSE pc' = "start"
    BY <1>1 DEF StartDeploy
  <2>2. j \in Gated => \A h \in Workers(Dependency(j)) : ~(h < 0)
    BY DependencyFacts, ConstantFacts DEF Workers
  <2> QED BY <2>1, <2>2 DEF HooksAsked, Workers, Dependency
<1>2. ASSUME NEW i, GateStep(i) PROVE HooksAsked'
  <2>1. /\ i \in Workers(job) /\ pc = "gate" /\ job \in Gated
        /\ UNCHANGED <<bucket, external, node, seen, calm>> /\ Fine
        /\ Skips(i) \/ Read(i) \/ Answers(i) \/ Stop
    BY <1>2, HookStep DEF given, servers
  <2>2. Excused => Excused'
    BY <2>1, ConstantFacts DEF Excused, Fine, TypeOK
  <2> DEFINE d == Dependency(job)
             Told(k, h) == <<d, h>> \in seen /\ (calm => node[<<d, h>>] = "up")
  <2>3. \A k \in Workers(job) \ skips, h \in Workers(d) : h < ask[k] => Told(k, h)
    BY <2>1 DEF HooksAsked
  <2>4. d \in Jobs /\ Workers(d) \subseteq Nat
    BY <2>1, DependencyFacts, ConstantFacts
  <2>5. CASE Skips(i) \/ Read(i) \/ Answers(i)
    <3>1. job' = job /\ pc' = pc /\ skips \subseteq skips'
      BY <2>5 DEF Skips, Skip, Read, Answers
    <3>2. ASSUME NEW k \in Workers(job) \ skips', NEW h \in Workers(d), h < ask'[k]
          PROVE  Told(k, h)
      <4>1. CASE k # i
        <5>1. ask'[k] = ask[k]
          BY <2>1, <2>5, <4>1 DEF Skips, Skip, Read, Answers, TypeOK
        <5> QED BY <2>3, <3>1, <3>2, <5>1
      <4>2. CASE k = i /\ Skips(i)
        BY <3>2, <4>2 DEF Skips, Skip
      <4>3. CASE k = i /\ Read(i)
        <5>1. h < 1 /\ h \in 1..Size[d]
          BY <2>1, <3>2, <4>3 DEF Read, TypeOK, Workers
        <5> QED BY <5>1, <2>4, ConstantFacts
      <4>4. CASE k = i /\ Answers(i)
        <5>1. ask[i] \in Nat /\ ask[i] \in Workers(d) /\ node[<<d, ask[i]>>] = "up" /\ h < ask[i] + 1
          BY <2>1, <3>2, <4>4 DEF Answers, TypeOK
        <5>2. h = ask[i] \/ h < ask[i]
          BY <2>4, <5>1
        <5>3. <<d, ask[i]>> \in seen
          BY <2>4, <5>1, AllocFacts DEF TypeOK
        <5> QED BY <2>3, <3>1, <3>2, <4>4, <5>1, <5>2, <5>3
      <4> QED BY <2>5, <4>1, <4>2, <4>3, <4>4
    <3>3. IF job = "otel_collector" THEN skips' # {} => Excused' ELSE 1 \notin skips'
      <4>1. IF job = "otel_collector" THEN skips # {} => Excused ELSE 1 \notin skips
        BY <2>1 DEF HooksAsked
      <4>2. CASE Skips(i)
        BY <2>1, <2>2, <4>1, <4>2 DEF Skips, Skip, Excuses, Excused
      <4>3. CASE Read(i) \/ Answers(i)
        BY <2>2, <4>1, <4>3 DEF Read, Answers
      <4> QED BY <2>5, <4>2, <4>3
    <3>4. ASSUME NEW k \in Workers(job) \ skips', NEW h \in Workers(d), h < ask'[k]
          PROVE  <<d, h>> \in seen' /\ (calm' => node'[<<d, h>>] = "up")
      BY <2>1, <3>2, <3>4
    <3> QED BY <2>1, <3>1, <3>3, <3>4 DEF HooksAsked, Workers, Dependency
  <2> QED BY <1>0, <2>1, <2>5
<1>3. CASE PassGate
  <2>1. job \in Gated
    BY <1>3, PassStep DEF HooksAsked
  <2>2. Excused => Excused'
    BY <1>3, PassStep DEF Excused
  <2>3. /\ skips' = Workers(job) => job \in blind'
        /\ pc' = "start" /\ UNCHANGED <<job, ask, skips, seen, node, calm>>
        /\ \A i \in Workers(job) : ask[i] = Asked
    BY <1>3, PassStep
  <2>4. /\ \A i \in Workers(job) \ skips, h \in Workers(Dependency(job)) :
               h < ask[i] => /\ <<Dependency(job), h>> \in seen
                             /\ calm => node[<<Dependency(job), h>>] = "up"
        /\ IF job = "otel_collector" THEN skips # {} => Excused ELSE 1 \notin skips
    BY <1>3, <2>1, PassStep DEF HooksAsked
  <2> QED BY <2>1, <2>2, <2>3, <2>4 DEF HooksAsked, Asked
<1>4. CASE StartBatch
  <2>1. /\ pc = "start" /\ pc' = "await"
        /\ UNCHANGED <<bucket, external, seen, job, ask, skips, blind, calm, faults>>
    BY <1>4, StartStep
  <2>2. job \in Gated => \A h \in Workers(Dependency(job)) :
            node'[<<Dependency(job), h>>] = node[<<Dependency(job), h>>]
    BY <1>4, StartStep, DependencyFacts
  <2>3. Fine
    BY <2>1, ConstantFacts DEF Fine, TypeOK
  <2> QED BY <2>1, <2>2, <2>3, HooksKept
<1>5. ASSUME NEW i \in Workers(job), WaitUp(i) PROVE HooksAsked'
  <2>1. Fine
    <3>1. faults' = faults
      BY <1>5, WaitStep
    <3> QED BY <3>1, ConstantFacts DEF Fine, TypeOK
  <2> QED BY <1>0, <1>5, <2>1, WaitStep, HooksKept
<1>6. CASE HookFails \/ \E i \in Workers(job) : WaitTimeout(i)
  BY <1>0, <1>6, EndStep
<1>7. ASSUME NEW a \in Allocs, Boot(a) PROVE HooksAsked'
  <2>1. job \in Gated => \A h \in Workers(Dependency(job)) : <<Dependency(job), h>> \in Allocs
    BY DependencyFacts, AllocFacts
  <2>2. Fine
    BY <1>7, BootStep, ConstantFacts DEF Fine, TypeOK
  <2> QED BY <1>7, <2>1, <2>2, BootStep, HooksKept
<1>8. ASSUME NEW a \in Allocs, Crash(a) PROVE HooksAsked'
  BY <1>8, CrashStep, HooksKept
<1>9. CASE UNCHANGED vars
  <2>1. Fine
    BY <1>9, ConstantFacts DEF vars, Fine, TypeOK
  <2> QED BY <1>9, <2>1, HooksKept DEF vars, given, servers, gate, rollout
<1> QED BY <1>1, <1>2, <1>3, <1>4, <1>5, <1>6, <1>7, <1>8, <1>9 DEF Next, DeployStep

-----------------------------------------------------------------------------
\* Who starts, and after whom.

\* A rollout begins with one hook that has asked everybody, or is blind.
LEMMA GatePassed ==
    ASSUME TypeOK, HooksAsked, job \in Gated, pc \in {"start", "await"}, skips # Workers(job)
    PROVE  \A h \in Workers(Dependency(job)) :
               /\ <<Dependency(job), h>> \in seen
               /\ calm => node[<<Dependency(job), h>>] = "up"
<1>1. PICK i \in Workers(job) : i \notin skips
  BY DEF TypeOK
<1>2. ask[i] = Asked
  BY DEF HooksAsked
<1>3. \A h \in Workers(Dependency(job)) : h < ask[i]
  BY <1>2, AskedFacts
<1> QED BY <1>1, <1>3 DEF HooksAsked

\* The order holds as long as no container of a gated job is started.
LEMMA OrderKept ==
    ASSUME TypeOK, FirstStartsInOrder, UNCHANGED <<bucket, external, blind>>, Fine,
           seen \subseteq seen',
           \A j \in Gated : \A i \in Workers(j) :
               node[<<j, i>>] = "absent" => node'[<<j, i>>] = "absent"
    PROVE  FirstStartsInOrder'
<1>1. ASSUME NEW j \in Gated, Started(j)' PROVE Started(j)
  BY <1>1 DEF Started
<1>2. Excused => Excused'
  BY ConstantFacts DEF Excused, Fine, TypeOK
<1> QED BY <1>1, <1>2 DEF FirstStartsInOrder

LEMMA StepStartsInOrder ==
    TypeOK /\ HooksAsked /\ FirstStartsInOrder /\ [Next]_vars => FirstStartsInOrder'
<1> SUFFICES ASSUME TypeOK, HooksAsked, FirstStartsInOrder, [Next]_vars PROVE FirstStartsInOrder'
  OBVIOUS
<1>0. ASSUME UNCHANGED <<bucket, external, node, seen, blind>>, Fine \/ faults' = faults
      PROVE  FirstStartsInOrder'
  <2>1. Fine
    BY <1>0, ConstantFacts DEF Fine, TypeOK
  <2> QED BY <1>0, <2>1, OrderKept
<1>1. ASSUME NEW j \in Jobs, StartDeploy(j) PROVE FirstStartsInOrder'
  BY <1>0, <1>1 DEF StartDeploy, given, servers
<1>2. ASSUME NEW i, GateStep(i) PROVE FirstStartsInOrder'
  <2>1. UNCHANGED <<bucket, external, node, seen, blind>>
    BY <1>2, HookStep DEF Skips, Skip, Read, Answers, Stop, given, servers, rollout
  <2> QED BY <1>0, <1>2, <2>1, HookStep
<1>3. CASE PassGate
  <2>1. /\ UNCHANGED <<bucket, external, node, seen, faults>>
        /\ pc = "gate"
        /\ \/ blind' = blind
           \/ blind' = blind \cup {job} /\ skips = Workers(job)
    BY <1>3, PassStep
  <2>2. job \in Gated
    BY <2>1 DEF HooksAsked
  <2>3. blind' # blind => job = "otel_collector" /\ Excused
    <3>1. 1 \in Workers(job)
      BY <2>2, ConstantFacts
    <3> QED BY <2>1, <2>2, <3>1 DEF HooksAsked
  <2>4. Excused => Excused'
    BY <2>1 DEF Excused
  <2>5. \A j \in Gated : Started(j)' => Started(j)
    BY <2>1 DEF Started
  <2>6. blind \subseteq blind' /\ blind' \subseteq {"otel_collector"} /\ (blind' # {} => Excused')
    BY <2>1, <2>3, <2>4 DEF FirstStartsInOrder
  <2> QED BY <2>1, <2>5, <2>6 DEF FirstStartsInOrder
<1>4. CASE StartBatch
  <2>1. /\ pc = "start" /\ UNCHANGED <<bucket, external, seen, job, blind, faults>>
        /\ \A j \in Jobs \ {job} : \A i \in Workers(j) : node'[<<j, i>>] = node[<<j, i>>]
    BY <1>4, StartStep
  <2>2. ASSUME NEW j \in Gated, Started(j)', j \notin blind, NEW h \in Workers(Dependency(j))
        PROVE  <<Dependency(j), h>> \in seen
    <3>1. CASE j = job
      <4>1. skips # Workers(job)
        BY <2>1, <2>2, <3>1 DEF HooksAsked
      <4> QED BY <2>1, <2>2, <3>1, <4>1, GatePassed
    <3>2. CASE j # job
      <4>1. Started(j)
        BY <2>1, <2>2, <3>2, ConstantFacts DEF Started
      <4> QED BY <2>2, <4>1 DEF FirstStartsInOrder
    <3> QED BY <3>1, <3>2
  <2>3. Excused => Excused'
    BY <2>1 DEF Excused
  <2> QED BY <2>1, <2>2, <2>3 DEF FirstStartsInOrder
<1>5. ASSUME NEW i \in Workers(job), WaitUp(i) PROVE FirstStartsInOrder'
  <2>1. UNCHANGED <<bucket, external, node, seen, faults, blind>>
    BY <1>5, WaitStep DEF Stop
  <2> QED BY <1>0, <2>1
<1>6. CASE HookFails \/ \E i \in Workers(job) : WaitTimeout(i)
  <2>1. UNCHANGED <<bucket, external, node, seen, blind>> /\ Fine
    BY <1>6, EndStep DEF Stop
  <2> QED BY <1>0, <2>1
<1>7. ASSUME NEW a \in Allocs, Boot(a) \/ Crash(a) PROVE FirstStartsInOrder'
  <2>1. /\ UNCHANGED <<bucket, external, blind>> /\ seen \subseteq seen'
        /\ node[a] # "absent" /\ \A c \in Allocs : c # a => node'[c] = node[c]
    BY <1>7, BootStep, CrashStep
  <2>2. Fine
    <3>1. Fine \/ faults' = faults
      BY <1>7, BootStep, CrashStep
    <3> QED BY <3>1, ConstantFacts DEF Fine, TypeOK
  <2>3. ASSUME NEW j \in Gated, NEW i \in Workers(j), node[<<j, i>>] = "absent"
        PROVE  node'[<<j, i>>] = "absent"
    BY <2>1, <2>3, ConstantFacts, AllocFacts
  <2> QED BY <2>1, <2>2, <2>3, OrderKept
<1>8. CASE UNCHANGED vars
  BY <1>0, <1>8 DEF vars, given, servers, rollout
<1> QED BY <1>1, <1>2, <1>3, <1>4, <1>5, <1>6, <1>7, <1>8 DEF Next, DeployStep

\* A serial rollout that no step of its own moves.
LEMMA RolloutKept ==
    ASSUME TypeOK, OneAfterAnother, UNCHANGED <<job, todo, batch, whole>>,
           pc' = pc \/ (pc = "gate" /\ pc' = "start"),
           seen \subseteq seen', calm' => calm,
           \A k \in Workers(job) : calm' /\ node[<<job, k>>] = "up" => node'[<<job, k>>] = "up"
    PROVE  OneAfterAnother'
<1>1. pc' \in {"gate", "start"} => batch' = {}
  BY DEF OneAfterAnother
<1>2. ASSUME pc' # "idle", job \in Serial
      PROVE  /\ \A i, k \in batch : i = k
             /\ \A k \in Workers(job) : k \in todo \cup batch \/ <<job, k>> \in seen'
             /\ whole /\ calm' => \A k \in Workers(job) : node'[<<job, k>>] = "up" \/ k \in batch
  BY <1>2 DEF OneAfterAnother
<1> QED BY <1>1, <1>2 DEF OneAfterAnother

LEMMA StepOneAfterAnother == TypeOK /\ OneAfterAnother /\ [Next]_vars => OneAfterAnother'
<1> SUFFICES ASSUME TypeOK, OneAfterAnother, [Next]_vars PROVE OneAfterAnother'
  OBVIOUS
<1>0. Stop => OneAfterAnother'
  BY DEF Stop, OneAfterAnother
<1>1. ASSUME NEW j \in Jobs, StartDeploy(j) PROVE OneAfterAnother'
  <2>1. /\ job' = j /\ batch' = {} /\ todo' = Workers(j) /\ UNCHANGED node
        /\ whole' = \A i \in Workers(j) : node[<<j, i>>] = "up"
    BY <1>1 DEF StartDeploy, servers
  <2> QED BY <2>1 DEF OneAfterAnother
<1>2. ASSUME NEW i, GateStep(i) PROVE OneAfterAnother'
  <2>1. UNCHANGED <<node, seen, calm>> /\ (Skips(i) \/ Read(i) \/ Answers(i) \/ Stop)
    BY <1>2, HookStep DEF servers
  <2>2. Stop \/ UNCHANGED <<pc, job, todo, batch, whole>>
    BY <2>1 DEF Skips, Skip, Read, Answers, rollout
  <2> QED BY <1>0, <2>1, <2>2, RolloutKept
<1>3. CASE PassGate
  BY <1>3, PassStep, RolloutKept
<1>4. CASE StartBatch
  <2>1. /\ pc = "start" /\ pc' = "await"
        /\ UNCHANGED <<job, seen, whole, calm>>
    BY <1>4, StartStep
  <2>2. PICK b \in Batches :
            /\ b \subseteq todo /\ batch' = b /\ todo' = todo \ b
            /\ job \in Serial => \A i, k \in b : i = k
            /\ \A j \in Jobs : \A i \in Workers(j) :
                   ~(j = job /\ i \in b) => node'[<<j, i>>] = node[<<j, i>>]
    BY <1>4, StartStep
  <2>3. batch = {}
    BY <2>1 DEF OneAfterAnother
  <2>4. ASSUME job \in Serial, NEW k \in Workers(job)
        PROVE  /\ k \in todo' \cup b \/ <<job, k>> \in seen
               /\ whole /\ calm => node'[<<job, k>>] = "up" \/ k \in b
    <3>1. k \in todo \/ <<job, k>> \in seen
      BY <2>1, <2>3, <2>4 DEF OneAfterAnother
    <3>2. whole /\ calm => node[<<job, k>>] = "up"
      BY <2>1, <2>3, <2>4 DEF OneAfterAnother
    <3>3. k \in b \/ node'[<<job, k>>] = node[<<job, k>>]
      BY <2>2, <2>4, ConstantFacts
    <3> QED BY <2>2, <3>1, <3>2, <3>3
  <2> QED BY <2>1, <2>2, <2>4 DEF OneAfterAnother
<1>5. ASSUME NEW i \in Workers(job), WaitUp(i) PROVE OneAfterAnother'
  <2>1. pc = "await" /\ node[<<job, i>>] = "up" /\ <<job, i>> \in seen /\ UNCHANGED <<node, seen, calm>>
    BY <1>5, WaitStep
  <2>2. CASE Stop
    BY <1>0, <2>2
  <2>3. CASE /\ batch' = batch \ {i} /\ (pc' = "start" => batch' = {})
             /\ pc' \in {"await", "start"}
             /\ UNCHANGED <<job, todo, whole>>
    BY <2>1, <2>3 DEF OneAfterAnother
  <2> QED BY <1>5, <2>2, <2>3, WaitStep
<1>6. CASE HookFails \/ \E i \in Workers(job) : WaitTimeout(i)
  BY <1>0, <1>6, EndStep
<1>7. ASSUME NEW a \in Allocs, Boot(a) PROVE OneAfterAnother'
  <2>1. \A k \in Workers(job) : <<job, k>> \in Allocs
    BY AllocFacts DEF TypeOK
  <2> QED BY <1>7, <2>1, BootStep, RolloutKept
<1>8. ASSUME NEW a \in Allocs, Crash(a) PROVE OneAfterAnother'
  BY <1>8, CrashStep, RolloutKept
<1>9. CASE UNCHANGED vars
  BY <1>9, RolloutKept DEF vars, given, servers, gate, rollout
<1> QED BY <1>1, <1>2, <1>3, <1>4, <1>5, <1>6, <1>7, <1>8, <1>9 DEF Next, DeployStep

\* What a step does to the containers of cassandra: it starts the first that is
\* left, it brings one back, or it leaves alone which of them were ever started.
LEMMA StepJoins ==
    TypeOK /\ OneAfterAnother /\ JoinsOneAtATime /\ [Next]_vars => JoinsOneAtATime'
<1> SUFFICES ASSUME TypeOK, OneAfterAnother, JoinsOneAtATime, [Next]_vars PROVE JoinsOneAtATime'
  OBVIOUS
<1> DEFINE C == Workers("cassandra")
<1>0. "cassandra" \in Jobs /\ "cassandra" \in Serial /\ C \subseteq Nat /\ \A i \in C : <<"cassandra", i>> \in Allocs
  BY ConstantFacts, AllocFacts DEF Jobs, Serial
<1> HIDE DEF C
<1>1. ASSUME seen \subseteq seen',
             \A i \in C : node[<<"cassandra", i>>] = "absent" => node'[<<"cassandra", i>>] = "absent"
      PROVE  JoinsOneAtATime'
  BY <1>1 DEF JoinsOneAtATime, C
<1>2. CASE StartBatch
  <2>1. pc = "start" /\ UNCHANGED <<seen, job>>
    BY <1>2, StartStep
  <2>2. PICK b \in Batches :
            /\ b \subseteq todo
            /\ job = "cassandra" => \A i \in b : \A l \in todo : i <= l
            /\ \A j \in Jobs : \A i \in Workers(j) :
                   ~(j = job /\ i \in b) => node'[<<j, i>>] = node[<<j, i>>]
    BY <1>2, StartStep
  <2>3. CASE job # "cassandra"
    BY <1>0, <1>1, <2>1, <2>2, <2>3 DEF C
  <2>4. CASE job = "cassandra"
    <3>1. batch = {} /\ \A k \in C : k \in todo \/ <<"cassandra", k>> \in seen
      BY <1>0, <2>1, <2>4 DEF OneAfterAnother, C
    <3>2. ASSUME NEW i \in C, NEW k \in C, node'[<<"cassandra", i>>] # "absent", k < i
          PROVE  <<"cassandra", k>> \in seen'
      <4>1. CASE i \in b
        <5>1. k \notin todo
          BY <1>0, <2>2, <2>4, <3>2, <4>1
        <5> QED BY <2>1, <3>1, <5>1
      <4>2. CASE i \notin b
        <5>1. node[<<"cassandra", i>>] # "absent"
          BY <1>0, <2>2, <3>2, <4>2 DEF C
        <5> QED BY <2>1, <3>2, <5>1 DEF JoinsOneAtATime, C
      <4> QED BY <4>1, <4>2
    <3> QED BY <3>2 DEF JoinsOneAtATime, C
  <2> QED BY <2>3, <2>4
<1>3. ASSUME NEW a \in Allocs, Boot(a) \/ Crash(a) PROVE JoinsOneAtATime'
  <2>1. /\ seen \subseteq seen' /\ node[a] # "absent"
        /\ \A c \in Allocs : c # a => node'[c] = node[c]
    BY <1>3, BootStep, CrashStep
  <2> QED BY <1>0, <1>1, <2>1
<1>4. ASSUME UNCHANGED <<node, seen>> PROVE JoinsOneAtATime'
  BY <1>1, <1>4
<1>5. ASSUME NEW j \in Jobs, StartDeploy(j) PROVE JoinsOneAtATime'
  BY <1>4, <1>5 DEF StartDeploy, servers
<1>6. ASSUME NEW i, GateStep(i) PROVE JoinsOneAtATime'
  BY <1>4, <1>6, HookStep DEF servers
<1>7. CASE PassGate
  BY <1>4, <1>7, PassStep
<1>8. ASSUME NEW i \in Workers(job), WaitUp(i) PROVE JoinsOneAtATime'
  BY <1>4, <1>8, WaitStep
<1>9. CASE HookFails \/ \E i \in Workers(job) : WaitTimeout(i)
  BY <1>4, <1>9, EndStep
<1>10. CASE UNCHANGED vars
  BY <1>4, <1>10 DEF vars, servers
<1> QED BY <1>2, <1>3, <1>5, <1>6, <1>7, <1>8, <1>9, <1>10 DEF Next, DeployStep

\* During a serial rollout the nodes that are down are in the batch, which is one
\* node; after it nothing takes another one down.
LEMMA StepOneOut ==
    TypeOK /\ OneOutAtATime /\ OneAfterAnother' /\ [Next]_vars => OneOutAtATime'
<1> SUFFICES ASSUME TypeOK, OneOutAtATime, OneAfterAnother', [Next]_vars PROVE OneOutAtATime'
  OBVIOUS
<1>1. CASE pc' # "idle"
  BY <1>1 DEF OneAfterAnother, OneOutAtATime
<1>2. CASE pc' = "idle"
  <2>1. ASSUME UNCHANGED <<job, whole>>,
               \A k \in Workers(job) : calm' => calm /\ (node[<<job, k>>] = "up" => node'[<<job, k>>] = "up")
        PROVE  OneOutAtATime'
    <3>1. job' \in Serial => 1 \in Workers(job)
      BY <2>1, ConstantFacts
    <3> QED BY <2>1, <3>1 DEF OneOutAtATime
  <2>2. ASSUME NEW j \in Jobs, StartDeploy(j) PROVE FALSE
    BY <1>2, <2>2 DEF StartDeploy
  <2>3. ASSUME NEW i, GateStep(i) PROVE OneOutAtATime'
    <3>1. UNCHANGED <<node, calm, job, whole>>
      BY <2>3, HookStep DEF Skips, Skip, Read, Answers, Stop, servers
    <3> QED BY <2>1, <3>1
  <2>4. CASE PassGate \/ StartBatch
    BY <1>2, <2>4 DEF PassGate, StartBatch
  <2>5. ASSUME NEW i \in Workers(job), WaitUp(i) PROVE OneOutAtATime'
    <3>1. UNCHANGED <<node, calm, job, whole>>
      BY <2>5, WaitStep DEF Stop
    <3> QED BY <2>1, <3>1
  <2>6. CASE HookFails \/ \E i \in Workers(job) : WaitTimeout(i)
    <3>1. UNCHANGED <<node, calm, job, whole>>
      BY <2>6, EndStep DEF Stop
    <3> QED BY <2>1, <3>1
  <2>7. ASSUME NEW a \in Allocs, Boot(a) PROVE OneOutAtATime'
    <3>1. \A k \in Workers(job) : <<job, k>> \in Allocs
      BY AllocFacts DEF TypeOK
    <3> QED BY <2>1, <2>7, <3>1, BootStep
  <2>8. ASSUME NEW a \in Allocs, Crash(a) PROVE OneOutAtATime'
    BY <2>1, <2>8, CrashStep
  <2>9. CASE UNCHANGED vars
    BY <2>1, <2>9 DEF vars, servers
  <2> QED BY <2>2, <2>3, <2>4, <2>5, <2>6, <2>7, <2>8, <2>9 DEF Next, DeployStep
<1> QED BY <1>1, <1>2

-----------------------------------------------------------------------------
\* The theorems.

LEMMA InitHalfWay ==
    Init => HalfWay /\ FirstStartsInOrder /\ JoinsOneAtATime /\ OneOutAtATime
<1> SUFFICES ASSUME Init PROVE HalfWay /\ FirstStartsInOrder /\ JoinsOneAtATime /\ OneOutAtATime
  OBVIOUS
<1>1. \A j \in Jobs : \A i \in Workers(j) : node[<<j, i>>] = "absent"
  BY AllocFacts DEF Init
<1>2. HalfWay
  BY DEF Init, HalfWay, HooksAsked, OneAfterAnother
<1>3. FirstStartsInOrder
  BY <1>1, ConstantFacts DEF Init, FirstStartsInOrder, Started
<1>4. JoinsOneAtATime
  <2>1. "cassandra" \in Jobs
    BY DEF Jobs
  <2> QED BY <1>1, <2>1 DEF JoinsOneAtATime
<1>5. OneOutAtATime
  BY DEF Init, OneOutAtATime
<1> QED BY <1>2, <1>3, <1>4, <1>5

\* The inductive invariant of the hooks and the rollouts: whom a hook has asked has
\* joined and, unless something crashed, is up; what a serial rollout is through
\* with has joined.
THEOREM HalfWayCorrect == Spec => []HalfWay
<1>1. Init => HalfWay
  BY InitHalfWay
<1>2. TypeOK /\ HalfWay /\ [Next]_vars => HalfWay'
  BY StepHooksAsked, StepOneAfterAnother DEF HalfWay
<1> QED BY <1>1, <1>2, WaitsTypeCorrect, PTL DEF Spec

\* No dependant starts before its dependency has answered, blind otel_collectors
\* apart.
THEOREM StartsInOrder == Spec => []FirstStartsInOrder
<1>1. Init => FirstStartsInOrder
  BY InitHalfWay
<1>2. TypeOK /\ HalfWay /\ FirstStartsInOrder /\ [Next]_vars => FirstStartsInOrder'
  BY StepStartsInOrder DEF HalfWay
<1> QED BY <1>1, <1>2, WaitsTypeCorrect, HalfWayCorrect, PTL DEF Spec

\* What the hooks found one host after another holds of all hosts at once while
\* nothing crashes.
THEOREM GateHolds == Spec => []GateHoldsWhileCalm
<1>1. TypeOK /\ HalfWay => GateHoldsWhileCalm
  <2> SUFFICES ASSUME TypeOK, HooksAsked, pc \in {"start", "await"}, job \in Gated, calm,
                      skips # Workers(job)
               PROVE  UpAll(Dependency(job))
    BY DEF HalfWay, GateHoldsWhileCalm
  <2> QED BY GatePassed DEF UpAll
<1> QED BY <1>1, WaitsTypeCorrect, HalfWayCorrect, PTL

\* The nodes of cassandra join one at a time, the seed first.
THEOREM JoinsSerially == Spec => []JoinsOneAtATime
<1>1. Init => JoinsOneAtATime
  BY InitHalfWay
<1>2. TypeOK /\ HalfWay /\ JoinsOneAtATime /\ [Next]_vars => JoinsOneAtATime'
  BY StepJoins DEF HalfWay
<1> QED BY <1>1, <1>2, WaitsTypeCorrect, HalfWayCorrect, PTL DEF Spec

\* A serial rollout of a job that was up has one node down.
THEOREM OneIsOut == Spec => []OneOutAtATime
<1>1. Init => OneOutAtATime
  BY InitHalfWay
<1>2. TypeOK /\ HalfWay' /\ OneOutAtATime /\ [Next]_vars => OneOutAtATime'
  BY StepOneOut DEF HalfWay
<1> QED BY <1>1, <1>2, WaitsTypeCorrect, HalfWayCorrect, PTL DEF Spec

-----------------------------------------------------------------------------
\* A deploy ends.

\* What a running deploy may have left to do, and what it has: the hosts that its
\* hooks have not asked yet (0 is what they read first), the gate to pass, the
\* allocations to start, and those to see up.
Hosts == IF job \in Gated THEN 0..Size[Dependency(job)] ELSE {0}
Chores == {"ask", "pass", "start", "see"} \X (Workers(job) \X Hosts)
Left ==
    {x \in Chores :
        LET i == x[2][1]
            h == x[2][2]
        IN  \/ x[1] = "ask" /\ pc = "gate" /\ ask[i] <= h
            \/ x[1] = "pass" /\ pc = "gate" /\ i = 1 /\ h = 0
            \/ x[1] = "start" /\ i \in todo /\ h = 0
            \/ x[1] = "see" /\ i \in todo \cup batch /\ h = 0}

progress == <<pc, job, gate, todo, batch>>

LEMMA LeftIsFinite == TypeOK => IsFiniteSet(Left)
<1> SUFFICES ASSUME TypeOK PROVE IsFiniteSet(Left)
  OBVIOUS
<1>1. IsFiniteSet(Workers(job))
  BY ConstantFacts, FS_Interval DEF TypeOK, Workers
<1>2. IsFiniteSet(Hosts)
  <2>1. CASE job \in Gated
    <3>1. Size[Dependency(job)] \in Int /\ 0 \in Int
      BY <2>1, ConstantFacts, DependencyFacts
    <3> QED BY <2>1, <3>1, FS_Interval DEF Hosts
  <2>2. CASE job \notin Gated
    BY <2>2, FS_Singleton DEF Hosts
  <2> QED BY <2>1, <2>2
<1>3. IsFiniteSet({"ask", "pass", "start", "see"})
  <2>1. IsFiniteSet({"ask"}) /\ {"ask", "pass"} = {"ask"} \cup {"pass"}
    BY FS_Singleton
  <2>2. IsFiniteSet({"ask", "pass"}) /\ {"ask", "pass", "start"} = {"ask", "pass"} \cup {"start"}
    BY <2>1, FS_AddElement
  <2>3. /\ IsFiniteSet({"ask", "pass", "start"})
        /\ {"ask", "pass", "start", "see"} = {"ask", "pass", "start"} \cup {"see"}
    BY <2>2, FS_AddElement
  <2> QED BY <2>3, FS_AddElement
<1>4. IsFiniteSet(Chores)
  BY <1>1, <1>2, <1>3, FS_Product DEF Chores
<1> QED BY <1>4, FS_Subset DEF Left

\* A step of a hook asks one host less, or ends the deploy.
LEMMA GateWears ==
    ASSUME TypeOK, NEW i, GateStep(i), ~Stop
    PROVE  Left' \subseteq Left /\ Left' # Left
<1>1. /\ i \in Workers(job) /\ pc = "gate" /\ job \in Gated
      /\ Skips(i) \/ Read(i) \/ Answers(i)
  BY HookStep
<1>2. UNCHANGED <<pc, job, todo, batch>>
  BY <1>1 DEF Skips, Skip, Read, Answers, rollout
<1>3. /\ Asked = Size[Dependency(job)] + 1 /\ Size[Dependency(job)] \in Nat
      /\ Workers(Dependency(job)) = 1..Size[Dependency(job)]
      /\ Hosts = 0..Size[Dependency(job)]
  BY <1>1, ConstantFacts, DependencyFacts DEF Asked, Workers, Hosts
<1>4. /\ ask[i] \in Hosts /\ ask'[i] > ask[i] /\ ask[i] \in Nat /\ ask'[i] \in Nat
      /\ \A k \in Workers(job) : ask'[k] >= ask[k] /\ ask[k] \in Nat /\ ask'[k] \in Nat
  BY <1>1, <1>3 DEF Skips, Skip, Read, Answers, TypeOK
<1>5. UNCHANGED Chores /\ Hosts \subseteq Nat
  BY <1>2, <1>3 DEF Chores, Hosts
<1>6. Left' \subseteq Left
  <2> SUFFICES ASSUME NEW x \in Left' PROVE x \in Left
    OBVIOUS
  <2>1. x \in Chores /\ x[2][1] \in Workers(job) /\ x[2][2] \in Nat
    BY <1>5 DEF Left, Chores
  <2> QED BY <1>2, <1>4, <2>1 DEF Left
<1>7. <<"ask", <<i, ask[i]>>>> \in Left
  BY <1>1, <1>4 DEF Left, Chores
<1>8. <<"ask", <<i, ask[i]>>>> \notin Left'
  BY <1>4 DEF Left
<1> QED BY <1>6, <1>7, <1>8

\* The gate, a start, and an allocation that is up leave less to do.
LEMMA RolloutWears ==
    ASSUME TypeOK, PassGate \/ StartBatch \/ (\E i \in Workers(job) : WaitUp(i)), ~Stop
    PROVE  Left' \subseteq Left /\ Left' # Left
<1>0. 1 \in Workers(job) /\ 0 \in Hosts
  BY ConstantFacts, DependencyFacts DEF TypeOK, Hosts
<1>1. CASE PassGate
  <2>1. /\ pc = "gate" /\ pc' = "start" /\ UNCHANGED <<job, todo, batch>>
    BY <1>1, PassStep
  <2>2. UNCHANGED Chores
    BY <2>1 DEF Chores, Hosts
  <2>3. Left' \subseteq Left
    BY <2>1, <2>2 DEF Left
  <2>4. <<"pass", <<1, 0>>>> \in Left /\ <<"pass", <<1, 0>>>> \notin Left'
    BY <1>0, <2>1 DEF Left, Chores
  <2> QED BY <2>3, <2>4
<1>2. CASE StartBatch
  <2>1. pc = "start" /\ pc' = "await" /\ UNCHANGED job
    BY <1>2, StartStep
  <2>2. PICK b \in Batches : b \subseteq todo /\ batch' = b /\ todo' = todo \ b
    BY <1>2, StartStep
  <2>3. PICK k \in b : TRUE
    <3>1. b # {}
      BY BatchFacts
    <3> QED BY <3>1
  <2>4. UNCHANGED Chores
    BY <2>1 DEF Chores, Hosts
  <2>5. Left' \subseteq Left
    BY <2>1, <2>2, <2>4 DEF Left
  <2>6. <<"start", <<k, 0>>>> \in Left /\ <<"start", <<k, 0>>>> \notin Left'
    BY <1>0, <2>1, <2>2, <2>3 DEF Left, Chores, TypeOK
  <2> QED BY <2>5, <2>6
<1>3. ASSUME NEW i \in Workers(job), WaitUp(i) PROVE Left' \subseteq Left /\ Left' # Left
  <2>1. /\ pc = "await" /\ i \in batch /\ batch' = batch \ {i} /\ pc' \in {"await", "start"}
        /\ UNCHANGED <<job, todo>>
    BY <1>3, WaitStep
  <2>2. UNCHANGED Chores
    BY <2>1 DEF Chores, Hosts
  <2>3. Left' \subseteq Left
    BY <2>1, <2>2 DEF Left
  <2>4. <<"see", <<i, 0>>>> \in Left /\ <<"see", <<i, 0>>>> \notin Left'
    BY <1>0, <2>1 DEF Left, Chores, TypeOK
  <2> QED BY <2>3, <2>4
<1> QED BY <1>1, <1>2, <1>3

\* What no deploy can do for ever: a step that a running deploy takes ends it, or
\* leaves strictly less of a finite set of chores, whatever crashes and boots
\* around it.
THEOREM DeployWearsOut ==
    Spec => /\ []IsFiniteSet(Left)
            /\ [][pc # "idle" /\ progress' # progress =>
                      pc' = "idle" \/ (Left' \subseteq Left /\ Left' # Left)]_vars
<1> DEFINE Wears == pc # "idle" /\ progress' # progress =>
                       pc' = "idle" \/ (Left' \subseteq Left /\ Left' # Left)
<1>1. TypeOK /\ [Next]_vars => [Wears]_vars
  <2> SUFFICES ASSUME TypeOK, Next, pc # "idle", progress' # progress, pc' # "idle"
               PROVE  Left' \subseteq Left /\ Left' # Left
    OBVIOUS
  <2>0. ~Stop
    BY DEF Stop
  <2>1. \A j \in Jobs : ~StartDeploy(j)
    BY DEF StartDeploy
  <2>2. ASSUME NEW a \in Allocs, Boot(a) \/ Crash(a) PROVE FALSE
    BY <2>2 DEF Boot, Crash, progress, rollout
  <2>3. ~HookFails /\ \A i \in Workers(job) : ~WaitTimeout(i)
    BY <2>0 DEF HookFails, WaitTimeout
  <2>4. PassGate \/ StartBatch \/ \E i \in Workers(job) : GateStep(i) \/ WaitUp(i)
    BY <2>1, <2>2, <2>3 DEF Next, DeployStep
  <2> QED BY <2>0, <2>4, GateWears, RolloutWears
<1> QED BY <1>1, LeftIsFinite, WaitsTypeCorrect, PTL DEF Spec
=============================================================================
