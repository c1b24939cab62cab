------------------------------ MODULE DeployWaits ------------------------------
(***************************************************************************)
(* Who waits for whom in a deploy: the pre_deploy hooks that ask the hosts *)
(* of another job before their own job is rolled out, and the waits after  *)
(* each start, cassandra's command_wait_up among them.                     *)
(*                                                                         *)
(*   postgres        asks every zookeeper host on its TLS client port      *)
(*   clickhouse      asks every clickhouse_keeper host for its metrics     *)
(*   kafka_broker    connects to every kafka_controller host               *)
(*   otel_collector  pings every clickhouse host, if clickhouse=internal   *)
(*   cassandra       waits after each start until the node is UN           *)
(*                                                                         *)
(* No hook asks twice: a host that does not answer fails the deploy, and   *)
(* the operator repeats it.  The rollout, the health checks and what       *)
(* docker does to a container are maand's, as the manifests configure it.  *)
(***************************************************************************)
EXTENDS Naturals, FiniteSets

CONSTANTS
    Buckets,        \* the sets of jobs that may be in the bucket
    Size,           \* of a job: its number of workers
    MaxFaults,      \* bound: how many faults the environment may inject
    FaultKinds      \* the kinds of fault that may happen

Jobs == {"zookeeper", "postgres", "kafka_controller", "kafka_broker",
         "clickhouse_keeper", "clickhouse", "otel_collector", "cassandra"}

\* "crash": a container goes down and comes back; "kv": a read of the KV store
\* fails; "hook": a hook is killed; "slow": an answer, or a start, takes longer
\* than the hook waits.
AllFaults == {"crash", "kv", "hook", "slow"}

ASSUME BucketsAssumption == Buckets \subseteq SUBSET Jobs
ASSUME SizeAssumption == Size \in [Jobs -> Nat \ {0}]
ASSUME BoundsAssumption == MaxFaults \in Nat /\ FaultKinds \subseteq AllFaults

Workers(j) == 1..Size[j]
Allocs == UNION {{j} \X Workers(j) : j \in Jobs}

VARIABLES
    bucket,     \* the jobs of the bucket
    external,   \* the bucket says clickhouse=external
    portFound,  \* kafka_controller_port_controller is in namespace "maand"
    node,       \* of an allocation: "absent", "starting", or "up" (it answers)
    seen,       \* the allocations that were ever up: they have joined
    pc,         \* the deploy: "idle", "gate", "start" or "await"
    job,        \* the job that is deployed
    ask,        \* of its allocations' hooks: 0, the next host to ask, or Asked
    skips,      \* its allocations whose hook returned 0 without asking
    blind,      \* the jobs that were rolled out after a gate that asked nobody
    todo,       \* its allocations that this rollout has not started yet
    batch,      \* the allocations it has started and not seen up
    whole,      \* when this deploy began every allocation of the job was up
    calm,       \* nothing has crashed since this deploy began
    faults      \* how many faults happened

given == <<bucket, external, portFound>>
servers == <<node, seen>>
gate == <<ask, skips>>
rollout == <<todo, batch, blind>>
vars == <<given, servers, pc, job, gate, rollout, whole, calm, faults>>

\* Of a job whose pre_deploy hook asks another one: that one.
Gated == {"postgres", "kafka_broker", "clickhouse", "otel_collector"}

\* Mutant: postgres' hook asks the hosts of its own job.
DependencyOwn(j) ==
    CASE j = "postgres"       -> "postgres"
      [] j = "kafka_broker"   -> "kafka_controller"
      [] j = "clickhouse"     -> "clickhouse_keeper"
      [] j = "otel_collector" -> "clickhouse"

Dependency(j) ==
    CASE j = "postgres"       -> "zookeeper"
      [] j = "kafka_broker"   -> "kafka_controller"
      [] j = "clickhouse"     -> "clickhouse_keeper"
      [] j = "otel_collector" -> "clickhouse"

\* Mutant: a manifest that does not say how many at a time.
SerialWithoutCassandra == {"zookeeper", "postgres"}

\* The jobs whose manifest has deploy_parallel_count and update_parallel_count 1.
Serial == {"zookeeper", "postgres", "cassandra"}

TypeOK ==
    /\ bucket \in Buckets /\ external \in BOOLEAN /\ portFound \in BOOLEAN
    /\ node \in [Allocs -> {"absent", "starting", "up"}]
    /\ seen \subseteq Allocs /\ \A a \in Allocs : node[a] = "up" => a \in seen
    /\ pc \in {"idle", "gate", "start", "await"}
    /\ job \in Jobs
    /\ ask \in [Workers(job) -> Nat]
    /\ skips \subseteq Workers(job) /\ blind \subseteq Jobs
    /\ todo \subseteq Workers(job) /\ batch \subseteq Workers(job) /\ todo \cap batch = {}
    /\ whole \in BOOLEAN /\ calm \in BOOLEAN
    /\ faults \in 0..MaxFaults

Init ==
    /\ bucket \in Buckets
    /\ external \in BOOLEAN /\ ("otel_collector" \notin bucket => ~external)
    /\ portFound \in BOOLEAN /\ ("kafka_broker" \notin bucket => ~portFound)
    /\ node = [a \in Allocs |-> "absent"] /\ seen = {}
    /\ pc = "idle" /\ job \in bucket
    /\ ask = [i \in Workers(job) |-> 0] /\ skips = {} /\ blind = {}
    /\ todo = {} /\ batch = {}
    /\ whole = FALSE /\ calm = TRUE /\ faults = 0

Spend(kind) ==
    /\ kind \in FaultKinds
    /\ faults < MaxFaults
    /\ faults' = faults + 1

\* The deploy ends, with success or not; nothing of it is left but what it started.
Stop ==
    /\ pc' = "idle"
    /\ ask' = [i \in Workers(job) |-> 0] /\ skips' = {}
    /\ todo' = {} /\ batch' = {}
    /\ UNCHANGED <<job, blind, whole>>

-----------------------------------------------------------------------------
\* The gate.

\* maand deploy --jobs j.
StartDeploy(j) ==
    /\ pc = "idle" /\ j \in bucket
    /\ job' = j
    /\ pc' = IF j \in Gated THEN "gate" ELSE "start"
    /\ ask' = [i \in Workers(j) |-> 0] /\ skips' = {}
    /\ todo' = Workers(j) /\ batch' = {}
    /\ whole' = \A i \in Workers(j) : node[<<j, i>>] = "up"
    /\ calm' = TRUE
    /\ UNCHANGED <<given, servers, blind, faults>>

\* A hook that has asked the last host, or skipped, has this as its next host.
Asked == Size[Dependency(job)] + 1

\* The hook of allocation i returns 0 and asks nobody.
Skip(i) ==
    /\ ask[i] = 0
    /\ ask' = [ask EXCEPT ![i] = Asked]
    /\ skips' = skips \cup {i}
    /\ UNCHANGED <<pc, job, rollout, whole>>

\* It has read the port and the workers of the dependency.
Read(i) ==
    /\ ask[i] = 0
    /\ ask' = [ask EXCEPT ![i] = 1]
    /\ UNCHANGED <<pc, job, skips, rollout, whole>>

\* The port or the workers are not there: an exception, or return 1.
Missing(i) == ask[i] = 0 /\ Stop

\* Mutant: the loop returns 0 at the first host that answers.
AskUntilOne(i) ==
    LET h == ask[i] IN
    /\ h \in Workers(Dependency(job))
    /\ \/ /\ node[<<Dependency(job), h>>] = "up"
          /\ ask' = [ask EXCEPT ![i] = Asked]
          /\ UNCHANGED <<pc, job, skips, rollout, whole>>
       \/ /\ node[<<Dependency(job), h>>] # "up"
          /\ Stop
    /\ UNCHANGED faults

\* Mutant: a host that does not answer is passed over.
AskAnyway(i) ==
    /\ ask[i] \in Workers(Dependency(job))
    /\ ask' = [ask EXCEPT ![i] = @ + 1]
    /\ UNCHANGED <<pc, job, skips, rollout, whole, faults>>

\* One round of the loop over the hosts: an answer, or the deploy fails.
AskNext(i) ==
    LET h == ask[i] IN
    /\ h \in Workers(Dependency(job))
    /\ \/ /\ node[<<Dependency(job), h>>] = "up"
          /\ ask' = [ask EXCEPT ![i] = h + 1]
          /\ UNCHANGED <<pc, job, skips, rollout, whole, faults>>
       \/ /\ IF node[<<Dependency(job), h>>] = "up" THEN Spend("slow") ELSE UNCHANGED faults
          /\ Stop

\* A hook that asks on the first worker only, and whether it finds what it reads.
OnFirst(i, found) ==
    \/ i # 1 /\ Skip(i) /\ UNCHANGED faults
    \/ i = 1 /\ found /\ Read(i) /\ UNCHANGED faults
    \/ i = 1 /\ ~found /\ Missing(i) /\ UNCHANGED faults
    \/ i = 1 /\ Spend("kv") /\ Missing(i)
    \/ AskNext(i)

DependencyListed == Dependency(job) \in bucket

WaitZookeeper(i) == job = "postgres" /\ OnFirst(i, DependencyListed)

WaitClickhouseKeeper(i) == job = "clickhouse" /\ OnFirst(i, DependencyListed)

\* The port is read from "maand", where the other hooks read "maand/bucket".
WaitKafkaController(i) == job = "kafka_broker" /\ OnFirst(i, portFound /\ DependencyListed)

\* otel_collector asks on every worker, and get_kv_optional turns a read that
\* fails into a default: internal, no port, no workers.
WaitClickhouse(i) ==
    /\ job = "otel_collector"
    /\ \/ external /\ Skip(i) /\ UNCHANGED faults
       \/ /\ IF external THEN Spend("kv") ELSE UNCHANGED faults
          /\ IF DependencyListed THEN Read(i) ELSE Skip(i)
       \/ Spend("kv") /\ Skip(i)
       \/ AskNext(i)

\* One step of the hook on allocation i.
GateStep(i) ==
    /\ pc = "gate" /\ i \in Workers(job)
    /\ \/ WaitZookeeper(i) \/ WaitClickhouseKeeper(i)
       \/ WaitKafkaController(i) \/ WaitClickhouse(i)
    /\ UNCHANGED <<given, servers, calm>>

\* Every hook returned 0.
PassGate ==
    /\ pc = "gate" /\ \A i \in Workers(job) : ask[i] = Asked
    /\ pc' = "start"
    /\ blind' = IF skips = Workers(job) THEN blind \cup {job} ELSE blind
    /\ UNCHANGED <<given, servers, job, gate, todo, batch, whole, calm, faults>>

-----------------------------------------------------------------------------
\* The rollout.

\* What may be started next: cassandra, which plans no order, in catalog order
\* one by one; the other serial jobs in the order of their plan; any number of
\* any other job.
Batches ==
    CASE job \notin Serial  -> (SUBSET todo) \ {{}}
      [] job = "cassandra"  -> {{i} : i \in {k \in todo : \A l \in todo : k <= l}}
      [] OTHER              -> {{i} : i \in todo}

\* Mutant: what was started is not taken off the list.
StartBatchAgain ==
    /\ pc = "start"
    /\ \E b \in Batches :
        /\ node' = [a \in Allocs |-> IF a[1] = job /\ a[2] \in b THEN "starting" ELSE node[a]]
        /\ batch' = b
    /\ pc' = "await"
    /\ UNCHANGED <<given, seen, job, gate, blind, todo, whole, calm, faults>>

\* Make target start or restart: a container that runs is recreated or left alone.
StartBatch ==
    /\ pc = "start"
    /\ \E b \in Batches : \E again \in SUBSET b :
        /\ \A i \in b : node[<<job, i>>] = "absent" => i \in again
        /\ node' = [a \in Allocs |-> IF a[1] = job /\ a[2] \in again THEN "starting" ELSE node[a]]
        /\ batch' = b
        /\ todo' = todo \ b
    /\ pc' = "await"
    /\ UNCHANGED <<given, seen, job, gate, blind, whole, calm, faults>>

\* Mutant: an unknown node counts as up.
IsNodeUpLoose(i) == node[<<job, i>>] # "absent"

\* is_node_up: nodetool on the node itself lists it as UN; in the other jobs the
\* health check finds the port open.
IsNodeUp(i) == node[<<job, i>>] = "up"

\* command_wait_up sees the node, and the rollout goes on when all are seen.
WaitUp(i) ==
    /\ pc = "await" /\ i \in batch /\ IsNodeUp(i)
    /\ IF batch # {i}
       THEN batch' = batch \ {i} /\ UNCHANGED <<pc, job, gate, todo, blind, whole>>
       ELSE IF todo # {}
       THEN batch' = {} /\ pc' = "start" /\ UNCHANGED <<job, gate, todo, blind, whole>>
       ELSE Stop
    /\ UNCHANGED <<given, servers, calm, faults>>

\* What keeps a started container from coming up: a cassandra node that has not
\* joined yet needs the seed.
CanBoot(a) == a[1] = "cassandra" /\ a[2] # 1 /\ a \notin seen => node[<<"cassandra", 1>>] = "up"

\* 900 seconds, or the attempts of the health check, are over.
WaitTimeout(i) ==
    /\ pc = "await" /\ i \in batch /\ ~IsNodeUp(i)
    /\ IF CanBoot(<<job, i>>) THEN Spend("slow") ELSE UNCHANGED faults
    /\ Stop
    /\ UNCHANGED <<given, servers, calm>>

\* A hook is killed, or the ssh call of is_node_up raises.
HookFails ==
    /\ pc # "idle"
    /\ Spend("hook")
    /\ Stop
    /\ UNCHANGED <<given, servers, calm>>

-----------------------------------------------------------------------------
\* The containers.

Boot(a) ==
    /\ node[a] = "starting" /\ CanBoot(a)
    /\ node' = [node EXCEPT ![a] = "up"]
    /\ seen' = seen \cup {a}
    /\ UNCHANGED <<given, pc, job, gate, rollout, whole, calm, faults>>

\* restart: always.
Crash(a) ==
    /\ node[a] = "up" /\ Spend("crash")
    /\ node' = [node EXCEPT ![a] = "starting"]
    /\ calm' = FALSE
    /\ UNCHANGED <<given, seen, pc, job, gate, rollout, whole>>

-----------------------------------------------------------------------------
DeployStep == PassGate \/ StartBatch \/ \E i \in Workers(job) : GateStep(i) \/ WaitUp(i) \/ WaitTimeout(i)

Next ==
    \/ \E j \in Jobs : StartDeploy(j)
    \/ DeployStep
    \/ HookFails
    \/ \E a \in Allocs : Boot(a) \/ Crash(a)

Spec == Init /\ [][Next]_vars

\* The operator deploys every job of the bucket again and again; hooks run on and
\* have timeouts; a container that is restarted comes up.
FairSpec ==
    /\ Spec
    /\ \A j \in Jobs : SF_vars(StartDeploy(j))
    /\ WF_vars(DeployStep)
    /\ \A a \in Allocs : WF_vars(Boot(a))

-----------------------------------------------------------------------------
\* Properties.

UpAll(j) == \A i \in Workers(j) : node[<<j, i>>] = "up"
Started(j) == \E i \in Workers(j) : node[<<j, i>>] # "absent"

\* Why otel_collector may have asked nobody.
Excused == external \/ "clickhouse" \notin bucket \/ faults > 0

\* "Verify ... before ... deploy" (all four gates): no allocation of a dependant
\* is ever started before every host of its dependency has answered once,
\* through deploys that fail and are repeated; only otel_collector is, when it is
\* told so, has no clickhouse to ask, or cannot read the KV store.
FirstStartsInOrder ==
    /\ \A j \in Gated : Started(j) /\ j \notin blind =>
           \A i \in Workers(Dependency(j)) : <<Dependency(j), i>> \in seen
    /\ blind \subseteq {"otel_collector"}
    /\ blind # {} => Excused

\* The hosts answered one after another, and yet they all answer while the
\* dependant is rolled out, unless one of them crashed since the deploy began.
GateHoldsWhileCalm ==
    pc \in {"start", "await"} /\ job \in Gated /\ calm /\ skips # Workers(job) =>
        UpAll(Dependency(job))

\* "Batching + this gate serialize the bootstrap" (command_wait_up): through
\* timeouts, crashes and repeated deploys, at most one cassandra node that has
\* not joined the ring is started, and the seed was the first.
JoinsOneAtATime ==
    \A i, k \in Workers("cassandra") :
        node[<<"cassandra", i>>] # "absent" /\ k < i => <<"cassandra", k>> \in seen

\* "The next node only starts against a settled ring" (command_wait_up), as far as
\* a hook that looks at its own node only can make it true: a rollout of a
\* serial job that was up everywhere never has two nodes down, unless one crashed.
OneOutAtATime ==
    job \in Serial /\ whole /\ calm =>
        \A i, k \in Workers(job) :
            node[<<job, i>>] # "up" /\ node[<<job, k>>] # "up" => i = k

\* Half way through the hooks and half way through the rollout: who a hook has
\* asked so far has joined and, unless something crashed, is still up; and what
\* is neither to be started nor just started has joined.
HooksAsked ==
    /\ pc = "gate" => job \in Gated
    /\ pc # "idle" /\ job \in Gated =>
        /\ \A i \in Workers(job) \ skips, h \in Workers(Dependency(job)) :
               h < ask[i] => /\ <<Dependency(job), h>> \in seen
                             /\ calm => node[<<Dependency(job), h>>] = "up"
        /\ pc # "gate" => /\ \A i \in Workers(job) : ask[i] = Asked
                          /\ skips = Workers(job) => job \in blind
        /\ IF job = "otel_collector" THEN skips # {} => Excused ELSE 1 \notin skips
OneAfterAnother ==
    /\ pc \in {"gate", "start"} => batch = {}
    /\ pc # "idle" /\ job \in Serial =>
        /\ \A i, k \in batch : i = k
        /\ \A k \in Workers(job) : k \in todo \cup batch \/ <<job, k>> \in seen
        /\ whole /\ calm => \A k \in Workers(job) : node[<<job, k>>] = "up" \/ k \in batch
HalfWay == HooksAsked /\ OneAfterAnother

\* No gate waits for a job that waits for it, and no failed deploy leaves what a
\* repeated one cannot finish: everything in the bucket is up again and again,
\* if no dependency is left out and kafka_broker's gate finds its port.
Satisfiable ==
    /\ \A j \in bucket \cap Gated : Dependency(j) \in bucket \/ j = "otel_collector"
    /\ "kafka_broker" \in bucket => portFound
ComesUpInTheEnd == Satisfiable => []<>(\A j \in bucket : UpAll(j))
=============================================================================
