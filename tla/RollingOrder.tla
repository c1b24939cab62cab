----------------------------- MODULE RollingOrder -----------------------------
(***************************************************************************)
(* The rollout order of the clustered jobs: command_plan_order of vault,   *)
(* zookeeper and postgres, which looks for the leader of the cluster and   *)
(* puts deploy_order, and the rollout that follows it one node at a time.  *)
(*                                                                         *)
(* The hooks ask one node after another and differ in how:                 *)
(*   "zookeeper": the first node whose srvr says "leader", looked for twice*)
(*   "postgres":  what worker_0's Patroni says of the cluster; if it does  *)
(*                not answer, the first node whose Patroni says "primary"; *)
(*                looked for twice                                         *)
(*   "vault":     only if cluster_bootstrapped is set, the leader named by *)
(*                the first node that names one                            *)
(*                                                                         *)
(* Every question has 5 seconds: a node that is up may not be heard, and   *)
(* counts as one that leads nothing.                                       *)
(*                                                                         *)
(* The rollout is maand's, as the manifests configure it, and the servers  *)
(* are images: both are outside the repository.                            *)
(***************************************************************************)
EXTENDS Naturals, Sequences, FiniteSets

CONSTANTS
    Jobs,           \* the jobs whose rollouts are considered
    Workers,        \* the workers of the job in catalog order
    None,           \* no node
    MaxFaults,      \* bound: how many faults the environment may inject
    FaultKinds      \* the kinds of fault that may happen

N == Len(Workers)
Nodes == {Workers[i] : i \in 1..N}

\* "kv": a KV call of the plan fails; "crash": a node goes down and comes back;
\* "election": the leadership is lost although its holder is up; "slow": a node
\* takes longer to come up than the rollout waits.
AllFaults == {"kv", "crash", "election", "slow"}

ASSUME JobsAssumption == Jobs \subseteq {"zookeeper", "postgres", "vault"}
ASSUME WorkersAssumption ==
    /\ Workers \in Seq(Nodes) /\ N \in Nat \ {0}
    /\ \A i, j \in 1..N : Workers[i] = Workers[j] => i = j
    /\ None \notin Nodes
ASSUME BoundsAssumption == MaxFaults \in Nat /\ FaultKinds \subseteq AllFaults

VARIABLES
    job,        \* the job that is deployed
    node,       \* what each node is: see States
    joined,     \* the nodes that were ever part of the cluster
    leader,     \* the leader of the cluster, or None
    flag,       \* vault: cluster_bootstrapped is in the KV store
    order,      \* deploy_order in the KV store
    pc,         \* the next step of the deploy
    pass,       \* which search for the leader it is: the first or the second
    host,       \* the position in Workers the search is at
    found,      \* the leader the plan found
    missed,     \* how many answers in this search named the leader, and were late
    turn,       \* the position in order the rollout is at
    restarted,  \* the nodes this rollout has started or restarted
    elections,  \* how many leaders were elected since this search began
    began,      \* what held when this search began, and what has disturbed it
    faults      \* how many faults happened

cluster == <<node, joined, leader>>
plan == <<order, pass, host, found, missed>>
rollout == <<turn, restarted>>
vars == <<job, node, joined, leader, flag, order, pc, pass, host, found, missed,
          turn, restarted, elections, began, faults>>

\* Never started, its container down, its port open, serving in the cluster
\* (a Vault node: unsealed).
States == {"never", "down", "open", "up"}

UpIn(state) == {n \in Nodes : state[n] = "up"}

TypeOK ==
    /\ job \in Jobs
    /\ node \in [Nodes -> States]
    /\ UpIn(node) \subseteq joined /\ joined \subseteq Nodes
    /\ leader \in UpIn(node) \cup {None}
    /\ flag \in BOOLEAN
    /\ order \in [1..N -> Nodes]
    /\ pc \in {"idle", "flag", "local", "scan", "put", "roll", "lead", "gate"}
    /\ pass \in 1..2 /\ host \in 1..N
    /\ found \in Nodes \cup {None} /\ missed \in Nat
    /\ turn \in 1..N /\ restarted \subseteq Nodes
    /\ elections \in Nat
    /\ began \in [live : BOOLEAN, flag : BOOLEAN, calm : BOOLEAN,
                  quorate : BOOLEAN, planned : BOOLEAN]
    /\ faults \in 0..MaxFaults

Init ==
    /\ job \in Jobs
    /\ node = [n \in Nodes |-> "never"] /\ joined = {} /\ leader = None
    /\ flag = FALSE /\ order = Workers
    /\ pc = "idle" /\ pass = 1 /\ host = 1 /\ found = None /\ missed = 0
    /\ turn = 1 /\ restarted = {} /\ elections = 0
    /\ began = [live |-> FALSE, flag |-> FALSE, calm |-> TRUE,
                quorate |-> TRUE, planned |-> FALSE]
    /\ faults = 0

Spend(kind) ==
    /\ kind \in FaultKinds
    /\ faults < MaxFaults
    /\ faults' = faults + 1

-----------------------------------------------------------------------------
\* The plan.

\* maand build resets deploy_order.
Build ==
    /\ pc = "idle"
    /\ order' = Workers
    /\ UNCHANGED <<job, cluster, flag, pc, pass, host, found, missed, rollout,
                   elections, began, faults>>

\* Where a search for the leader begins.
FirstStep == IF job = "postgres" THEN "local" ELSE "scan"

\* What a search for the leader finds when it begins.
Beginning == [live |-> leader # None /\ UpIn(node) = Nodes, flag |-> flag,
              calm |-> TRUE, quorate |-> TRUE, planned |-> FALSE]

StartDeploy ==
    /\ pc = "idle"
    /\ pc' = IF job = "vault" THEN "flag" ELSE FirstStep
    /\ pass' = 1 /\ host' = 1 /\ found' = None /\ missed' = 0
    /\ turn' = 1 /\ restarted' = {}
    /\ elections' = 0 /\ began' = Beginning
    /\ UNCHANGED <<job, cluster, flag, order, faults>>

\* vault looks for the leader only in a cluster that is bootstrapped, and once.
ReadFlag ==
    /\ pc = "flag"
    /\ IF flag THEN pc' = "scan" /\ pass' = 2 ELSE pc' = "put" /\ UNCHANGED pass
    /\ UNCHANGED <<job, cluster, flag, order, host, found, missed, rollout, elections,
                   began, faults>>

\* The search ends with what it found, late answers missed.  The first search of
\* zookeeper and postgres, is_cluster_running, is followed by a second one from
\* the beginning.
Answer(l, late) ==
    IF l # None /\ pass = 1
    THEN /\ pass' = 2 /\ host' = 1 /\ pc' = FirstStep /\ missed' = 0
         /\ elections' = 0 /\ began' = Beginning
         /\ UNCHANGED found
    ELSE /\ pc' = "put" /\ found' = l /\ missed' = late
         /\ UNCHANGED <<pass, host, elections, began>>

\* What is missed when the search gets got from a node that says l.
Missed(l, got) == IF got = l THEN missed ELSE missed + 1

\* What worker_0's Patroni says of the cluster, if it runs.
LocalTells == IF node[Workers[1]] \in {"open", "up"} THEN leader ELSE None

\* postgres: worker_0, if it answers in time, answers for the cluster: leader or
\* none.
AskLocal ==
    /\ pc = "local"
    /\ \/ node[Workers[1]] \in {"open", "up"} /\ Answer(LocalTells, missed)
       \/ /\ pc' = "scan" /\ missed' = Missed(LocalTells, None)
          /\ UNCHANGED <<pass, host, found, elections, began>>
    /\ UNCHANGED <<job, cluster, flag, order, rollout, faults>>

\* srvr of a ZooKeeper server, /patroni of a Patroni: it serves and leads.
SaysLeader(n) == node[n] = "up" /\ leader = n

\* Mutant: a node of any role ends the search.
TellsSelf(n) == IF node[n] # "up" THEN None ELSE n

\* What node n tells the search, if it is heard: a leader, or None.
Tells(n) ==
    CASE job = "vault" /\ node[n] = "up" -> leader
      [] job # "vault" /\ SaysLeader(n)  -> n
      [] OTHER                           -> None

Search ==
    /\ pc = "scan"
    /\ LET l == Tells(Workers[host]) IN
       \E got \in {l, None} :
        IF got = None /\ host < N
        THEN /\ host' = host + 1 /\ missed' = Missed(l, got)
             /\ UNCHANGED <<pc, pass, found, elections, began>>
        ELSE Answer(got, Missed(l, got))
    /\ UNCHANGED <<job, cluster, flag, order, rollout, faults>>

\* The catalog order without the worker l.
Others(l) ==
    LET k == CHOOSE i \in 1..N : Workers[i] = l
    IN  [i \in 1..N - 1 |-> IF i < k THEN Workers[i] ELSE Workers[i + 1]]

\* Mutant: worker_0 is left out, for the leader to come last.
PlannedTwice == IF found = None THEN Workers ELSE Append(Others(Workers[1]), found)

\* Mutant: the leader is appended to all the workers.
PlannedAppended == IF found = None THEN Workers ELSE Append(Workers, found)

\* The leader last if one was found, else worker_0 first: the catalog order.
Planned == IF found = None THEN Workers ELSE Append(Others(found), found)

PutOrder ==
    /\ pc = "put"
    /\ order' = Planned
    /\ pc' = "roll"
    /\ began' = [began EXCEPT !.planned = TRUE]
    /\ UNCHANGED <<job, cluster, flag, pass, host, found, missed, rollout, elections,
                   faults>>

\* main catches every exception of the plan: the deploy goes on.
PlanFails ==
    /\ pc \in {"flag", "local", "scan", "put"}
    /\ Spend("kv")
    /\ pc' = "roll"
    /\ UNCHANGED <<job, cluster, flag, plan, rollout, elections, began>>

-----------------------------------------------------------------------------
\* The servers.

\* A Patroni leader holds a lock and needs no majority of its kind; the nodes of
\* a ZooKeeper ensemble are configured, those of a Vault cluster join it.
QuorumOf(up) ==
    LET members == IF job = "vault" THEN joined ELSE Nodes
    IN  job = "postgres" \/ 2 * Cardinality(up) > Cardinality(members)

\* n is no longer up; the leader is lost with its node or with its quorum.
Lose(n) ==
    LET up == UpIn(node) \ {n} IN
    /\ node' = [node EXCEPT ![n] = "down"]
    /\ leader' = IF leader \in up /\ QuorumOf(up) THEN leader ELSE None

\* The container runs and its port is open.
Open(n) ==
    /\ node[n] = "down"
    /\ node' = [node EXCEPT ![n] = "open"]
    /\ UNCHANGED <<job, joined, leader, flag, plan, pc, rollout, elections, began, faults>>

\* The node is part of the cluster and serves.
Serve(n) ==
    /\ node[n] = "open"
    /\ node' = [node EXCEPT ![n] = "up"]
    /\ joined' = joined \cup {n}
    /\ UNCHANGED <<job, leader, flag, plan, pc, rollout, elections, began, faults>>

Elect(n) ==
    /\ leader = None
    /\ node[n] = "up" /\ QuorumOf(UpIn(node))
    /\ leader' = n
    /\ elections' = elections + 1
    /\ UNCHANGED <<job, node, joined, flag, plan, pc, rollout, began, faults>>

Crash(n) ==
    /\ node[n] \in {"open", "up"} /\ Spend("crash")
    /\ Lose(n)
    /\ began' = [began EXCEPT !.calm = FALSE]
    /\ UNCHANGED <<job, joined, flag, plan, pc, rollout, elections>>

StepDown ==
    /\ leader # None /\ Spend("election")
    /\ leader' = None
    /\ began' = [began EXCEPT !.calm = FALSE]
    /\ UNCHANGED <<job, node, joined, flag, plan, pc, rollout, elections>>

-----------------------------------------------------------------------------
\* The rollout: deploy_parallel_count 1, update_parallel_count 1.

\* Make target start or restart on the next node of deploy_order.
RestartNode ==
    /\ pc = "roll"
    /\ Lose(order[turn])
    /\ restarted' = restarted \cup {order[turn]}
    /\ began' = [began EXCEPT !.quorate = @ /\ QuorumOf(UpIn(node) \ {order[turn]})]
    /\ pc' = IF job = "vault" /\ order[turn] # Workers[1] THEN "lead" ELSE "gate"
    /\ UNCHANGED <<job, joined, flag, plan, turn, elections, faults>>

\* node_up of a follower: its API answers, then wait_operational(leader).
LeaderServes == node[order[turn]] # "down" /\ node[Workers[1]] = "up"

WaitLeader ==
    /\ pc = "lead" /\ LeaderServes
    /\ pc' = "gate"
    /\ UNCHANGED <<job, cluster, flag, plan, rollout, elections, began, faults>>

\* Mutant: node_up of vault is left to the health check, as in the other jobs.
GatePassedOpen == node[order[turn]] \in {"open", "up"}

\* Mutant: a container that was started is enough.
GatePassedStarted == node[order[turn]] # "never"

\* The health check finds a port open; node_up of vault waits for the node to be
\* operational.
GatePassed ==
    node[order[turn]] \in IF job = "vault" THEN {"up"} ELSE {"open", "up"}

\* The rollout goes on; node_up of vault marks a cluster that is up everywhere.
Gate ==
    /\ pc = "gate" /\ GatePassed
    /\ flag' = (flag \/ (job = "vault" /\ UpIn(node) = Nodes))
    /\ IF turn < N THEN pc' = "roll" /\ turn' = turn + 1
                   ELSE pc' = "idle" /\ UNCHANGED turn
    /\ UNCHANGED <<job, cluster, plan, restarted, elections, began, faults>>

GateTimeout ==
    /\ \/ pc = "lead" /\ ~LeaderServes
       \/ pc = "gate" /\ ~GatePassed
    /\ Spend("slow")
    /\ pc' = "idle"
    /\ UNCHANGED <<job, cluster, flag, plan, rollout, elections, began>>

-----------------------------------------------------------------------------
Planning == Build \/ StartDeploy \/ ReadFlag \/ AskLocal \/ Search \/ PutOrder \/ PlanFails
Rolling == RestartNode \/ WaitLeader \/ Gate \/ GateTimeout
Servers == StepDown \/ \E n \in Nodes : Open(n) \/ Serve(n) \/ Elect(n) \/ Crash(n)

Next == Planning \/ Rolling \/ Servers

Spec == Init /\ [][Next]_vars

-----------------------------------------------------------------------------
\* Properties.

\* The deploy of a cluster that was up with a leader when the last search for it
\* began, planned, and disturbed by nothing but its own restarts.
Undisturbed == began.live /\ began.planned /\ began.calm

\* How many late answers a search gets along with: none if only the leader says
\* that it leads, one if worker_0 says it, too, and all but one if every node does.
Tolerated == CASE job = "zookeeper" -> 0 [] job = "postgres" -> 1 [] job = "vault" -> N - 1

\* "Followers FIRST and the active Raft leader LAST, so leadership transfers at
\* most once" (vault's plan_order): over the whole rollout, from the last search
\* for the leader to the last restart, and although some answers were late.
\* vault's plan needs cluster_bootstrapped for it, and a ZooKeeper rollout, whose
\* gate is an open port, that the nodes restarted before were back in the
\* ensemble in time.
TransfersAtMostOnce ==
    /\ Undisturbed
    /\ missed <= Tolerated
    /\ job = "vault" => began.flag
    /\ job = "zookeeper" => began.quorate
    => elections <= 1

\* What vault's plan_order says, with cluster_bootstrapped "informational only":
\* leadership transfers at most once in the rollout of any live cluster.
TransfersOnceWhateverTheFlag == Undisturbed /\ missed = 0 => elections <= 1

\* "Keeps other cluster nodes serving during rolling upgrade" (vault's
\* Makefile): a rollout of a live cluster never has two nodes out of service.
OthersServe == job = "vault" /\ began.live /\ began.calm => Cardinality(Nodes \ UpIn(node)) <= 1

\* What the health check promises, an open port and no more: a rollout of a live
\* cluster never has two nodes that do not even answer, and whoever is out of the
\* cluster is so because the rollout has restarted it.
OthersAnswer ==
    began.live /\ began.calm =>
        /\ Cardinality({n \in Nodes : node[n] = "down"}) <= 1
        /\ Nodes \ UpIn(node) \subseteq restarted

\* The strengthening under which the properties above are inductive: the order
\* is a permutation of the workers and the rollout has restarted what precedes
\* its turn; an undisturbed live cluster is whole while the plan looks at it,
\* and lacks at most the node at the turn in a rollout of Vault; and a steady
\* one keeps the leader that the plan found until the last turn.
Looking == pc \in {"flag", "local", "scan", "put"}

Permutation ==
    /\ \A i, j \in 1..N : order[i] = order[j] => i = j
    /\ \A n \in Nodes : \E i \in 1..N : order[i] = n

InTurn ==
    /\ Looking => turn = 1 /\ restarted = {} /\ ~began.planned
    /\ pc = "roll" => restarted = {order[i] : i \in 1..turn - 1}
    /\ pc \in {"lead", "gate"} => restarted = {order[i] : i \in 1..turn}
    /\ pc = "flag" => job = "vault" /\ host = 1 /\ missed = 0
    /\ pc = "local" => job = "postgres" /\ host = 1 /\ missed = 0
    /\ began.flag => flag

Whole == \A n \in Nodes : node[n] = "up"

InService ==
    began.live /\ began.calm =>
        /\ Looking => Whole /\ leader # None /\ elections = 0
        /\ job = "vault" =>
              /\ pc = "roll" => Whole
              /\ pc \in {"lead", "gate"} => \A n \in Nodes : node[n] # "up" => n = order[turn]
              /\ \E x \in Nodes : \A n \in Nodes : node[n] # "up" => n = x

Reached == {n \in Nodes : node[n] \in {"open", "up"}}
InReach ==
    began.live /\ began.calm =>
        /\ pc = "roll" => Reached = Nodes
        /\ pc \in {"lead", "gate"} => Nodes \ Reached \subseteq {order[turn]}
        /\ \E x \in Nodes : Nodes \ Reached \subseteq {x}
        /\ Nodes \ UpIn(node) \subseteq restarted

\* With two nodes Vault has no quorum without either.
Steady ==
    /\ began.live /\ began.calm
    /\ job = "vault" => began.flag /\ N # 2
    /\ job = "zookeeper" => began.quorate

\* What the search has not asked yet still tells it the leader, or too many of
\* those that could have told it were late.
StillToAsk ==
    CASE job = "vault"     -> missed >= host - 1
      [] job = "zookeeper" -> missed > 0 \/ \A i \in 1..N : i < host => Workers[i] # leader
      [] job = "postgres"  -> missed > 0 /\ (missed > 1 \/ \A i \in 1..N : i < host => Workers[i] # leader)

LeaderIsLast ==
    Steady =>
        /\ pc = "scan" => StillToAsk
        /\ pc = "put" => found = leader \/ missed > Tolerated
        /\ began.planned /\ missed <= Tolerated =>
              /\ pc = "roll" \/ (pc \in {"lead", "gate"} /\ turn < N) =>
                    leader = order[N] /\ elections = 0
              /\ pc \in {"lead", "gate", "idle"} => elections <= 1 /\ (leader = None => elections = 0)

Rollout == Permutation /\ InTurn /\ InService /\ InReach /\ LeaderIsLast

\* A rollout that ends without a fault has restarted every node: whatever the
\* plan found, and when it failed, deploy_order names every worker.
EveryoneRestarted ==
    [][pc = "gate" /\ pc' = "idle" /\ faults' = faults => restarted' = Nodes]_vars
=============================================================================
