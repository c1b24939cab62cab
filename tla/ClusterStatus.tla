----------------------------- MODULE ClusterStatus -----------------------------
(***************************************************************************)
(* command_cluster_status of vault, zookeeper and postgres: who it reports *)
(* as master and whom as replicas, when the servers change between its     *)
(* questions.                                                              *)
(*                                                                         *)
(*   vault      asks hosts for the leader until one names it, then every   *)
(*              host for its health                                        *)
(*   zookeeper  asks every host for its mode                               *)
(*   postgres   asks its own Patroni for the cluster; if that does not     *)
(*              answer, every host for its role                            *)
(*                                                                         *)
(* The servers change at any time and as they like: they are outside the   *)
(* repository.  The command runs on allocation 0 only.                     *)
(***************************************************************************)
EXTENDS Naturals, Sequences

CONSTANTS
    Jobs,       \* the jobs whose status is asked for
    Workers,    \* the workers of the job in catalog order
    None        \* no node

N == Len(Workers)
Nodes == {Workers[i] : i \in 1..N}

ASSUME JobsAssumption == Jobs \subseteq {"vault", "zookeeper", "postgres"}
ASSUME WorkersAssumption ==
    /\ Workers \in Seq(Nodes) /\ N \in Nat \ {0}
    /\ \A i, j \in 1..N : Workers[i] = Workers[j] => i = j
    /\ None \notin Nodes \cup {"leader", "other"}

VARIABLES
    job,        \* the job
    node,       \* of a node: "down", "closed" (answers and does not serve), "up"
    leader,     \* whom the cluster takes for its leader, or None: it may be gone
    pc,         \* the command: "idle", "name", "cluster", "scan", "done", "failed"
    host,       \* the position in Workers of the host it asks next
    live,       \* vault: leader_live
    answered,   \* some host has answered
    master,     \* the node in the line "master:"
    listed,     \* the nodes in the lines of "replicas:"
    led,        \* the nodes that led at some moment since the command began
    silent,     \* the hosts that did not answer it, or that Patroni did not list
    still       \* nothing has changed, and no answer was late, since it began

servers == <<node, leader>>
report == <<answered, master, listed>>
vars == <<job, servers, pc, host, live, report, led, silent, still>>

TypeOK ==
    /\ job \in Jobs
    /\ node \in [Nodes -> {"down", "closed", "up"}]
    /\ leader \in Nodes \cup {None}
    /\ pc \in {"idle", "name", "cluster", "scan", "done", "failed"}
    /\ host \in 1..N
    /\ live \in Nodes \cup {None}
    /\ answered \in BOOLEAN
    /\ master \in Nodes \cup {None} /\ listed \subseteq Nodes
    /\ led \subseteq Nodes /\ silent \subseteq Nodes
    /\ still \in BOOLEAN

Init ==
    /\ job \in Jobs
    /\ node \in [Nodes -> {"down", "closed", "up"}] /\ leader \in Nodes \cup {None}
    /\ pc = "idle" /\ host = 1 /\ live = None
    /\ answered = FALSE /\ master = None /\ listed = {}
    /\ led = {} /\ silent = {} /\ still = TRUE

-----------------------------------------------------------------------------
\* The answers.

\* Mutant: a Vault node that is not a standby is active, sealed or not.
RoleUnlessStandby(n) ==
    CASE node[n] = "down"                              -> None
      [] node[n] # "down" /\ leader = n                -> "leader"
      [] job = "vault" /\ node[n] = "closed"           -> "leader"
      [] job = "zookeeper" /\ node[n] = "closed"       -> None
      [] OTHER                                         -> "other"

\* node_state of a health, Mode of srvr, role of /patroni; None for no answer,
\* and for the answer of a ZooKeeper server that serves nobody: it has no Mode.
Role(n) ==
    CASE node[n] = "down"                              -> None
      [] node[n] = "up" /\ leader = n                  -> "leader"
      [] job = "zookeeper" /\ node[n] = "closed"       -> None
      [] OTHER                                         -> "other"

\* fetch_leader: a node that is unsealed names the leader if there is one.
Names(n) == IF node[n] = "up" THEN leader ELSE None

\* An answer, or none because it is late.
Answer(actual, got) ==
    \/ got = actual /\ UNCHANGED still
    \/ got = None /\ still' = FALSE

-----------------------------------------------------------------------------
\* The command.

Start ==
    /\ pc \in {"idle", "done", "failed"}
    /\ pc' = CASE job = "vault" -> "name" [] job = "zookeeper" -> "scan" [] OTHER -> "cluster"
    /\ host' = 1 /\ live' = None
    /\ answered' = FALSE /\ master' = None /\ listed' = {}
    /\ led' = {leader} \ {None} /\ silent' = {} /\ still' = TRUE
    /\ UNCHANGED <<job, servers>>

\* active_leader_ip of vault: the first name wins.
AskName ==
    /\ pc = "name"
    /\ \E got \in {None} \cup Nodes :
        /\ Answer(Names(Workers[host]), got)
        /\ live' = got
        /\ IF got = None /\ host < N
           THEN host' = host + 1 /\ UNCHANGED pc
           ELSE host' = 1 /\ pc' = "scan"
    /\ UNCHANGED <<job, servers, report, led, silent>>

\* fetch_cluster: Patroni's own picture, in which a member that is gone may
\* still be listed; a Patroni that does not serve yet may answer or not.
AskCluster ==
    /\ pc = "cluster"
    /\ LET own == node[Workers[1]]
           alive == {n \in Nodes : node[n] # "down"}
       IN
        \/ /\ own # "down"
           /\ \E gone \in SUBSET (Nodes \ alive) :
                /\ listed' = (alive \cup gone) \ {leader}
                /\ silent' = Nodes \ (alive \cup gone)
           /\ master' = leader /\ answered' = TRUE
           /\ pc' = "done" /\ UNCHANGED still
        \/ /\ pc' = "scan"
           /\ still' = (still /\ own # "up")
           /\ UNCHANGED <<report, silent>>
    /\ UNCHANGED <<job, servers, host, live, led>>

\* Mutant: a host that does not answer is not listed.
SaysLeaderOnly(n, role) ==
    IF role = "leader" THEN master' = n /\ UNCHANGED listed
    ELSE master' = master /\ listed' = IF role = None THEN listed ELSE listed \cup {n}

\* What one answer adds to the report of a job.
ReportVault(n, role) ==
    IF role # None /\ (n = live \/ (role = "leader" /\ live = None))
    THEN master' = n /\ UNCHANGED listed
    ELSE listed' = listed \cup {n} /\ UNCHANGED master

ReportZookeeper(n, role) ==
    IF role = "leader" THEN master' = n /\ UNCHANGED listed
    ELSE listed' = listed \cup {n} /\ UNCHANGED master

ReportPostgres(n, role) ==
    CASE role = "leader" -> master' = n /\ UNCHANGED listed
      [] role = "other"  -> listed' = listed \cup {n} /\ UNCHANGED master
      [] role = None     -> UNCHANGED <<master, listed>>

\* Mutant: the loop runs one host too far.
LastHostTooFar == N + 1

\* Mutant: the last host is not asked.
LastHostShort == N - 1

\* for host in workers.
LastHost == N

\* One host after another; nothing answered: return 1.
Scan ==
    /\ pc = "scan"
    /\ LET n == Workers[host] IN
       \E got \in {None, "leader", "other"} :
        /\ Answer(Role(n), got)
        /\ \/ job = "vault" /\ ReportVault(n, got)
           \/ job = "zookeeper" /\ ReportZookeeper(n, got)
           \/ job = "postgres" /\ ReportPostgres(n, got)
        /\ answered' = (answered \/ got # None)
        /\ silent' = IF got = None THEN silent \cup {n} ELSE silent
    /\ IF host < LastHost
       THEN host' = host + 1 /\ UNCHANGED pc
       ELSE pc' = (IF answered' THEN "done" ELSE "failed") /\ UNCHANGED host
    /\ UNCHANGED <<job, servers, live, led>>

-----------------------------------------------------------------------------
\* The servers.

Change(n) ==
    /\ \E s \in {"down", "closed", "up"} \ {node[n]} : node' = [node EXCEPT ![n] = s]
    /\ leader' \in {leader} \cup (IF leader = n THEN {None} ELSE {})
    /\ still' = FALSE
    /\ UNCHANGED <<job, pc, host, live, report, led, silent>>

Elect(n) ==
    /\ node[n] = "up" /\ leader # n
    /\ leader' = n
    /\ led' = led \cup {n} /\ still' = FALSE
    /\ UNCHANGED <<job, node, pc, host, live, report, silent>>

StepDown ==
    /\ leader # None /\ leader' = None
    /\ still' = FALSE
    /\ UNCHANGED <<job, node, pc, host, live, report, led, silent>>

Command == Start \/ AskName \/ AskCluster \/ Scan
Next == Command \/ StepDown \/ \E n \in Nodes : Change(n) \/ Elect(n)

Spec == Init /\ [][Next]_vars

-----------------------------------------------------------------------------
\* Properties.

\* The hosts that had their turn, or that Patroni answered for; and those that
\* were asked for the name of the leader.
Behind(n) ==
    \/ pc \in {"done", "failed"}
    \/ pc = "scan" /\ \E i \in 1..N : i < host /\ Workers[i] = n
Asked(n) ==
    /\ job = "vault"
    /\ \/ pc = "scan"
       \/ pc = "name" /\ \E i \in 1..N : i < host /\ Workers[i] = n

Witnessed ==
    /\ pc # "idle" => leader \in led \cup {None}
    /\ {live, master} \subseteq led \cup {None}
Covered ==
    /\ pc \in {"name", "cluster"} => ~answered /\ live = None
    /\ pc = "cluster" => host = 1 /\ job = "postgres"
    /\ pc = "done" => answered
    /\ pc = "failed" => ~answered
    /\ \A n \in Nodes : Behind(n) =>
           /\ \/ n \in listed \cup {master}
              \/ n \in led /\ master # None
              \/ job = "postgres" /\ n \in silent
           /\ answered \/ n \in silent
Exact ==
    /\ {live, master} \subseteq {leader, None}
    /\ \A n \in Nodes : live = None /\ Asked(n) => Names(n) = None
    /\ \A n \in Nodes : leader = n /\ node[n] = "up" => n \notin listed /\ (Behind(n) => master = n)
    /\ \A n \in Nodes : leader # n /\ node[n] # "down" /\ Behind(n) => n \in listed

\* Half way through the loop as at its end: what is reported led since the command
\* began, every host that had its turn is accounted for, and as long as nothing
\* changed under the loop what it has so far is the truth.
SoFar == Witnessed /\ Covered /\ (still => Exact)

\* "Print ... active leader" (all three commands): the reported master was the
\* leader at some moment while the command ran, however the servers changed.
MasterHasLed == master # None => master \in led

\* "... and standby nodes": a worker is missing from a finished report only if it
\* led, too, and the leadership moved on behind the question (the later answer
\* overwrites the earlier), or if Patroni was silent about it.
NobodyIsMissing ==
    pc = "done" => \A n \in Nodes \ (listed \cup {master}) :
        \/ n \in led /\ master # None
        \/ job = "postgres" /\ n \in silent

\* Undisturbed, the report is the truth: a leader that serves is the master,
\* nobody else is, and every other node that answers is a replica.  Disturbed or
\* not, the command fails only if every host was silent.
ReportIsTrue ==
    /\ pc = "done" /\ still =>
          /\ master \in {leader, None}
          /\ leader # None /\ node[leader] = "up" => master = leader /\ leader \notin listed
          /\ \A n \in Nodes \ {leader} : node[n] # "down" => n \in listed
    /\ pc = "failed" => silent = Nodes
=============================================================================
