-------------------------- MODULE ClusterStatusProofs --------------------------
(***************************************************************************)
(* Proofs about ClusterStatus, for every number of workers and every way   *)
(* the servers may change under the command.                               *)
(***************************************************************************)
EXTENDS ClusterStatus, SequenceTheorems, TLAPS

\* The constants in the form the proofs use.
LEMMA ConstantFacts ==
    /\ N \in Nat /\ 1 \in 1..N /\ N \in 1..N
    /\ \A i \in 1..N : Workers[i] \in Nodes
    /\ \A n \in Nodes : \E i \in 1..N : Workers[i] = n
    /\ \A i, j \in 1..N : Workers[i] = Workers[j] => i = j
    /\ None \notin Nodes /\ None # "leader" /\ None # "other"
BY WorkersAssumption DEF Nodes, N

\* A node answers "leader" only if it leads and serves, and if it does it answers
\* nothing else; a name is the leader's.
LEMMA RoleFacts ==
    ASSUME NEW n \in Nodes, TypeOK
    PROVE  /\ Role(n) \in {None, "leader", "other"}
           /\ Role(n) = "leader" <=> leader = n /\ node[n] = "up"
           /\ Role(n) = None => node[n] = "down" \/ (job = "zookeeper" /\ node[n] = "closed")
           /\ node[n] = "down" => Role(n) = None
           /\ Names(n) = IF node[n] = "up" THEN leader ELSE None
<1>1. None # "leader" /\ None # "other" /\ "down" # "up" /\ "down" # "closed" /\ "up" # "closed"
  BY ConstantFacts
<1>2. CASE node[n] = "down"
  BY <1>1, <1>2 DEF Role, Names
<1>3. CASE node[n] # "down" /\ node[n] = "up" /\ leader = n
  BY <1>1, <1>3 DEF Role, Names
<1>4. CASE node[n] # "down" /\ ~(node[n] = "up" /\ leader = n) /\ job = "zookeeper" /\ node[n] = "closed"
  BY <1>1, <1>4 DEF Role, Names
<1>5. CASE node[n] # "down" /\ ~(node[n] = "up" /\ leader = n) /\ ~(job = "zookeeper" /\ node[n] = "closed")
  BY <1>1, <1>5 DEF Role, Names
<1> QED BY <1>2, <1>3, <1>4, <1>5

\* One answer leaves in the report either the node itself as master or as a
\* replica, or, in postgres, nothing about a node that was silent.
LEMMA OneAnswer ==
    ASSUME TypeOK, NEW n \in Nodes, NEW got \in {None, "leader", "other"},
           \/ job = "vault" /\ ReportVault(n, got)
           \/ job = "zookeeper" /\ ReportZookeeper(n, got)
           \/ job = "postgres" /\ ReportPostgres(n, got)
    PROVE  \/ /\ master' = n /\ listed' = listed /\ got # None
              /\ got = "leader" \/ (job = "vault" /\ n = live)
              /\ ~(job = "vault" /\ n # live /\ live # None)
           \/ /\ listed' = listed \cup {n} /\ master' = master
              /\ got # "leader" \/ (job = "vault" /\ live # None /\ n # live)
              /\ got = None \/ ~(job = "vault" /\ n = live)
           \/ listed' = listed /\ master' = master /\ job = "postgres" /\ got = None
<1>1. CASE job = "vault" /\ ReportVault(n, got)
  BY <1>1, ConstantFacts DEF ReportVault
<1>2. CASE job = "zookeeper" /\ ReportZookeeper(n, got)
  BY <1>2, ConstantFacts DEF ReportZookeeper
<1>3. CASE job = "postgres" /\ ReportPostgres(n, got)
  <2>1. CASE got = "leader"
    BY <1>3, <2>1, ConstantFacts DEF ReportPostgres
  <2>2. CASE got = "other"
    BY <1>3, <2>2, ConstantFacts DEF ReportPostgres
  <2>3. CASE got = None
    BY <1>3, <2>3, ConstantFacts DEF ReportPostgres
  <2> QED BY <2>1, <2>2, <2>3
<1> QED BY <1>1, <1>2, <1>3

-----------------------------------------------------------------------------
\* Types.

LEMMA InitTypes == Init => TypeOK
BY ConstantFacts DEF Init, TypeOK

LEMMA StepTypes == TypeOK /\ [Next]_vars => TypeOK'
<1> SUFFICES ASSUME TypeOK, [Next]_vars PROVE TypeOK'
  OBVIOUS
<1>1. CASE Start
  <2>1. pc' \in {"name", "scan", "cluster"}
    <3>1. CASE job = "vault"
      BY <1>1, <3>1 DEF Start
    <3>2. CASE job = "zookeeper"
      BY <1>1, <3>2 DEF Start
    <3>3. CASE job # "vault" /\ job # "zookeeper"
      BY <1>1, <3>3 DEF Start
    <3> QED BY <3>1, <3>2, <3>3
  <2> QED BY <1>1, <2>1, ConstantFacts DEF Start, TypeOK, servers
<1>2. CASE AskName
  <2>1. PICK got \in {None} \cup Nodes :
            /\ Answer(Names(Workers[host]), got) /\ live' = got
            /\ \/ got = None /\ host < N /\ host' = host + 1 /\ UNCHANGED pc
               \/ host' = 1 /\ pc' = "scan"
    BY <1>2 DEF AskName
  <2>2. still' \in BOOLEAN
    BY <2>1 DEF Answer, TypeOK
  <2> QED BY <1>2, <2>1, <2>2, ConstantFacts DEF AskName, TypeOK, servers, report
<1>3. CASE AskCluster
  <2>1. still' \in BOOLEAN
    BY <1>3 DEF AskCluster, TypeOK
  <2> QED BY <1>3, <2>1, ConstantFacts DEF AskCluster, TypeOK, servers, report
<1>4. CASE Scan
  <2> DEFINE n == Workers[host]
  <2>1. n \in Nodes
    BY ConstantFacts DEF TypeOK
  <2>2. PICK got \in {None, "leader", "other"} :
            /\ Answer(Role(n), got)
            /\ \/ job = "vault" /\ ReportVault(n, got)
               \/ job = "zookeeper" /\ ReportZookeeper(n, got)
               \/ job = "postgres" /\ ReportPostgres(n, got)
            /\ answered' = (answered \/ got # None)
            /\ silent' = IF got = None THEN silent \cup {n} ELSE silent
    BY <1>4 DEF Scan
  <2> HIDE DEF n
  <2>3. still' \in BOOLEAN
    BY <2>2 DEF Answer, TypeOK
  <2>4. master' \in Nodes \cup {None} /\ listed' \subseteq Nodes
    BY <2>1, <2>2, OneAnswer DEF TypeOK
  <2>5. host' \in 1..N /\ pc' \in {"scan", "done", "failed"}
    BY <1>4, ConstantFacts DEF Scan, LastHost, TypeOK
  <2> QED BY <1>4, <2>1, <2>2, <2>3, <2>4, <2>5 DEF Scan, TypeOK, servers
<1>5. ASSUME NEW n \in Nodes, Change(n) PROVE TypeOK'
  BY <1>5 DEF Change, TypeOK, report
<1>6. ASSUME NEW n \in Nodes, Elect(n) PROVE TypeOK'
  BY <1>6 DEF Elect, TypeOK, report
<1>7. CASE StepDown
  BY <1>7 DEF StepDown, TypeOK, report
<1>8. CASE UNCHANGED vars
  BY <1>8 DEF vars, servers, report, TypeOK
<1> QED BY <1>1, <1>2, <1>3, <1>4, <1>5, <1>6, <1>7, <1>8 DEF Next, Command

\* The command never writes down anything but nodes, and never asks past the end.
THEOREM StatusTypeCorrect == Spec => []TypeOK
<1> QED BY InitTypes, StepTypes, PTL DEF Spec


-----------------------------------------------------------------------------
\* What the report is made of.

\* The steps of the loop in the form the lemmas below use.
LEMMA ScanStep ==
    ASSUME TypeOK, Scan
    PROVE  LET n == Workers[host] IN
           /\ pc = "scan" /\ n \in Nodes
           /\ \E got \in {None, "leader", "other"} :
                /\ \/ got = Role(n) /\ still' = still
                   \/ got = None /\ still' = FALSE
                /\ \/ /\ master' = n /\ listed' = listed /\ got # None
                      /\ got = "leader" \/ (job = "vault" /\ n = live)
                      /\ ~(job = "vault" /\ n # live /\ live # None)
                   \/ /\ listed' = listed \cup {n} /\ master' = master
                      /\ got # "leader" \/ (job = "vault" /\ live # None /\ n # live)
                      /\ got = None \/ ~(job = "vault" /\ n = live)
                   \/ listed' = listed /\ master' = master /\ job = "postgres" /\ got = None
                /\ answered' = (answered \/ got # None)
                /\ silent' = IF got = None THEN silent \cup {n} ELSE silent
           /\ \/ host < N /\ host' = host + 1 /\ pc' = "scan"
              \/ host = N /\ host' = host /\ answered' /\ pc' = "done"
              \/ host = N /\ host' = host /\ ~answered' /\ pc' = "failed"
           /\ UNCHANGED <<job, node, leader, live, led>>
<1> DEFINE n == Workers[host]
<1>1. n \in Nodes
  BY ConstantFacts DEF TypeOK
<1>2. PICK got \in {None, "leader", "other"} :
          /\ Answer(Role(n), got)
          /\ \/ job = "vault" /\ ReportVault(n, got)
             \/ job = "zookeeper" /\ ReportZookeeper(n, got)
             \/ job = "postgres" /\ ReportPostgres(n, got)
          /\ answered' = (answered \/ got # None)
          /\ silent' = IF got = None THEN silent \cup {n} ELSE silent
  BY DEF Scan
<1>3. \/ host < N /\ host' = host + 1 /\ pc' = "scan"
      \/ host = N /\ host' = host /\ answered' /\ pc' = "done"
      \/ host = N /\ host' = host /\ ~answered' /\ pc' = "failed"
  BY ConstantFacts DEF Scan, LastHost, TypeOK
<1>4. pc = "scan" /\ UNCHANGED <<job, node, leader, live, led>>
  BY DEF Scan, servers
<1> HIDE DEF n
<1>5. \/ got = Role(n) /\ still' = still
      \/ got = None /\ still' = FALSE
  BY <1>2 DEF Answer
<1>6. \/ /\ master' = n /\ listed' = listed /\ got # None
         /\ got = "leader" \/ (job = "vault" /\ n = live)
         /\ ~(job = "vault" /\ n # live /\ live # None)
      \/ /\ listed' = listed \cup {n} /\ master' = master
         /\ got # "leader" \/ (job = "vault" /\ live # None /\ n # live)
         /\ got = None \/ ~(job = "vault" /\ n = live)
      \/ listed' = listed /\ master' = master /\ job = "postgres" /\ got = None
  BY <1>1, <1>2, OneAnswer
<1> QED BY <1>1, <1>2, <1>3, <1>4, <1>5, <1>6 DEF n

\* A host that is behind the loop after a round of it was behind it before, or it
\* is the one that was asked.
LEMMA RoundOfScan ==
    ASSUME TypeOK, Scan, NEW m \in Nodes, Behind(m)'
    PROVE  Behind(m) \/ m = Workers[host]
<1>1. CASE pc' = "scan"
  <2>1. PICK i \in 1..N : i < host' /\ Workers[i] = m
    BY <1>1 DEF Behind
  <2>2. host' = host + 1 /\ pc = "scan" /\ host \in 1..N
    BY <1>1, ScanStep DEF TypeOK
  <2>3. CASE i < host
    BY <2>1, <2>2, <2>3 DEF Behind
  <2>4. CASE i = host
    BY <2>1, <2>4
  <2> QED BY <2>1, <2>2, <2>3, <2>4, ConstantFacts
<1>2. CASE pc' # "scan"
  <2>1. host = N /\ pc = "scan"
    BY <1>2, ScanStep
  <2>2. PICK i \in 1..N : Workers[i] = m
    BY ConstantFacts
  <2>3. CASE i < host
    BY <2>1, <2>2, <2>3 DEF Behind
  <2>4. CASE i = host
    BY <2>2, <2>4
  <2> QED BY <2>1, <2>2, <2>3, <2>4, ConstantFacts
<1> QED BY <1>1, <1>2

\* What the master and the leader that was named have in common: they led.
LEMMA StepWitnessed == TypeOK /\ Witnessed /\ Next => Witnessed'
<1> SUFFICES ASSUME TypeOK, Witnessed, Next PROVE Witnessed'
  OBVIOUS
<1>1. CASE Start
  BY <1>1 DEF Start, Witnessed, servers, TypeOK
<1>2. CASE AskName
  <2>1. PICK got \in {None} \cup Nodes : Answer(Names(Workers[host]), got) /\ live' = got
    BY <1>2 DEF AskName
  <2>2. got \in {leader, None}
    BY <2>1, ConstantFacts, RoleFacts DEF Answer, TypeOK
  <2>3. pc = "name" /\ UNCHANGED <<leader, led, master>>
    BY <1>2 DEF AskName, servers, report
  <2> QED BY <2>1, <2>2, <2>3 DEF Witnessed
<1>3. CASE AskCluster
  BY <1>3 DEF AskCluster, Witnessed, servers, report
<1>4. CASE Scan
  <2> DEFINE n == Workers[host]
  <2>1. pc = "scan" /\ n \in Nodes /\ UNCHANGED <<leader, live, led>>
    BY <1>4, ScanStep
  <2>2. CASE master' = n /\ (Role(n) = "leader" \/ n = live)
    <3>1. n \in led
      BY <2>1, <2>2, RoleFacts, ConstantFacts DEF Witnessed
    <3> QED BY <2>1, <2>2, <3>1 DEF Witnessed
  <2>3. CASE master' = master
    BY <2>1, <2>3 DEF Witnessed
  <2> QED BY <1>4, <2>2, <2>3, ScanStep
<1>5. ASSUME NEW n \in Nodes, Change(n) PROVE Witnessed'
  BY <1>5 DEF Change, Witnessed, report
<1>6. ASSUME NEW n \in Nodes, Elect(n) PROVE Witnessed'
  BY <1>6 DEF Elect, Witnessed, report
<1>7. CASE StepDown
  BY <1>7 DEF StepDown, Witnessed, report
<1> QED BY <1>1, <1>2, <1>3, <1>4, <1>5, <1>6, <1>7 DEF Next, Command

\* Who is behind the loop does not change but by a step of the command.
LEMMA NobodyMoves ==
    ASSUME UNCHANGED <<pc, host, job>>, NEW m \in Nodes
    PROVE  (Behind(m)' <=> Behind(m)) /\ (Asked(m)' <=> Asked(m))
BY DEF Behind, Asked

\* Nobody is forgotten: what every round of the loop adds.
LEMMA StepCovered == TypeOK /\ Witnessed /\ Covered /\ Next => Covered'
<1> SUFFICES ASSUME TypeOK, Witnessed, Covered, Next PROVE Covered'
  OBVIOUS
<1> DEFINE Kept(m) == /\ \/ m \in listed \cup {master}
                         \/ m \in led /\ master # None
                         \/ job = "postgres" /\ m \in silent
                      /\ answered \/ m \in silent
<1>1. CASE Start
  <2>1. /\ pc' \in {"name", "scan", "cluster"} /\ ~answered' /\ live' = None /\ host' = 1
        /\ pc' = "cluster" => job' = "postgres"
    <3>1. CASE job = "vault"
      BY <1>1, <3>1 DEF Start
    <3>2. CASE job = "zookeeper"
      BY <1>1, <3>2 DEF Start
    <3>3. CASE job # "vault" /\ job # "zookeeper"
      BY <1>1, <3>3, JobsAssumption DEF Start, TypeOK
    <3> QED BY <1>1, <3>1, <3>2, <3>3, JobsAssumption DEF Start, TypeOK
  <2>2. ASSUME NEW m \in Nodes PROVE ~Behind(m)'
    BY <2>1, ConstantFacts DEF Behind
  <2> QED BY <2>1, <2>2 DEF Covered
<1>2. CASE AskName
  <2>1. \/ pc' = pc /\ live' = None
        \/ host' = 1 /\ pc' = "scan"
    BY <1>2 DEF AskName
  <2>2. pc = "name" /\ ~answered /\ UNCHANGED <<job, answered, master, listed, led, silent>>
    BY <1>2 DEF AskName, report, Covered
  <2>3. ASSUME NEW m \in Nodes PROVE ~Behind(m)'
    BY <2>1, <2>2, ConstantFacts DEF Behind
  <2> QED BY <2>1, <2>2, <2>3 DEF Covered
<1>3. CASE AskCluster
  <2>1. pc = "cluster" /\ job = "postgres" /\ host = 1 /\ ~answered /\ UNCHANGED <<job, host, live, led>>
    BY <1>3 DEF AskCluster, Covered
  <2>2. \/ pc' = "done" /\ answered' /\ job = job'
           /\ \A m \in Nodes : m \in listed' \cup {master'} \/ m \in silent'
        \/ pc' = "scan" /\ UNCHANGED answered
    BY <1>3 DEF AskCluster, report
  <2>3. CASE pc' = "scan"
    <3>1. ASSUME NEW m \in Nodes PROVE ~Behind(m)'
      BY <2>1, <2>3, ConstantFacts DEF Behind
    <3> QED BY <2>1, <2>3, <3>1 DEF Covered
  <2> QED BY <2>1, <2>2, <2>3 DEF Covered
<1>4. CASE Scan
  <2>0. PICK n \in Nodes : n = Workers[host]
    BY <1>4, ScanStep
  <2>1. /\ pc = "scan"
        /\ UNCHANGED <<job, led>>
        /\ answered => answered'
        /\ silent \subseteq silent' /\ listed \subseteq listed'
        /\ \/ pc' = "scan"
           \/ answered' /\ pc' = "done"
           \/ ~answered' /\ pc' = "failed"
    BY <1>4, ScanStep
  <2>2. Kept(n)'
    BY <1>4, <2>0, ScanStep
  <2>3. ASSUME NEW m \in Nodes, Kept(m) PROVE Kept(m)'
    <3>1. answered' \/ m \in silent'
      BY <2>1, <2>3
    <3>2. master' = master \/ master' = n
      BY <1>4, <2>0, ScanStep
    <3>3. n # None
      BY ConstantFacts
    <3>4. CASE m = master
      <4>1. m \in led
        BY <2>3, <3>4, ConstantFacts DEF Witnessed
      <4> QED BY <2>1, <3>1, <3>2, <3>3, <3>4, <4>1
    <3> QED BY <2>1, <2>3, <3>1, <3>2, <3>3, <3>4
  <2>4. ASSUME NEW m \in Nodes, Behind(m)' PROVE Kept(m)'
    <3>1. CASE m = n
      BY <2>2, <3>1
    <3>2. CASE Behind(m)
      BY <2>3, <3>2 DEF Covered
    <3> QED BY <1>4, <2>0, <2>4, <3>1, <3>2, RoundOfScan
  <2> QED BY <2>1, <2>4 DEF Covered
<1>5. ASSUME NEW n \in Nodes, Change(n) \/ Elect(n) \/ StepDown PROVE Covered'
  <2>1. UNCHANGED <<job, pc, host, live, answered, master, listed, silent>> /\ led \subseteq led'
    BY <1>5 DEF Change, Elect, StepDown, report
  <2>2. ASSUME NEW m \in Nodes, Behind(m)' PROVE Kept(m)'
    <3>1. Kept(m)
      BY <2>1, <2>2, NobodyMoves DEF Covered
    <3> QED BY <2>1, <3>1
  <2> QED BY <2>1, <2>2 DEF Covered
<1>6. CASE StepDown
  BY <1>5, <1>6, ConstantFacts
<1> QED BY <1>1, <1>2, <1>3, <1>4, <1>5, <1>6 DEF Next, Command

\* As long as nothing changes, what was asked is what is.
LEMMA StepExact == TypeOK /\ Covered /\ (still => Exact) /\ Next => (still' => Exact')
<1> SUFFICES ASSUME TypeOK, Covered, still => Exact, Next, still' PROVE Exact'
  OBVIOUS
<1>1. CASE Start
  <2>1. /\ pc' \in {"name", "scan", "cluster"} /\ host' = 1 /\ live' = None /\ master' = None /\ listed' = {}
        /\ job' = job /\ (pc' = "scan" => job # "vault")
    <3>1. CASE job = "vault"
      BY <1>1, <3>1 DEF Start
    <3>2. CASE job = "zookeeper"
      BY <1>1, <3>2 DEF Start
    <3>3. CASE job # "vault" /\ job # "zookeeper"
      BY <1>1, <3>3 DEF Start
    <3> QED BY <1>1, <3>1, <3>2, <3>3 DEF Start
  <2>2. ASSUME NEW m \in Nodes PROVE ~Behind(m)' /\ ~Asked(m)'
    BY <2>1, ConstantFacts DEF Behind, Asked
  <2> QED BY <2>1, <2>2 DEF Exact
<1>2. CASE AskName
  <2>1. PICK n \in Nodes : n = Workers[host]
    BY ConstantFacts DEF TypeOK
  <2>2. /\ pc = "name" /\ UNCHANGED <<job, node, leader, master, listed>>
        /\ still /\ live' = Names(n)
        /\ \/ live' = None /\ host < N /\ host' = host + 1 /\ pc' = "name"
           \/ live' # None /\ host' = 1 /\ pc' = "scan"
           \/ host = N /\ host' = 1 /\ pc' = "scan"
    <3>1. PICK got \in {None} \cup Nodes :
              /\ Answer(Names(Workers[host]), got) /\ live' = got
              /\ \/ got = None /\ host < N /\ host' = host + 1 /\ UNCHANGED pc
                 \/ ~(got = None /\ host < N) /\ host' = 1 /\ pc' = "scan"
      BY <1>2 DEF AskName
    <3>2. got = Names(n) /\ still
      BY <2>1, <3>1 DEF Answer
    <3> QED BY <1>2, <3>1, <3>2, ConstantFacts DEF AskName, servers, report, TypeOK
  <2>3. Names(n) \in {leader, None}
    BY RoleFacts
  <2>4. ASSUME NEW m \in Nodes PROVE ~Behind(m)'
    BY <2>2, ConstantFacts DEF Behind
  <2>5. ASSUME NEW m \in Nodes, Asked(m)', live' = None PROVE Names(m) = None
    <3>1. PICK i \in 1..N : Workers[i] = m
      BY ConstantFacts
    <3>2. i <= host
      <4>1. CASE pc' = "name"
        BY <2>2, <2>5, <3>1, <4>1, ConstantFacts DEF Asked, TypeOK
      <4>2. CASE host = N
        BY <4>2, ConstantFacts
      <4> QED BY <2>2, <2>5, <4>1, <4>2
    <3>3. CASE i = host
      BY <2>1, <2>2, <2>5, <3>1, <3>3
    <3>4. CASE i < host
      <4>1. Asked(m)
        BY <2>2, <2>5, <3>1, <3>4 DEF Asked
      <4>2. live = None
        BY <2>2 DEF Covered
      <4> QED BY <2>2, <4>1, <4>2 DEF Exact
    <3> QED BY <3>2, <3>3, <3>4, ConstantFacts DEF TypeOK
  <2>6. ASSUME NEW m \in Nodes PROVE Names(m)' = Names(m)
    BY <2>2 DEF Names
  <2> QED BY <2>2, <2>3, <2>4, <2>5, <2>6 DEF Exact
<1>3. CASE AskCluster
  <2>1. /\ pc = "cluster" /\ job = "postgres" /\ host = 1
        /\ UNCHANGED <<job, node, leader, host, live>> /\ still
    BY <1>3 DEF AskCluster, Covered, servers
  <2>2. ASSUME NEW m \in Nodes PROVE ~Asked(m)'
    BY <2>1 DEF Asked
  <2>3. CASE pc' = "scan"
    <3>1. UNCHANGED <<master, listed>>
      BY <1>3, <2>3 DEF AskCluster, report
    <3>2. ASSUME NEW m \in Nodes PROVE ~Behind(m)'
      BY <2>1, <2>3, ConstantFacts DEF Behind
    <3> QED BY <2>1, <2>2, <2>3, <3>1, <3>2 DEF Exact
  <2>4. CASE pc' # "scan"
    <3>1. /\ master' = leader
          /\ \A m \in Nodes : m # leader /\ node[m] # "down" => m \in listed'
          /\ leader \notin listed'
      BY <1>3, <2>4 DEF AskCluster
    <3> QED BY <2>1, <2>2, <3>1 DEF Exact
  <2> QED BY <2>3, <2>4
<1>4. CASE Scan
  <2>0. PICK n \in Nodes : n = Workers[host]
    BY <1>4, ScanStep
  <2> DEFINE IsMaster == master' = n /\ listed' = listed
             IsListed == listed' = listed \cup {n} /\ master' = master
             IsSilent == listed' = listed /\ master' = master
  <2>1. /\ pc = "scan" /\ still /\ UNCHANGED <<job, node, leader, live>> /\ pc' # "name"
        /\ \/ /\ IsMaster /\ Role(n) # None
              /\ Role(n) = "leader" \/ (job = "vault" /\ n = live)
           \/ IsListed /\ (Role(n) # "leader" \/ (job = "vault" /\ live # None /\ n # live))
           \/ IsSilent /\ job = "postgres" /\ Role(n) = None
    BY <1>4, <2>0, ScanStep, RoleFacts
  <2> HIDE DEF IsMaster, IsListed, IsSilent
  <2>2. {live, master} \subseteq {leader, None} /\ n # None
    BY <2>1, ConstantFacts DEF Exact
  <2>3. IsMaster => n = leader
    <3>1. CASE Role(n) = "leader"
      BY <3>1, RoleFacts
    <3>2. CASE n = live
      BY <2>2, <3>2
    <3>3. CASE IsMaster /\ n # leader /\ (IsListed \/ IsSilent)
      <4>1. master = n
        BY <3>3 DEF IsMaster, IsListed, IsSilent
      <4> QED BY <2>2, <3>3, <4>1
    <3> QED BY <2>1, <3>1, <3>2, <3>3
  <2>4. {live', master'} \subseteq {leader', None}
    BY <2>1, <2>2, <2>3 DEF IsMaster, IsListed, IsSilent
  <2>5. ASSUME NEW m \in Nodes, live = None, Asked(m)' PROVE Names(m)' = None
    <3>1. Asked(m)
      BY <2>1, <2>5 DEF Asked
    <3>2. Names(m) = None
      BY <2>1, <2>5, <3>1 DEF Exact
    <3> QED BY <2>1, <3>2 DEF Names
  <2>6. ASSUME NEW m \in Nodes, leader = m, node[m] = "up"
        PROVE  m \notin listed' /\ (Behind(m)' => master' = m)
    <3>1. m \notin listed /\ (Behind(m) => master = m)
      BY <2>1, <2>6 DEF Exact
    <3>2. CASE m = n
      <4>1. Role(n) = "leader"
        BY <2>6, <3>2, RoleFacts
      <4>2. IsMaster
        BY <2>1, <2>2, <2>6, <3>2, <4>1, ConstantFacts
      <4> QED BY <3>1, <3>2, <4>2 DEF IsMaster
    <3>3. CASE m # n
      <4>1. ~IsMaster
        BY <2>3, <2>6, <3>3
      <4>2. master' = master /\ listed' \subseteq listed \cup {n}
        BY <2>1, <4>1 DEF IsListed, IsSilent
      <4> QED BY <1>4, <2>0, <3>1, <3>3, <4>2, RoundOfScan
    <3> QED BY <3>2, <3>3
  <2>7. ASSUME NEW m \in Nodes, leader # m, node[m] # "down", Behind(m)'
        PROVE  m \in listed'
    <3>1. CASE m = n
      <4>1. ~IsMaster
        BY <2>3, <2>7, <3>1
      <4>2. ~(job = "postgres" /\ Role(n) = None)
        BY <2>7, <3>1, RoleFacts
      <4> QED BY <2>1, <3>1, <4>1, <4>2 DEF IsListed
    <3>2. CASE m # n
      <4>1. m \in listed
        BY <1>4, <2>0, <2>1, <2>7, <3>2, RoundOfScan DEF Exact
      <4> QED BY <2>1, <4>1 DEF IsMaster, IsListed, IsSilent
    <3> QED BY <3>1, <3>2
  <2> QED BY <2>1, <2>4, <2>5, <2>6, <2>7 DEF Exact
<1>5. ASSUME NEW n \in Nodes, Change(n) \/ Elect(n) PROVE Exact'
  BY <1>5 DEF Change, Elect
<1>6. CASE StepDown
  BY <1>6 DEF StepDown
<1> QED BY <1>1, <1>2, <1>3, <1>4, <1>5, <1>6 DEF Next, Command

-----------------------------------------------------------------------------
\* The theorems.

\* The inductive invariant of the three commands: half way through the loop as at
\* its end.
THEOREM SoFarCorrect == Spec => []SoFar
<1>1. Init => SoFar
  BY ConstantFacts DEF Init, SoFar, Witnessed, Covered, Exact, Behind, Asked
<1>2. TypeOK /\ SoFar /\ [Next]_vars => SoFar'
  <2> SUFFICES ASSUME TypeOK, SoFar, [Next]_vars PROVE SoFar'
    OBVIOUS
  <2>1. CASE Next
    BY <2>1, StepWitnessed, StepCovered, StepExact DEF SoFar
  <2>2. CASE UNCHANGED vars
    BY <2>2 DEF vars, servers, report, SoFar, Witnessed, Covered, Exact, Behind, Asked, Names
  <2> QED BY <2>1, <2>2
<1> QED BY <1>1, <1>2, StatusTypeCorrect, PTL DEF Spec

\* The reported master led at some moment while the command ran.
THEOREM MasterLed == Spec => []MasterHasLed
<1>1. SoFar => MasterHasLed
  BY DEF SoFar, Witnessed, MasterHasLed
<1> QED BY <1>1, SoFarCorrect, PTL

\* No worker is missing from a report but one that led as well or that Patroni
\* was silent about.
THEOREM EveryoneAccounted == Spec => []NobodyIsMissing
<1>1. SoFar => NobodyIsMissing
  BY DEF SoFar, Covered, NobodyIsMissing, Behind
<1> QED BY <1>1, SoFarCorrect, PTL

\* An undisturbed report is true, and the command fails only if every host was
\* silent.
THEOREM ReportTrue == Spec => []ReportIsTrue
<1>1. TypeOK /\ SoFar => ReportIsTrue
  <2> SUFFICES ASSUME TypeOK, SoFar PROVE ReportIsTrue
    OBVIOUS
  <2>1. ASSUME pc = "done", still
        PROVE  /\ master \in {leader, None}
               /\ leader # None /\ node[leader] = "up" => master = leader /\ leader \notin listed
               /\ \A n \in Nodes \ {leader} : node[n] # "down" => n \in listed
    BY <2>1 DEF SoFar, Exact, Behind, TypeOK
  <2>2. ASSUME pc = "failed" PROVE silent = Nodes
    BY <2>2 DEF SoFar, Covered, Behind, TypeOK
  <2> QED BY <2>1, <2>2 DEF ReportIsTrue
<1> QED BY <1>1, StatusTypeCorrect, SoFarCorrect, PTL

-----------------------------------------------------------------------------
\* Beyond what the runs check.

\* Half way through, no host that is still to have its turn is in the report.
Turns ==
    /\ master \notin listed
    /\ pc \in {"name", "cluster"} => master = None /\ listed = {}
    /\ pc = "scan" => \A i \in host..N : Workers[i] \notin listed \cup {master}

LEMMA StepTurns == TypeOK /\ Turns /\ [Next]_vars => Turns'
<1> SUFFICES ASSUME TypeOK, Turns, [Next]_vars PROVE Turns'
  OBVIOUS
<1>1. CASE Start
  <2>1. master' = None /\ listed' = {}
    BY <1>1 DEF Start
  <2>2. host' = 1
    BY <1>1 DEF Start
  <2>3. \A i \in 1..N : Workers[i] # None
    BY ConstantFacts
  <2> QED BY <2>1, <2>2, <2>3 DEF Turns
<1>2. CASE AskName
  <2>1. /\ pc = "name" /\ UNCHANGED <<master, listed>>
        /\ pc' = "scan" => host' = 1
    BY <1>2 DEF AskName, report
  <2>2. \A i \in 1..N : Workers[i] # None
    BY ConstantFacts
  <2> QED BY <2>1, <2>2 DEF Turns
<1>3. CASE AskCluster
  <2>1. pc = "cluster" /\ master = None /\ listed = {} /\ host' = host /\ host \in 1..N
    BY <1>3 DEF AskCluster, Turns, TypeOK
  <2>2. \A i \in host..N : i \in 1..N
    BY <2>1, ConstantFacts
  <2>3. \/ pc' = "done" /\ master' = leader /\ leader \notin listed'
        \/ pc' = "scan" /\ UNCHANGED <<master, listed>>
    BY <1>3 DEF AskCluster, report
  <2> QED BY <2>1, <2>2, <2>3, ConstantFacts DEF Turns
<1>4. CASE Scan
  <2>1. /\ pc = "scan" /\ host \in 1..N /\ Workers[host] \in Nodes
        /\ pc' = "scan" => host' = host + 1
        /\ pc' \in {"scan", "done", "failed"}
        /\ \/ master' = Workers[host] /\ listed' = listed
           \/ listed' = listed \cup {Workers[host]} /\ master' = master
           \/ listed' = listed /\ master' = master
    BY <1>4, ScanStep DEF Scan, LastHost, TypeOK
  <2>2. Workers[host] \notin listed /\ Workers[host] # master
    BY <2>1, ConstantFacts DEF Turns
  <2>3. ASSUME pc' = "scan", NEW i \in (host + 1)..N
        PROVE  Workers[i] \notin listed' /\ Workers[i] # master'
    <3>1. i \in 1..N /\ i # host /\ i \in host..N
      BY <2>1, ConstantFacts
    <3>2. Workers[i] # Workers[host]
      BY <2>1, <3>1, ConstantFacts
    <3> QED BY <2>1, <3>1, <3>2 DEF Turns
  <2> QED BY <2>1, <2>2, <2>3 DEF Turns
<1>5. CASE StepDown \/ (\E n \in Nodes : Change(n) \/ Elect(n)) \/ UNCHANGED vars
  BY <1>5 DEF StepDown, Change, Elect, vars, report, Turns
<1> QED BY <1>1, <1>2, <1>3, <1>4, <1>5 DEF Next, Command

\* However the leadership moves under the questions, and whichever hosts claim to
\* lead, a report never has a node in its line of the master and in those of the
\* replicas.
THEOREM MasterIsNoReplica == Spec => [](master \notin listed)
<1>1. Init => Turns
  BY DEF Init, Turns
<1>2. Turns => master \notin listed
  BY DEF Turns
<1> QED BY <1>1, <1>2, StepTurns, StatusTypeCorrect, PTL DEF Spec

\* How many questions a command may still ask.
Questions ==
    CASE pc = "name"    -> 2 * N - host + 1
      [] pc = "cluster" -> N + 1
      [] pc = "scan"    -> N - host + 1
      [] OTHER          -> 0

LEMMA QuestionFacts ==
    ASSUME TypeOK
    PROVE  /\ Questions \in 0..(2 * N)
           /\ pc = "name" => Questions = 2 * N - host + 1
           /\ pc = "cluster" => Questions = N + 1
           /\ pc = "scan" => Questions = N - host + 1
           /\ pc \in {"idle", "done", "failed"} => Questions = 0
<1>1. host \in 1..N /\ N \in Nat /\ N >= 1
  BY ConstantFacts DEF TypeOK
<1>2. CASE pc = "name"
  BY <1>1, <1>2 DEF Questions
<1>3. CASE pc = "cluster"
  BY <1>1, <1>3 DEF Questions
<1>4. CASE pc = "scan"
  BY <1>1, <1>4 DEF Questions
<1>5. CASE pc \in {"idle", "done", "failed"}
  BY <1>1, <1>5 DEF Questions
<1> QED BY <1>2, <1>3, <1>4, <1>5 DEF TypeOK

\* Every command ends: it asks at most twice as many questions as there are
\* workers, one less to ask after each, and what happens to the servers meanwhile
\* adds none.
THEOREM FewQuestions ==
    Spec => /\ [](Questions \in 0..(2 * N))
            /\ [][\/ pc \notin {"name", "cluster", "scan"}
                  \/ Questions' < Questions
                  \/ UNCHANGED <<pc, host, live, report, silent>>]_vars
<1> DEFINE Fewer == \/ pc \notin {"name", "cluster", "scan"}
                    \/ Questions' < Questions
                    \/ UNCHANGED <<pc, host, live, report, silent>>
<1>1. TypeOK /\ [Next]_vars => [Fewer]_vars
  <2> SUFFICES ASSUME TypeOK, Next, pc \in {"name", "cluster", "scan"}
               PROVE  \/ Questions' < Questions
                      \/ UNCHANGED <<pc, host, live, report, silent>>
    OBVIOUS
  <2>0. TypeOK'
    BY StepTypes
  <2>1. /\ host \in 1..N /\ host' \in 1..N /\ N \in Nat /\ N >= 1
    BY <2>0, ConstantFacts DEF TypeOK
  <2>2. /\ pc' = "name" => Questions' = 2 * N - host' + 1
        /\ pc' = "scan" => Questions' = N - host' + 1
        /\ pc' \in {"done", "failed"} => Questions' = 0
    BY <2>1 DEF Questions
  <2>3. CASE AskName
    <3>1. /\ pc = "name"
          /\ \/ pc' = "name" /\ host' = host + 1
             \/ pc' = "scan" /\ host' = 1
      BY <2>3 DEF AskName
    <3> QED BY <2>1, <2>2, <3>1, QuestionFacts
  <2>4. CASE AskCluster
    <3>1. pc = "cluster" /\ pc' \in {"done", "scan"}
      BY <2>4 DEF AskCluster
    <3> QED BY <2>1, <2>2, <3>1, QuestionFacts
  <2>5. CASE Scan
    <3>1. /\ pc = "scan"
          /\ \/ pc' = "scan" /\ host' = host + 1
             \/ pc' \in {"done", "failed"}
      BY <2>5 DEF Scan, LastHost
    <3> QED BY <2>1, <2>2, <3>1, QuestionFacts
  <2>6. CASE StepDown \/ (\E n \in Nodes : Change(n) \/ Elect(n))
    BY <2>6 DEF StepDown, Change, Elect
  <2>7. ~Start
    BY DEF Start
  <2> QED BY <2>3, <2>4, <2>5, <2>6, <2>7 DEF Next, Command
<1>2. TypeOK => Questions \in 0..(2 * N)
  BY QuestionFacts
<1> QED BY <1>1, <1>2, StatusTypeCorrect, PTL DEF Spec
=============================================================================
