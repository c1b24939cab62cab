--------------------------- MODULE RollingOrderProofs ---------------------------
(***************************************************************************)
(* Proofs about RollingOrder, for every number of workers, every choice of *)
(* jobs and every budget of faults.                                        *)
(***************************************************************************)
EXTENDS RollingOrder, FiniteSetTheorems, SequenceTheorems, TLAPS

\* What is known of a deploy since it began.
Records == [live : BOOLEAN, flag : BOOLEAN, calm : BOOLEAN, quorate : BOOLEAN, planned : BOOLEAN]

\* The constants in the form the proofs use.
LEMMA ConstantFacts ==
    /\ N \in Nat /\ N >= 1 /\ 1 \in 1..N /\ N \in 1..N
    /\ Workers \in [1..N -> Nodes]
    /\ \A n \in Nodes : \E i \in 1..N : Workers[i] = n
    /\ \A i, j \in 1..N : Workers[i] = Workers[j] => i = j
    /\ None \notin Nodes
    /\ MaxFaults \in Nat
BY WorkersAssumption, BoundsAssumption, LenProperties DEF Nodes, N

\* There are as many nodes as workers.
LEMMA CountNodes == IsFiniteSet(Nodes) /\ Cardinality(Nodes) = N
<1>1. Workers \in Bijection(1..N, Nodes)
  BY ConstantFacts DEF Bijection, Injection, IsInjective, Surjection
<1>2. IsFiniteSet(1..N) /\ Cardinality(1..N) = N
  <2>1. 1 \in Int /\ N \in Int /\ N - 1 + 1 = N /\ ~(1 > N)
    BY ConstantFacts
  <2> QED BY <2>1, FS_Interval
<1> QED BY <1>1, <1>2, FS_Bijection DEF ExistsBijection

\* The catalog order without the worker at position k names every other worker
\* once.
LEMMA OthersProperties ==
    ASSUME NEW k \in 1..N
    PROVE  /\ Others(Workers[k]) \in Seq(Nodes)
           /\ Len(Others(Workers[k])) = N - 1
           /\ \A i \in 1..N - 1 :
                 Others(Workers[k])[i] = IF i < k THEN Workers[i] ELSE Workers[i + 1]
<1> DEFINE f == [i \in 1..N - 1 |-> IF i < k THEN Workers[i] ELSE Workers[i + 1]]
<1>1. (CHOOSE i \in 1..N : Workers[i] = Workers[k]) = k
  BY ConstantFacts
<1>2. Others(Workers[k]) = f
  BY <1>1 DEF Others
<1>3. N - 1 \in Nat /\ \A i \in 1..N - 1 : i \in 1..N /\ i + 1 \in 1..N
  BY ConstantFacts
<1>4. f \in [1..N - 1 -> Nodes]
  BY <1>3, ConstantFacts
<1>5. f \in Seq(Nodes) /\ Len(f) = N - 1
  BY <1>3, <1>4, SeqDef, LenProperties
<1> QED BY <1>2, <1>5

\* Whatever the plan found, deploy_order is a list of N workers, each once, and
\* the leader that was found is the last.
LEMMA PlannedProperties ==
    ASSUME found \in Nodes \cup {None}
    PROVE  /\ Planned \in [1..N -> Nodes]
           /\ \A i, j \in 1..N : Planned[i] = Planned[j] => i = j
           /\ \A n \in Nodes : \E i \in 1..N : Planned[i] = n
           /\ found # None => Planned[N] = found
<1>1. CASE found = None
  BY <1>1, ConstantFacts DEF Planned
<1>2. CASE found # None
  <2>1. PICK k \in 1..N : Workers[k] = found
    BY <1>2, ConstantFacts
  <2> DEFINE o == Others(found)
             p == Append(o, found)
  <2>2. /\ o \in Seq(Nodes) /\ Len(o) = N - 1
        /\ \A i \in 1..N - 1 : o[i] = IF i < k THEN Workers[i] ELSE Workers[i + 1]
    BY <2>1, OthersProperties
  <2>3. Planned = p
    BY <1>2 DEF Planned
  <2> HIDE DEF o
  <2>4. /\ p \in Seq(Nodes) /\ Len(p) = Len(o) + 1
        /\ \A i \in 1..Len(o) : p[i] = o[i]
        /\ p[Len(o) + 1] = found
    BY <1>2, <2>2, AppendProperties
  <2> HIDE DEF p
  <2>5. Len(p) = N /\ p[N] = found /\ \A i \in 1..N - 1 : p[i] = o[i]
    BY <2>2, <2>4, ConstantFacts
  <2>6. p \in [1..N -> Nodes]
    BY <2>4, <2>5, LenProperties
  <2>7. \A i \in 1..N : p[i] = IF i = N THEN Workers[k]
                               ELSE IF i < k THEN Workers[i] ELSE Workers[i + 1]
    BY <2>1, <2>2, <2>5, ConstantFacts
  <2>8. \A i, j \in 1..N : p[i] = p[j] => i = j
    <3> SUFFICES ASSUME NEW i \in 1..N, NEW j \in 1..N, p[i] = p[j] PROVE i = j
      OBVIOUS
    <3> DEFINE g(x) == IF x = N THEN k ELSE IF x < k THEN x ELSE x + 1
    <3>1. g(i) \in 1..N /\ g(j) \in 1..N /\ p[i] = Workers[g(i)] /\ p[j] = Workers[g(j)]
      BY <2>7, ConstantFacts
    <3>2. g(i) = g(j)
      BY <3>1, ConstantFacts
    <3> QED BY <3>2, ConstantFacts
  <2>9. \A n \in Nodes : \E i \in 1..N : p[i] = n
    <3> SUFFICES ASSUME NEW j \in 1..N PROVE \E i \in 1..N : p[i] = Workers[j]
      BY ConstantFacts
    <3>1. CASE j = k
      BY <2>7, <3>1, ConstantFacts
    <3>2. CASE j < k
      <4>1. j \in 1..N /\ j # N
        BY <3>2, ConstantFacts
      <4> QED BY <2>7, <3>2, <4>1
    <3>3. CASE j > k
      <4>1. j - 1 \in 1..N /\ j - 1 # N /\ ~(j - 1 < k) /\ (j - 1) + 1 = j
        BY <3>3, ConstantFacts
      <4> QED BY <2>7, <4>1
    <3> QED BY <3>1, <3>2, <3>3, ConstantFacts
  <2> QED BY <2>3, <2>5, <2>6, <2>8, <2>9
<1> QED BY <1>1, <1>2

-----------------------------------------------------------------------------
\* Types.

\* The initial state is well typed.
LEMMA InitType == Init => TypeOK
<1> SUFFICES ASSUME Init PROVE TypeOK
  OBVIOUS
<1>1. node \in [Nodes -> States] /\ UpIn(node) = {}
  BY DEF Init, States, UpIn
<1>2. order \in [1..N -> Nodes]
  BY ConstantFacts DEF Init
<1>3. began \in Records
  BY DEF Init, Records
<1>4. faults \in 0..MaxFaults /\ elections \in Nat /\ turn \in 1..N /\ host \in 1..N /\ pass \in 1..2
  BY ConstantFacts DEF Init
<1>5. joined = {} /\ restarted = {} /\ leader = None /\ found = None /\ missed = 0 /\ flag = FALSE
      /\ pc = "idle" /\ job \in Jobs
  BY DEF Init
<1> QED BY <1>1, <1>2, <1>3, <1>4, <1>5 DEF TypeOK, Records

\* What a search finds when it begins.
LEMMA BeginningType == TypeOK => Beginning \in Records
BY DEF TypeOK, Beginning, Records

\* What an answer to the search leaves.
LEMMA AnswerType ==
    ASSUME TypeOK, NEW l \in Nodes \cup {None}, NEW late \in Nat, Answer(l, late)
    PROVE  /\ pc' \in {"local", "scan", "put"}
           /\ pass' \in 1..2 /\ host' \in 1..N /\ found' \in Nodes \cup {None}
           /\ missed' \in Nat /\ elections' \in Nat /\ began' \in Records
<1>0. began \in Records
  BY DEF TypeOK, Records
<1>1. CASE l # None /\ pass = 1
  BY <1>1, ConstantFacts, BeginningType DEF Answer, FirstStep, TypeOK
<1>2. CASE ~(l # None /\ pass = 1)
  BY <1>0, <1>2 DEF Answer, TypeOK
<1> QED BY <1>1, <1>2

\* A search that has found its leader begins again or ends.
LEMMA AnswerFacts ==
    ASSUME NEW l, NEW late, Answer(l, late)
    PROVE  \/ /\ pc' = FirstStep /\ pass = 1 /\ pass' = 2 /\ host' = 1 /\ missed' = 0
              /\ elections' = 0 /\ began' = Beginning
           \/ /\ pc' = "put" /\ found' = l /\ missed' = late
              /\ UNCHANGED <<pass, host, elections, began>>
<1>1. CASE l # None /\ pass = 1
  BY <1>1 DEF Answer
<1>2. CASE ~(l # None /\ pass = 1)
  BY <1>2 DEF Answer
<1> QED BY <1>1, <1>2

\* A question of the search leaves the deploy and the cluster alone; only the
\* beginning of the second search forgets what happened since the first began.
LEMMA SearchStep ==
    ASSUME AskLocal \/ Search
    PROVE  /\ pc \in {"local", "scan"} /\ pc' \in {"local", "scan", "put"}
           /\ UNCHANGED <<job, node, joined, leader, flag, order, turn, restarted, faults>>
           /\ \/ UNCHANGED <<elections, began>>
              \/ /\ elections' = 0 /\ began' = Beginning
                 /\ pc' = FirstStep /\ host' = 1 /\ missed' = 0
<1>1. pc \in {"local", "scan"}
      /\ UNCHANGED <<job, node, joined, leader, flag, order, turn, restarted, faults>>
  BY DEF AskLocal, Search, cluster, rollout
<1>2. \/ pc' = "scan" /\ UNCHANGED <<elections, began>>
      \/ pc' = pc /\ UNCHANGED <<elections, began>>
      \/ \E l, late : Answer(l, late)
  BY DEF AskLocal, Search
<1> QED BY <1>1, <1>2, AnswerFacts DEF FirstStep

\* The late answers are counted.
LEMMA MissedType == ASSUME TypeOK, NEW l, NEW got PROVE Missed(l, got) \in Nat
BY DEF TypeOK, Missed

\* A node that goes down takes itself, and at most the leader with it.
LEMMA LoseType ==
    ASSUME TypeOK, NEW n \in Nodes, Lose(n)
    PROVE  /\ node' \in [Nodes -> States]
           /\ UpIn(node') = UpIn(node) \ {n}
           /\ leader' \in UpIn(node') \cup {None}
           /\ \A m \in Nodes : m # n => node'[m] = node[m]
           /\ leader' \in {leader, None}
<1>1. node' \in [Nodes -> States] /\ UpIn(node') = UpIn(node) \ {n}
      /\ \A m \in Nodes : m # n => node'[m] = node[m]
  BY DEF Lose, TypeOK, States, UpIn
<1> QED BY <1>1 DEF Lose

\* What a disturbance leaves of the record of the deploy.
LEMMA CalmType ==
    ASSUME TypeOK
    PROVE  [began EXCEPT !.calm = FALSE] \in Records
BY DEF TypeOK, Records

\* A fault is within the budget.
LEMMA SpendType == ASSUME TypeOK, NEW kind, Spend(kind) PROVE faults' \in 0..MaxFaults
BY ConstantFacts DEF TypeOK, Spend

\* Every action keeps the types.
LEMMA NextType == TypeOK /\ [Next]_vars => TypeOK'
<1> SUFFICES ASSUME TypeOK, [Next]_vars PROVE TypeOK'
  OBVIOUS
<1> USE ConstantFacts
<1>1. CASE UNCHANGED vars
  BY <1>1 DEF vars, TypeOK
<1>2. CASE Build
  BY <1>2 DEF Build, TypeOK, cluster, rollout
<1>3. CASE StartDeploy
  BY <1>3, BeginningType DEF StartDeploy, FirstStep, TypeOK, cluster, Records
<1>4. CASE ReadFlag
  BY <1>4 DEF ReadFlag, TypeOK, cluster, rollout
<1>5. CASE AskLocal
  <2>1. LocalTells \in Nodes \cup {None}
    BY DEF TypeOK, UpIn, LocalTells
  <2>2. CASE Answer(LocalTells, missed)
    <3>1. missed \in Nat
      BY DEF TypeOK
    <3> QED BY <1>5, <2>1, <2>2, <3>1, AnswerType DEF AskLocal, TypeOK, cluster, rollout, Records
  <2>3. CASE pc' = "scan" /\ missed' = Missed(LocalTells, None)
             /\ UNCHANGED <<pass, host, found, elections, began>>
    BY <1>5, <2>3, MissedType DEF AskLocal, TypeOK, cluster, rollout
  <2> QED BY <1>5, <2>2, <2>3 DEF AskLocal
<1>6. CASE Search
  <2>1. Tells(Workers[host]) \in Nodes \cup {None}
    BY DEF TypeOK, UpIn, Tells
  <2>2. host < N => host + 1 \in 1..N
    BY DEF TypeOK
  <2>3. PICK got \in {Tells(Workers[host]), None} :
           \/ /\ host < N /\ host' = host + 1 /\ missed' = Missed(Tells(Workers[host]), got)
              /\ UNCHANGED <<pc, pass, found, elections, began>>
           \/ Answer(got, Missed(Tells(Workers[host]), got))
    BY <1>6 DEF Search
  <2>4. CASE Answer(got, Missed(Tells(Workers[host]), got))
    <3>1. got \in Nodes \cup {None} /\ Missed(Tells(Workers[host]), got) \in Nat
      BY <2>1, MissedType
    <3>2. /\ pc' \in {"local", "scan", "put"} /\ pass' \in 1..2 /\ host' \in 1..N
          /\ found' \in Nodes \cup {None} /\ missed' \in Nat /\ elections' \in Nat
          /\ began' \in Records
      BY <2>4, <3>1, AnswerType
    <3> QED BY <1>6, <3>2 DEF Search, TypeOK, cluster, rollout, Records
  <2>5. CASE /\ host < N /\ host' = host + 1 /\ missed' = Missed(Tells(Workers[host]), got)
             /\ UNCHANGED <<pc, pass, found, elections, began>>
    BY <1>6, <2>2, <2>5, MissedType DEF Search, TypeOK, cluster, rollout
  <2> QED BY <2>3, <2>4, <2>5
<1>7. CASE PutOrder
  BY <1>7, PlannedProperties DEF PutOrder, TypeOK, cluster, rollout
<1>8. CASE PlanFails
  BY <1>8 DEF PlanFails, Spend, TypeOK, cluster, rollout, plan
<1>9. CASE RestartNode
  <2>1. order[turn] \in Nodes
    BY DEF TypeOK
  <2>2. joined' = joined /\ UpIn(node') \subseteq joined
    BY <1>9, <2>1, LoseType DEF RestartNode, TypeOK
  <2>3. began' \in Records
    <3> DEFINE q == began.quorate /\ QuorumOf(UpIn(node) \ {order[turn]})
    <3>1. q \in BOOLEAN /\ began' = [began EXCEPT !.quorate = q]
      BY <1>9 DEF RestartNode, TypeOK
    <3> HIDE DEF q
    <3> QED BY <3>1 DEF TypeOK, Records
  <2>4. pc' \in {"lead", "gate"}
    BY <1>9 DEF RestartNode
  <2> QED BY <1>9, <2>1, <2>2, <2>3, <2>4, LoseType DEF RestartNode, TypeOK, Records, plan
<1>10. CASE Gate
  <2>1. turn < N => turn + 1 \in 1..N
    BY DEF TypeOK
  <2> QED BY <1>10, <2>1 DEF Gate, TypeOK, cluster, plan
<1>11. CASE GateTimeout
  BY <1>11 DEF GateTimeout, Spend, TypeOK, cluster, plan, rollout
<1>12. CASE StepDown
  <2>1. leader' \in UpIn(node') \cup {None} /\ UpIn(node') = UpIn(node)
    BY <1>12 DEF StepDown, UpIn
  <2>2. began' \in Records
    BY <1>12, CalmType DEF StepDown
  <2>3. faults' \in 0..MaxFaults
    <3>1. Spend("election")
      BY <1>12 DEF StepDown
    <3> QED BY <3>1, SpendType
  <2>4. UNCHANGED <<job, node, joined, flag, pc, elections, plan, rollout>>
    BY <1>12 DEF StepDown
  <2> QED BY <2>1, <2>2, <2>3, <2>4 DEF TypeOK, Records, plan, rollout
<1>13. ASSUME NEW n \in Nodes, Open(n) PROVE TypeOK'
  <2>1. UpIn(node') = UpIn(node) /\ node' \in [Nodes -> States]
    BY <1>13 DEF Open, TypeOK, States, UpIn
  <2> QED BY <1>13, <2>1 DEF Open, TypeOK, plan, rollout
<1>14. ASSUME NEW n \in Nodes, Serve(n) PROVE TypeOK'
  <2>1. UpIn(node') = UpIn(node) \cup {n} /\ node' \in [Nodes -> States]
    BY <1>14 DEF Serve, TypeOK, States, UpIn
  <2> QED BY <1>14, <2>1 DEF Serve, TypeOK, plan, rollout
<1>15. ASSUME NEW n \in Nodes, Elect(n) PROVE TypeOK'
  BY <1>15 DEF Elect, TypeOK, UpIn, plan, rollout
<1>16. ASSUME NEW n \in Nodes, Crash(n) PROVE TypeOK'
  <2>1. UpIn(node') \subseteq joined
    BY <1>16, LoseType DEF Crash, TypeOK
  <2>2. began' \in Records
    BY <1>16, CalmType DEF Crash
  <2>3. faults' \in 0..MaxFaults
    <3>1. Spend("crash")
      BY <1>16 DEF Crash
    <3> QED BY <3>1, SpendType
  <2>4. UNCHANGED <<job, joined, flag, pc, elections, plan, rollout>> /\ Lose(n)
    BY <1>16 DEF Crash
  <2> QED BY <2>1, <2>2, <2>3, <2>4, LoseType DEF TypeOK, Records, plan, rollout
<1>17. CASE WaitLeader
  BY <1>17 DEF WaitLeader, TypeOK, cluster, plan, rollout
<1> QED BY <1>1, <1>2, <1>3, <1>4, <1>5, <1>6, <1>7, <1>8, <1>9, <1>10, <1>11, <1>12, <1>13,
           <1>14, <1>15, <1>16, <1>17 DEF Next, Planning, Rolling, Servers

\* Every reachable state is well typed.
THEOREM OrderTypeCorrect == Spec => []TypeOK
BY InitType, NextType, PTL DEF Spec

-----------------------------------------------------------------------------
\* The order and the turns.

\* The initial state keeps the strengthening.
LEMMA InitRollout == Init => Rollout
<1> SUFFICES ASSUME Init PROVE Rollout
  OBVIOUS
<1>1. Permutation
  BY ConstantFacts DEF Init, Permutation
<1>2. InTurn /\ InService /\ InReach /\ LeaderIsLast
  BY DEF Init, InTurn, InService, InReach, LeaderIsLast, Looking, Steady
<1> QED BY <1>1, <1>2 DEF Rollout

\* deploy_order stays a permutation of the workers.
LEMMA NextPermutation == TypeOK /\ Permutation /\ [Next]_vars => Permutation'
<1> SUFFICES ASSUME TypeOK, Permutation, [Next]_vars PROVE Permutation'
  OBVIOUS
<1>1. CASE UNCHANGED order
  BY <1>1 DEF Permutation
<1>2. CASE Build
  BY <1>2, ConstantFacts DEF Build, Permutation
<1>3. CASE PutOrder
  BY <1>3, PlannedProperties DEF PutOrder, Permutation, TypeOK
<1>4. CASE StartDeploy \/ ReadFlag \/ AskLocal \/ Search \/ PlanFails \/ Rolling \/ Servers
  <2>1. UNCHANGED order
    BY <1>4 DEF StartDeploy, ReadFlag, AskLocal, Search, PlanFails, Rolling, RestartNode,
                WaitLeader, Gate, GateTimeout, Servers, Open, Serve, Elect, Crash, StepDown, plan
  <2> QED BY <2>1, <1>1
<1> QED BY <1>1, <1>2, <1>3, <1>4 DEF Next, Planning, vars

\* The rollout has restarted what precedes its turn.
LEMMA NextInTurn == TypeOK /\ InTurn /\ [Next]_vars => InTurn'
<1> SUFFICES ASSUME TypeOK, InTurn, [Next]_vars PROVE InTurn'
  OBVIOUS
<1> USE DEF InTurn, Looking
<1>1. CASE UNCHANGED vars \/ Servers
  <2>1. UNCHANGED <<pc, turn, restarted, order, job, host, missed, flag, began.planned, began.flag>>
    BY <1>1 DEF vars, Servers, Open, Serve, Elect, Crash, StepDown, plan, rollout, TypeOK
  <2> QED BY <2>1
<1>2. CASE Build
  BY <1>2 DEF Build, rollout
<1>3. CASE StartDeploy
  BY <1>3 DEF StartDeploy, FirstStep, Beginning
<1>4. CASE ReadFlag
  BY <1>4 DEF ReadFlag, rollout
<1>5. ASSUME NEW l, NEW late, Answer(l, late), pc \in {"local", "scan"},
             UNCHANGED <<order, rollout, job, flag>>
      PROVE  InTurn'
  <2>1. CASE l # None /\ pass = 1
    BY <1>5, <2>1 DEF Answer, FirstStep, Beginning, rollout
  <2>2. CASE ~(l # None /\ pass = 1)
    BY <1>5, <2>2 DEF Answer, rollout
  <2> QED BY <2>1, <2>2
<1>6. CASE AskLocal \/ Search
  <2>1. pc \in {"local", "scan"} /\ UNCHANGED <<order, rollout, job, flag>>
    BY <1>6 DEF AskLocal, Search
  <2>2. CASE pc' = "scan" /\ UNCHANGED began
    BY <2>1, <2>2 DEF rollout
  <2>3. \/ pc' = "scan" /\ UNCHANGED began
        \/ \E l, late : Answer(l, late)
    BY <1>6 DEF AskLocal, Search
  <2> QED BY <1>5, <2>1, <2>2, <2>3
<1>7. CASE PutOrder \/ PlanFails
  <2>1. /\ turn' = 1 /\ restarted' = {} /\ pc' = "roll"
        /\ UNCHANGED <<job, flag, began.flag>>
    BY <1>7 DEF PutOrder, PlanFails, TypeOK, plan, rollout
  <2>2. 1..turn' - 1 = {}
    BY <2>1
  <2> QED BY <2>1, <2>2
<1>8. CASE RestartNode
  <2>1. /\ restarted' = restarted \cup {order[turn]} /\ pc' \in {"lead", "gate"} /\ pc = "roll"
        /\ UNCHANGED <<order, turn, job, flag, began.flag>>
    BY <1>8 DEF RestartNode, TypeOK, plan
  <2>2. {order[i] : i \in 1..turn - 1} \cup {order[turn]} = {order[i] : i \in 1..turn}
    <3>1. turn \in Nat /\ turn >= 1
      BY ConstantFacts DEF TypeOK
    <3>2. \A i : i \in 1..turn <=> i \in 1..turn - 1 \/ i = turn
      BY <3>1
    <3> QED BY <3>2
  <2> QED BY <2>1, <2>2
<1>9. CASE Gate
  <2>1. pc = "gate" /\ UNCHANGED <<order, restarted, job, began>> /\ (flag => flag')
    BY <1>9 DEF Gate, plan
  <2>2. CASE pc' = "roll" /\ turn' = turn + 1
    <3>1. turn' - 1 = turn
      BY <2>2 DEF TypeOK
    <3> QED BY <2>1, <2>2, <3>1
  <2>3. CASE pc' = "idle"
    BY <2>1, <2>3
  <2> QED BY <1>9, <2>2, <2>3 DEF Gate
<1>10. CASE GateTimeout
  BY <1>10 DEF GateTimeout
<1>11. CASE WaitLeader
  BY <1>11 DEF WaitLeader, plan, rollout
<1> QED BY <1>1, <1>2, <1>3, <1>4, <1>6, <1>7, <1>8, <1>9, <1>10, <1>11
        DEF Next, Planning, Rolling

-----------------------------------------------------------------------------
\* Who is out of service.

\* A node comes back: whoever is out of service was before.
LEMMA ComesBack ==
    ASSUME TypeOK, NEW n \in Nodes, Open(n) \/ Serve(n)
    PROVE  \A m \in Nodes : node[m] = "up" => node'[m] = "up"
BY DEF Open, Serve, TypeOK

\* A live cluster is whole while the plan looks at it, and stays so but for the
\* node at the turn.
LEMMA NextInService ==
    TypeOK /\ TypeOK' /\ InTurn /\ InService /\ [Next]_vars => InService'
<1> SUFFICES ASSUME TypeOK, TypeOK', InTurn, InService, [Next]_vars,
                    began'.live, began'.calm
             PROVE  /\ Looking' => Whole' /\ leader' # None /\ elections' = 0
                    /\ job' = "vault" =>
                          /\ pc' = "roll" => Whole'
                          /\ pc' \in {"lead", "gate"} =>
                                \A n \in Nodes : node'[n] # "up" => n = order'[turn']
                          /\ \E x \in Nodes : \A n \in Nodes : node'[n] # "up" => n = x
  BY DEF InService
<1>0. Nodes # {}
  BY ConstantFacts
<1>1. CASE StartDeploy
  <2>1. Whole' /\ leader' # None /\ elections' = 0
    BY <1>1 DEF StartDeploy, Beginning, cluster, Whole, UpIn
  <2>2. Looking'
    BY <1>1 DEF StartDeploy, FirstStep, Looking
  <2> QED BY <1>0, <2>1, <2>2 DEF Whole, Looking
<1> USE DEF InService, Looking, Whole
<1>2. CASE UNCHANGED vars \/ Build
  BY <1>2 DEF vars, Build, cluster, rollout
<1>3. CASE ReadFlag
  BY <1>3 DEF ReadFlag, cluster, rollout
<1>4. CASE AskLocal \/ Search
  <2>1. /\ pc \in {"local", "scan"} /\ pc' \in {"local", "scan", "put"}
        /\ UNCHANGED <<job, node, leader>>
    BY <1>4, SearchStep
  <2>2. CASE UNCHANGED <<elections, began>>
    BY <1>0, <2>1, <2>2
  <2>3. CASE elections' = 0 /\ began' = Beginning
    <3>1. Whole' /\ leader' # None
      BY <2>1, <2>3 DEF Beginning, UpIn
    <3> QED BY <1>0, <2>1, <2>3, <3>1
  <2> QED BY <1>4, <2>2, <2>3, SearchStep
<1>5. CASE PutOrder \/ PlanFails
  <2>1. /\ pc \in {"flag", "local", "scan", "put"} /\ pc' = "roll"
        /\ UNCHANGED <<job, node, began.live, began.calm>>
    BY <1>5 DEF PutOrder, PlanFails, cluster, TypeOK
  <2> QED BY <1>0, <2>1
<1>6. CASE RestartNode
  <2>1. order[turn] \in Nodes /\ Lose(order[turn]) /\ UNCHANGED <<job, order, turn>>
        /\ pc = "roll" /\ pc' \in {"lead", "gate"} /\ UNCHANGED <<began.live, began.calm>>
    BY <1>6 DEF RestartNode, TypeOK, plan
  <2>2. \A m \in Nodes : m # order[turn] => node'[m] = node[m]
    BY <2>1, LoseType
  <2> QED BY <2>1, <2>2
<1>7. CASE Gate
  <2>1. /\ pc = "gate" /\ pc' \in {"roll", "idle"}
        /\ job = "vault" => node[order[turn]] = "up"
        /\ UNCHANGED <<job, node, began>>
    BY <1>7 DEF Gate, GatePassed, cluster
  <2> QED BY <2>1
<1>8. CASE GateTimeout
  BY <1>8 DEF GateTimeout, cluster
<1>13. CASE WaitLeader
  BY <1>13 DEF WaitLeader, cluster, plan, rollout
<1>9. CASE StepDown
  BY <1>9 DEF StepDown, TypeOK
<1>10. ASSUME NEW n \in Nodes, Open(n) \/ Serve(n) PROVE InService'
  <2>1. UNCHANGED <<job, leader, order, pc, turn, elections, began>>
    BY <1>10 DEF Open, Serve, plan, rollout
  <2> QED BY <1>10, <2>1, ComesBack
<1>11. ASSUME NEW n \in Nodes, Elect(n) PROVE InService'
  <2>1. UNCHANGED <<job, node, order, pc, turn, began>> /\ leader = None
    BY <1>11 DEF Elect, plan, rollout
  <2> QED BY <2>1
<1>12. ASSUME NEW n \in Nodes, Crash(n) PROVE InService'
  BY <1>12 DEF Crash, TypeOK
<1> QED BY <1>1, <1>2, <1>3, <1>4, <1>5, <1>6, <1>7, <1>8, <1>9, <1>10, <1>11, <1>12, <1>13
        DEF Next, Planning, Rolling, Servers

\* A rollout restarts the next node when the ports of all the others are open.
LEMMA NextInReach ==
    TypeOK /\ TypeOK' /\ InService /\ InReach /\ [Next]_vars => InReach'
<1> SUFFICES ASSUME TypeOK, TypeOK', InService, InReach, [Next]_vars, began'.live, began'.calm
             PROVE  /\ pc' = "roll" => Reached' = Nodes
                    /\ pc' \in {"lead", "gate"} => Nodes \ Reached' \subseteq {order'[turn']}
                    /\ \E x \in Nodes : Nodes \ Reached' \subseteq {x}
                    /\ Nodes \ UpIn(node') \subseteq restarted'
  BY DEF InReach
<1>0. Nodes # {}
  BY ConstantFacts
<1>1. CASE StartDeploy
  <2>1. /\ \A n \in Nodes : node'[n] = "up"
        /\ pc' \notin {"roll", "lead", "gate"}
    BY <1>1 DEF StartDeploy, Beginning, FirstStep, cluster, UpIn
  <2> QED BY <1>0, <2>1 DEF Reached, UpIn
<1>2. ASSUME UNCHANGED <<node, order, turn, restarted>>, began.live /\ began.calm,
             pc' = pc \/ pc' \notin {"roll", "lead", "gate"} \/ {pc, pc'} \subseteq {"lead", "gate"}
      PROVE  InReach'
  BY <1>2 DEF InReach, Reached, UpIn
<1>3. CASE UNCHANGED vars \/ ReadFlag \/ WaitLeader
  BY <1>2, <1>3 DEF vars, ReadFlag, WaitLeader, cluster, plan, rollout, InReach
<1>4. CASE AskLocal \/ Search
  <2>1. /\ pc \in {"local", "scan"} /\ pc' \in {"local", "scan", "put"}
        /\ UNCHANGED <<node, order, turn, restarted>>
    BY <1>4, SearchStep
  <2>2. CASE UNCHANGED began
    BY <1>2, <2>1, <2>2 DEF InReach
  <2>3. CASE began' = Beginning
    <3>1. \A n \in Nodes : node'[n] = "up"
      BY <2>1, <2>3 DEF Beginning, UpIn
    <3> QED BY <1>0, <2>1, <3>1 DEF Reached, UpIn
  <2> QED BY <1>4, <2>2, <2>3, SearchStep
<1>5. CASE PutOrder \/ PlanFails
  <2>1. /\ pc \in {"flag", "local", "scan", "put"} /\ pc' = "roll"
        /\ UNCHANGED <<node, began.live, began.calm>>
    BY <1>5 DEF PutOrder, PlanFails, cluster, TypeOK
  <2>2. \A n \in Nodes : node'[n] = "up"
    BY <2>1 DEF InService, Looking, Whole
  <2> QED BY <1>0, <2>1, <2>2 DEF Reached, UpIn
<1>6. CASE RestartNode
  <2>1. order[turn] \in Nodes /\ Lose(order[turn]) /\ UNCHANGED <<order, turn>>
        /\ pc = "roll" /\ pc' \in {"lead", "gate"} /\ UNCHANGED <<began.live, began.calm>>
        /\ restarted' = restarted \cup {order[turn]}
    BY <1>6 DEF RestartNode, TypeOK, plan
  <2>2. \A m \in Nodes : m # order[turn] => node'[m] = node[m]
    BY <2>1, LoseType
  <2>3. Nodes \ Reached' \subseteq {order[turn]}
    BY <2>1, <2>2 DEF InReach, Reached
  <2>4. Nodes \ UpIn(node') \subseteq restarted'
    BY <2>1, <2>2 DEF InReach, UpIn
  <2> QED BY <2>1, <2>3, <2>4
<1>7. CASE Gate
  <2>1. /\ pc = "gate" /\ pc' \in {"roll", "idle"}
        /\ order[turn] \in Reached
        /\ UNCHANGED <<node, began, restarted>>
    BY <1>7 DEF Gate, GatePassed, Reached, cluster, TypeOK
  <2>2. Reached' = Nodes /\ Nodes \ UpIn(node') \subseteq restarted'
    BY <2>1 DEF InReach, Reached, UpIn
  <2> QED BY <1>0, <2>1, <2>2
<1>8. CASE GateTimeout \/ Build
  <2>1. UNCHANGED <<node, restarted, began>> /\ pc' = "idle"
    BY <1>8 DEF GateTimeout, Build, cluster, rollout
  <2> QED BY <2>1 DEF InReach, Reached, UpIn
<1>9. CASE StepDown
  BY <1>9 DEF StepDown, TypeOK
<1>10. ASSUME NEW n \in Nodes, Open(n) \/ Serve(n) PROVE InReach'
  <2>1. UNCHANGED <<order, pc, turn, began, restarted>>
    BY <1>10 DEF Open, Serve, plan, rollout
  <2>2. Reached \subseteq Reached' /\ Reached' \subseteq Nodes /\ UpIn(node) \subseteq UpIn(node')
    BY <1>10 DEF Open, Serve, Reached, UpIn, TypeOK
  <2> QED BY <2>1, <2>2 DEF InReach
<1>11. ASSUME NEW n \in Nodes, Elect(n) PROVE InReach'
  <2>1. UNCHANGED <<node, order, pc, turn, began, restarted>>
    BY <1>11 DEF Elect, plan, rollout
  <2> QED BY <1>2, <2>1 DEF InReach
<1>12. ASSUME NEW n \in Nodes, Crash(n) PROVE InReach'
  BY <1>12 DEF Crash, TypeOK
<1> QED BY <1>1, <1>3, <1>4, <1>5, <1>6, <1>7, <1>8, <1>9, <1>10, <1>11, <1>12
        DEF Next, Planning, Rolling, Servers, InReach

-----------------------------------------------------------------------------
\* Where the leader is.

\* Before the last turn, a steady cluster keeps its quorum without the node that
\* is restarted.
LEMMA QuorumWithout ==
    ASSUME TypeOK, InService, Steady, pc = "roll", turn < N, RestartNode, began'.quorate \/ job # "zookeeper"
    PROVE  QuorumOf(UpIn(node) \ {order[turn]})
<1>1. CASE job = "postgres"
  BY <1>1 DEF QuorumOf
<1>2. CASE job = "zookeeper"
  <2> DEFINE q == began.quorate /\ QuorumOf(UpIn(node) \ {order[turn]})
  <2>1. began' = [began EXCEPT !.quorate = q]
    BY DEF RestartNode
  <2>2. began'.quorate
    BY <1>2
  <2>3. began'.quorate = q
    <3> HIDE DEF q
    <3> QED BY <2>1 DEF TypeOK
  <2> QED BY <2>2, <2>3
<1>3. CASE job = "vault"
  <2>1. UpIn(node) = Nodes /\ joined = Nodes
    BY <1>3 DEF InService, Steady, Whole, TypeOK, UpIn
  <2>2. Cardinality(Nodes \ {order[turn]}) = N - 1
    BY CountNodes, FS_RemoveElement DEF TypeOK
  <2>3. 2 * (N - 1) > N
    BY <1>3, ConstantFacts DEF Steady, TypeOK
  <2> QED BY <1>3, <2>1, <2>2, <2>3, CountNodes DEF QuorumOf
<1> QED BY <1>1, <1>2, <1>3, JobsAssumption DEF TypeOK

\* StillToAsk of a search that has asked the first h - 1 workers and missed m
\* answers.
StillToAskAt(h, m) ==
    CASE job = "vault"     -> m >= h - 1
      [] job = "zookeeper" -> m > 0 \/ \A i \in 1..N : i < h => Workers[i] # leader
      [] job = "postgres"  -> m > 0 /\ (m > 1 \/ \A i \in 1..N : i < h => Workers[i] # leader)

\* At the beginning there is everyone to ask, at the end nobody is left: then too
\* many answers were late.
LEMMA StillToAskEnds ==
    ASSUME TypeOK, leader # None
    PROVE  /\ job # "postgres" => StillToAskAt(1, 0)
           /\ job = "postgres" => StillToAskAt(1, 1)
           /\ \A m \in Nat : StillToAskAt(N + 1, m) => m > Tolerated
<1>1. job \in {"zookeeper", "postgres", "vault"}
  BY JobsAssumption DEF TypeOK
<1>2. \A i \in 1..N : ~(i < 1) /\ i < N + 1
  BY ConstantFacts
<1>3. \E i \in 1..N : Workers[i] = leader
  BY ConstantFacts DEF TypeOK, UpIn
<1>4. (job # "postgres" => StillToAskAt(1, 0)) /\ (job = "postgres" => StillToAskAt(1, 1))
  <2>1. CASE job = "vault"
    BY <2>1 DEF StillToAskAt
  <2>2. CASE job = "zookeeper"
    BY <1>2, <2>2 DEF StillToAskAt
  <2>3. CASE job = "postgres"
    BY <1>2, <2>3 DEF StillToAskAt
  <2> QED BY <1>1, <2>1, <2>2, <2>3
<1>5. ASSUME NEW m \in Nat, StillToAskAt(N + 1, m) PROVE m > Tolerated
  <2>1. CASE job = "vault"
    BY <1>5, <2>1, ConstantFacts DEF StillToAskAt, Tolerated
  <2>2. CASE job = "zookeeper"
    BY <1>2, <1>3, <1>5, <2>2 DEF StillToAskAt, Tolerated
  <2>3. CASE job = "postgres"
    BY <1>2, <1>3, <1>5, <2>3 DEF StillToAskAt, Tolerated
  <2> QED BY <1>1, <2>1, <2>2, <2>3
<1> QED BY <1>4, <1>5

\* What a search that is steady hears: the leader or nothing; and if nothing, the
\* others can still tell it, or one more answer was late.
LEMMA SteadySearch ==
    ASSUME TypeOK, InService, LeaderIsLast, Steady, pc = "scan",
           NEW got \in {Tells(Workers[host]), None}
    PROVE  /\ got \in {leader, None}
           /\ got = None => StillToAskAt(host + 1, Missed(Tells(Workers[host]), got))
<1> DEFINE l == Tells(Workers[host])
           m == Missed(l, got)
<1>1. leader # None /\ job \in {"zookeeper", "postgres", "vault"} /\ missed \in Nat
      /\ StillToAskAt(host, missed)
  BY JobsAssumption DEF InService, LeaderIsLast, StillToAsk, StillToAskAt, Steady, Looking, TypeOK
<1>2. host \in 1..N /\ Workers[host] \in Nodes /\ node[Workers[host]] = "up"
  BY ConstantFacts DEF InService, Steady, Looking, Whole, TypeOK
<1>3. l = IF job = "vault" \/ Workers[host] = leader THEN leader ELSE None
  BY <1>1, <1>2 DEF Tells, SaysLeader
<1>4. \A i \in 1..N : i < host + 1 => i < host \/ i = host
  BY <1>2, ConstantFacts
<1> HIDE DEF l
<1>5. ASSUME got = None PROVE StillToAskAt(host + 1, m)
  <2>1. m = IF l = None THEN missed ELSE missed + 1
    BY <1>5 DEF Missed
  <2>2. CASE job = "vault"
    BY <1>1, <1>2, <1>3, <2>1, <2>2 DEF StillToAskAt
  <2>3. CASE job = "zookeeper"
    BY <1>1, <1>3, <1>4, <2>1, <2>3 DEF StillToAskAt
  <2>4. CASE job = "postgres"
    BY <1>1, <1>3, <1>4, <2>1, <2>4 DEF StillToAskAt
  <2> QED BY <1>1, <2>2, <2>3, <2>4
<1> QED BY <1>3, <1>5 DEF l

\* A steady cluster has the leader that the plan found until the last turn.
LEMMA NextLeaderIsLast ==
    TypeOK /\ TypeOK' /\ Rollout /\ [Next]_vars => LeaderIsLast'
<1> SUFFICES ASSUME TypeOK, TypeOK', Rollout, [Next]_vars, Steady' PROVE LeaderIsLast'
  BY DEF LeaderIsLast
<1> USE DEF Rollout
<1>0. ~(StartDeploy \/ AskLocal \/ Search) => Steady
  BY DEF Steady, vars, Next, Planning, Build, ReadFlag, PutOrder, PlanFails,
         Rolling, RestartNode, WaitLeader, Gate, GateTimeout, Servers, Open, Serve, Elect, Crash,
         StepDown, cluster, plan, rollout, TypeOK
<1>1. CASE UNCHANGED vars \/ Build
  <2>1. /\ UNCHANGED <<job, leader, pc, host, found, missed, turn, elections, began>>
        /\ pc # "idle" => UNCHANGED order
    BY <1>1 DEF vars, Build, cluster, rollout
  <2> QED BY <2>1 DEF LeaderIsLast, Steady, StillToAsk, Tolerated
<1>2. ASSUME leader' # None, ~began'.planned, pc' \in {"flag", "local", "scan"},
             pc' = "scan" => StillToAskAt(host, missed)', UNCHANGED leader
      PROVE  LeaderIsLast'
  BY <1>2 DEF LeaderIsLast, StillToAsk, StillToAskAt
<1>3. ASSUME pc' \in {"flag", FirstStep}, host' = 1, missed' = 0, began' = Beginning,
             UNCHANGED <<job, leader>>
      PROVE  LeaderIsLast'
  <2>1. leader # None /\ ~began'.planned
    BY <1>3 DEF Steady, Beginning
  <2>2. pc' = "scan" => StillToAskAt(1, 0)
    BY <1>3, <2>1, StillToAskEnds DEF FirstStep
  <2>3. pc' = "scan" => StillToAskAt(host, missed)'
    BY <1>3, <2>2 DEF StillToAskAt
  <2> QED BY <1>2, <1>3, <2>1, <2>3 DEF FirstStep
<1>4. CASE StartDeploy
  BY <1>3, <1>4 DEF StartDeploy, cluster
<1>5. CASE ReadFlag
  <2>1. pc = "flag" /\ job = "vault" /\ flag /\ host = 1 /\ missed = 0 /\ ~began.planned
        /\ leader # None
    BY <1>0, <1>5 DEF ReadFlag, StartDeploy, AskLocal, Search, InTurn, InService, Steady, Looking
  <2>2. pc' = "scan" /\ host' = 1 /\ missed' = 0 /\ UNCHANGED <<job, leader, began>>
    BY <1>5, <2>1 DEF ReadFlag, cluster
  <2>3. StillToAskAt(1, 0)
    BY <2>1, StillToAskEnds
  <2>4. StillToAskAt(host, missed)'
    BY <2>2, <2>3 DEF StillToAskAt
  <2> QED BY <1>2, <2>1, <2>2, <2>4
<1>6. ASSUME NEW l \in {leader, None}, NEW late \in Nat, Answer(l, late), leader # None,
             l = None => late > Tolerated, UNCHANGED <<job, leader>>, ~began.planned
      PROVE  LeaderIsLast'
  <2>1. CASE began' = Beginning /\ pc' = FirstStep /\ host' = 1 /\ missed' = 0
    BY <1>3, <1>6, <2>1
  <2>2. CASE pc' = "put" /\ found' = l /\ missed' = late /\ UNCHANGED began
    BY <1>6, <2>2 DEF LeaderIsLast, Tolerated
  <2> QED BY <1>6, <2>1, <2>2, AnswerFacts
<1>7. ASSUME AskLocal \/ Search
      PROVE  /\ UNCHANGED <<job, leader, turn>> /\ pc \in {"local", "scan"}
             /\ \/ LeaderIsLast'
                \/ Steady /\ Whole /\ leader # None /\ ~began.planned
  <2>1. /\ UNCHANGED <<job, leader, turn>> /\ pc \in {"local", "scan"}
        /\ \/ UNCHANGED <<elections, began>>
           \/ began' = Beginning /\ pc' = FirstStep /\ host' = 1 /\ missed' = 0
    BY <1>7, SearchStep
  <2>2. CASE UNCHANGED began
    <3>1. Steady
      BY <2>1, <2>2 DEF Steady
    <3> QED BY <2>1, <3>1 DEF InService, InTurn, Looking, Steady
  <2>3. CASE began' = Beginning /\ pc' = FirstStep /\ host' = 1 /\ missed' = 0
    BY <1>3, <2>1, <2>3
  <2> QED BY <2>1, <2>2, <2>3
<1>16. CASE AskLocal
  <2>1. SUFFICES ASSUME Steady, Whole, leader # None, ~began.planned PROVE LeaderIsLast'
    BY <1>7, <1>16
  <2>2. LocalTells = leader
    BY <2>1, ConstantFacts DEF Whole, LocalTells
  <2>3. pc = "local" /\ missed = 0 /\ host = 1 /\ UNCHANGED <<job, leader>>
    BY <1>7, <1>16 DEF AskLocal, InTurn
  <2>4. CASE Answer(LocalTells, missed)
    BY <1>6, <2>1, <2>2, <2>3, <2>4
  <2>5. CASE pc' = "scan" /\ missed' = Missed(LocalTells, None) /\ UNCHANGED <<host, began>>
    <3>1. missed' = 1 /\ host' = 1
      <4>1. Missed(LocalTells, None) = missed + 1
        BY <2>1, <2>2 DEF Missed
      <4> QED BY <2>3, <2>5, <4>1
    <3>2. StillToAskAt(1, 1)
      <4>1. job = "postgres"
        BY <1>16 DEF AskLocal, InTurn
      <4> QED BY <2>1, <4>1, StillToAskEnds
    <3>3. StillToAskAt(host, missed)'
      BY <2>3, <3>1, <3>2 DEF StillToAskAt
    <3> QED BY <1>2, <2>1, <2>3, <2>5, <3>3
  <2> QED BY <1>16, <2>4, <2>5 DEF AskLocal
<1>17. CASE Search
  <2>1. SUFFICES ASSUME Steady, Whole, leader # None, ~began.planned PROVE LeaderIsLast'
    BY <1>7, <1>17
  <2> DEFINE l == Tells(Workers[host])
  <2>2. pc = "scan" /\ UNCHANGED <<job, leader>>
    BY <1>7, <1>17 DEF Search
  <2>3. PICK got \in {l, None} :
           IF got = None /\ host < N
           THEN /\ host' = host + 1 /\ missed' = Missed(l, got)
                /\ UNCHANGED <<pc, pass, found, elections, began>>
           ELSE Answer(got, Missed(l, got))
    BY <1>17 DEF Search
  <2>4. /\ got \in {leader, None} /\ Missed(l, got) \in Nat
        /\ got = None => StillToAskAt(host + 1, Missed(l, got))
    BY <2>1, <2>2, SteadySearch, MissedType
  <2> HIDE DEF l
  <2>5. CASE got = None /\ host < N
    <3>1. StillToAskAt(host, missed)'
      BY <2>2, <2>3, <2>4, <2>5 DEF StillToAskAt
    <3> QED BY <1>2, <2>1, <2>2, <2>3, <2>5, <3>1
  <2>6. CASE ~(got = None /\ host < N)
    <3>1. got = None => host + 1 = N + 1
      BY <2>6, ConstantFacts DEF TypeOK
    <3>2. got = None => Missed(l, got) > Tolerated
      BY <2>1, <2>4, <3>1, StillToAskEnds
    <3> QED BY <1>6, <2>1, <2>2, <2>3, <2>4, <2>6, <3>2
  <2> QED BY <2>5, <2>6
<1>18. CASE PutOrder
  <2>1. pc = "put" /\ Steady /\ order' = Planned /\ pc' = "roll"
        /\ UNCHANGED <<job, leader, missed, elections>>
    BY <1>0, <1>18 DEF PutOrder, StartDeploy, AskLocal, Search, cluster, rollout
  <2>2. leader # None /\ elections = 0 /\ (found = leader \/ missed > Tolerated)
    BY <2>1 DEF InService, LeaderIsLast, Looking, Steady
  <2>3. found = leader => Planned[N] = leader
    BY <2>2, PlannedProperties DEF TypeOK
  <2>4. Tolerated' = Tolerated /\ Tolerated \in Nat /\ missed \in Nat
    <3>1. Tolerated' = Tolerated
      BY <2>1 DEF Tolerated
    <3>2. Tolerated \in Nat
      <4>1. job \in {"zookeeper", "postgres", "vault"} /\ N - 1 \in Nat
        BY JobsAssumption, ConstantFacts DEF TypeOK
      <4>2. CASE job = "zookeeper"
        BY <4>2 DEF Tolerated
      <4>3. CASE job = "postgres"
        BY <4>3 DEF Tolerated
      <4>4. CASE job = "vault"
        BY <4>1, <4>4 DEF Tolerated
      <4> QED BY <4>1, <4>2, <4>3, <4>4
    <3> QED BY <3>1, <3>2 DEF TypeOK
  <2>5. missed > Tolerated => ~(missed <= Tolerated)
    BY <2>4
  <2> QED BY <2>1, <2>2, <2>3, <2>4, <2>5 DEF LeaderIsLast
<1>8. CASE PlanFails
  BY <1>8 DEF PlanFails, InTurn, Looking, LeaderIsLast
<1>9. CASE RestartNode
  <2>1. /\ pc = "roll" /\ pc' \in {"lead", "gate"} /\ Steady /\ Lose(order[turn])
        /\ UNCHANGED <<job, order, missed, turn, elections, began.planned>>
    BY <1>0, <1>9 DEF RestartNode, StartDeploy, AskLocal, Search, TypeOK, plan
  <2>0. Tolerated' = Tolerated
    BY <2>1 DEF Tolerated
  <2>2. CASE ~(began.planned /\ missed <= Tolerated)
    BY <2>0, <2>1, <2>2 DEF LeaderIsLast
  <2>3. CASE began.planned /\ missed <= Tolerated /\ turn = N
    <3>1. leader = order[N] /\ elections = 0
      BY <2>1, <2>3 DEF LeaderIsLast
    <3>2. leader' = None
      BY <2>1, <2>3, <3>1 DEF Lose
    <3> QED BY <2>1, <2>3, <3>1, <3>2, ConstantFacts DEF LeaderIsLast
  <2>4. CASE began.planned /\ missed <= Tolerated /\ turn # N
    <3>1. leader = order[N] /\ elections = 0 /\ turn < N
      BY <2>1, <2>4, ConstantFacts DEF LeaderIsLast, TypeOK
    <3>2. leader \in UpIn(node) \ {order[turn]}
      <4>1. order[N] # order[turn]
        BY <2>4, ConstantFacts DEF Permutation, TypeOK
      <4>2. leader # None
        BY <3>1, ConstantFacts DEF TypeOK
      <4> QED BY <3>1, <4>1, <4>2 DEF TypeOK
    <3>3. QuorumOf(UpIn(node) \ {order[turn]})
      <4>1. began'.quorate \/ job # "zookeeper"
        BY <2>1 DEF Steady
      <4> QED BY <1>9, <2>1, <3>1, <4>1, QuorumWithout
    <3>4. leader' = leader
      BY <2>1, <3>2, <3>3 DEF Lose
    <3> QED BY <2>1, <3>1, <3>4 DEF LeaderIsLast
  <2> QED BY <2>2, <2>3, <2>4
<1>10. CASE Gate
  <2>1. pc = "gate" /\ Steady /\ UNCHANGED <<job, leader, order, missed, elections, began>>
    BY <1>0, <1>10 DEF Gate, StartDeploy, AskLocal, Search, cluster, plan
  <2>2. \/ turn < N /\ pc' = "roll"
        \/ pc' = "idle"
    BY <1>10 DEF Gate
  <2> QED BY <2>1, <2>2 DEF LeaderIsLast, Tolerated
<1>11. CASE GateTimeout \/ WaitLeader
  <2>1. /\ pc \in {"lead", "gate"} /\ pc' \in {"gate", "idle"}
        /\ pc = "gate" => pc' = "idle"
        /\ Steady /\ UNCHANGED <<job, leader, order, missed, turn, elections, began>>
    BY <1>0, <1>11 DEF GateTimeout, WaitLeader, StartDeploy, AskLocal, Search, cluster, plan, rollout
  <2> QED BY <2>1 DEF LeaderIsLast, Tolerated
<1>12. CASE StepDown
  BY <1>12 DEF StepDown, Steady, TypeOK
<1>13. ASSUME NEW n \in Nodes, Open(n) \/ Serve(n) PROVE LeaderIsLast'
  <2>1. UNCHANGED <<job, leader, order, pc, host, found, missed, turn, elections, began>>
    BY <1>13 DEF Open, Serve, plan, rollout
  <2> QED BY <2>1 DEF LeaderIsLast, Steady, StillToAsk, Tolerated
<1>14. ASSUME NEW n \in Nodes, Elect(n) PROVE LeaderIsLast'
  <2>1. /\ UNCHANGED <<job, order, missed, pc, turn, began>> /\ Steady
        /\ leader = None /\ leader' = n /\ elections' = elections + 1
    BY <1>14, <1>0 DEF Elect, StartDeploy, AskLocal, Search, Steady, plan, rollout
  <2>2. ~Looking
    BY <2>1 DEF InService, Steady
  <2>3. order[N] # None /\ n # None
    <3>1. order[N] \in Nodes
      BY ConstantFacts DEF TypeOK
    <3> QED BY <3>1, ConstantFacts
  <2>4. began.planned /\ missed <= Tolerated =>
           ~(pc = "roll" \/ (pc \in {"lead", "gate"} /\ turn < N))
    BY <2>1, <2>3 DEF LeaderIsLast
  <2>5. began.planned /\ missed <= Tolerated /\ pc \in {"lead", "gate", "idle"} => elections = 0
    BY <2>1 DEF LeaderIsLast
  <2>6. Tolerated' = Tolerated
    BY <2>1 DEF Tolerated
  <2> QED BY <2>1, <2>2, <2>3, <2>4, <2>5, <2>6 DEF LeaderIsLast, Looking
<1>15. ASSUME NEW n \in Nodes, Crash(n) PROVE LeaderIsLast'
  BY <1>15 DEF Crash, Steady, TypeOK
<1> QED BY <1>1, <1>4, <1>5, <1>16, <1>17, <1>18, <1>8, <1>9, <1>10, <1>11, <1>12, <1>13, <1>14,
           <1>15
        DEF Next, Planning, Rolling, Servers

-----------------------------------------------------------------------------
\* What the strengthening is for.

\* The inductive invariant of the rollouts: the order is a permutation, the
\* rollout has restarted what precedes its turn, and a steady cluster lacks at
\* most the node at the turn and keeps its leader until the last one.
THEOREM RolloutCorrect == Spec => [](TypeOK /\ Rollout)
<1>1. Init => TypeOK /\ Rollout
  BY InitType, InitRollout
<1>2. TypeOK /\ Rollout /\ [Next]_vars => (TypeOK /\ Rollout)'
  BY NextType, NextPermutation, NextInTurn, NextInService, NextInReach, NextLeaderIsLast DEF Rollout
<1> QED BY <1>1, <1>2, PTL DEF Spec

\* Leadership moves at most once in an undisturbed rollout of a live cluster, if
\* no more answers were late than the plan gets along with and it is not one of
\* two Vault nodes.
THEOREM TransferredAtMostOnce == N # 2 => (Spec => []TransfersAtMostOnce)
<1> SUFFICES ASSUME N # 2 PROVE Spec => []TransfersAtMostOnce
  OBVIOUS
<1>1. TypeOK /\ Rollout => TransfersAtMostOnce
  <2> SUFFICES ASSUME TypeOK, Rollout, Undisturbed, missed <= Tolerated,
                      job = "vault" => began.flag,
                      job = "zookeeper" => began.quorate
               PROVE  elections <= 1
    BY DEF TransfersAtMostOnce
  <2>1. Steady /\ began.planned
    BY DEF Undisturbed, Steady
  <2>2. pc \in {"roll", "lead", "gate", "idle"}
    BY <2>1 DEF Rollout, InTurn, Looking, TypeOK
  <2>3. elections = 0 \/ elections <= 1
    BY <2>1, <2>2 DEF Rollout, LeaderIsLast
  <2> QED BY <2>3
<1> QED BY <1>1, RolloutCorrect, PTL

\* A rollout of a live Vault cluster has one node out of service at a time.
THEOREM TheOthersServe == Spec => []OthersServe
<1>1. TypeOK /\ Rollout => OthersServe
  <2> SUFFICES ASSUME TypeOK, Rollout, job = "vault", began.live, began.calm
               PROVE  Cardinality(Nodes \ UpIn(node)) <= 1
    BY DEF OthersServe
  <2>1. PICK x \in Nodes : Nodes \ UpIn(node) \subseteq {x}
    BY DEF Rollout, InService, UpIn
  <2>2. IsFiniteSet({x}) /\ Cardinality({x}) = 1
    BY FS_Singleton
  <2> QED BY <2>1, <2>2, FS_Subset
<1> QED BY <1>1, RolloutCorrect, PTL

\* A rollout of a live cluster has one node at a time that does not answer.
THEOREM TheOthersAnswer == Spec => []OthersAnswer
<1>1. TypeOK /\ Rollout => OthersAnswer
  <2> SUFFICES ASSUME TypeOK, Rollout, began.live, began.calm
               PROVE  /\ Cardinality({n \in Nodes : node[n] = "down"}) <= 1
                      /\ Nodes \ UpIn(node) \subseteq restarted
    BY DEF OthersAnswer
  <2> DEFINE Down == {n \in Nodes : node[n] = "down"}
  <2>1. PICK x \in Nodes : Down \subseteq {x}
    BY DEF Rollout, InReach, Reached
  <2>2. IsFiniteSet({x}) /\ Cardinality({x}) = 1
    BY FS_Singleton
  <2>3. Cardinality(Down) <= 1
    BY <2>1, <2>2, FS_Subset
  <2> QED BY <2>3 DEF Rollout, InReach
<1> QED BY <1>1, RolloutCorrect, PTL

\* A rollout that ends without a fault has restarted every node.
THEOREM AllRestarted == Spec => EveryoneRestarted
<1>1. TypeOK /\ Rollout /\ [Next]_vars =>
         [pc = "gate" /\ pc' = "idle" /\ faults' = faults => restarted' = Nodes]_vars
  <2> SUFFICES ASSUME TypeOK, Rollout, Next, pc = "gate", pc' = "idle", faults' = faults
               PROVE  restarted' = Nodes
    OBVIOUS
  <2>1. CASE Gate
    <3>1. turn = N /\ restarted' = restarted
      BY <2>1, ConstantFacts DEF Gate, TypeOK
    <3>2. restarted = {order[i] : i \in 1..N}
      BY <3>1 DEF Rollout, InTurn
    <3> QED BY <3>1, <3>2 DEF Rollout, Permutation, TypeOK
  <2>2. CASE GateTimeout
    BY <2>2 DEF GateTimeout, Spend, TypeOK
  <2>3. pc' = pc \/ pc \in {"idle", "flag", "local", "scan", "put", "roll"} \/ Gate \/ GateTimeout
    BY DEF Next, Planning, Rolling, Servers, Build, StartDeploy, ReadFlag, AskLocal, Search,
           PutOrder, PlanFails, RestartNode, WaitLeader, StepDown, Open, Serve, Elect, Crash
  <2> QED BY <2>1, <2>2, <2>3
<1> QED BY <1>1, RolloutCorrect, PTL DEF Spec, EveryoneRestarted

-----------------------------------------------------------------------------
\* A deploy ends.

\* How many steps a deploy can still take: in a search, to ask the hosts that are
\* left, and in the first one those of the second; to put the order; to restart
\* every node from the turn on, to wait for the leader and to pass its gate.
SecondSearch == IF pass = 1 THEN N + 1 ELSE 0
Steps ==
    CASE pc = "idle"  -> 0
      [] pc = "flag"  -> 3 * (N - turn) + N + 6
      [] pc = "local" -> 3 * (N - turn) + SecondSearch + N + 5
      [] pc = "scan"  -> 3 * (N - turn) + SecondSearch + (N - host) + 5
      [] pc = "put"   -> 3 * (N - turn) + 4
      [] pc = "roll"  -> 3 * (N - turn) + 3
      [] pc = "lead"  -> 3 * (N - turn) + 2
      [] pc = "gate"  -> 3 * (N - turn) + 1

LEMMA StepsFacts ==
    ASSUME TypeOK
    PROVE  /\ pc = "idle" => Steps = 0
           /\ pc = "flag" => Steps = 3 * (N - turn) + N + 6
           /\ pc = "local" => Steps = 3 * (N - turn) + SecondSearch + N + 5
           /\ pc = "scan" => Steps = 3 * (N - turn) + SecondSearch + (N - host) + 5
           /\ pc = "put" => Steps = 3 * (N - turn) + 4
           /\ pc = "roll" => Steps = 3 * (N - turn) + 3
           /\ pc = "lead" => Steps = 3 * (N - turn) + 2
           /\ pc = "gate" => Steps = 3 * (N - turn) + 1
           /\ Steps \in 0..(5 * N + 3)
<1>0. /\ N \in Nat /\ N >= 1 /\ turn \in 1..N /\ host \in 1..N
      /\ SecondSearch \in {0, N + 1}
  BY ConstantFacts DEF TypeOK, SecondSearch
<1>1. CASE pc = "idle"
  BY <1>0, <1>1 DEF Steps
<1>2. CASE pc = "flag"
  BY <1>0, <1>2 DEF Steps
<1>3. CASE pc = "local"
  BY <1>0, <1>3 DEF Steps
<1>4. CASE pc = "scan"
  BY <1>0, <1>4 DEF Steps
<1>5. CASE pc = "put"
  BY <1>0, <1>5 DEF Steps
<1>6. CASE pc = "roll"
  BY <1>0, <1>6 DEF Steps
<1>7. CASE pc = "gate"
  BY <1>0, <1>7 DEF Steps
<1>8. CASE pc = "lead"
  BY <1>0, <1>8 DEF Steps
<1> QED BY <1>1, <1>2, <1>3, <1>4, <1>5, <1>6, <1>7, <1>8 DEF TypeOK

\* The plan cannot search for ever and the rollout cannot turn back: a deploy takes
\* at most 5N + 3 steps after its start, one less remains after each, and no crash,
\* election or restart of a server adds one.
THEOREM DeployIsShort ==
    Spec => /\ [](Steps \in 0..(5 * N + 3))
            /\ [][pc # "idle" =>
                      \/ Steps' < Steps
                      \/ UNCHANGED <<pc, pass, host, found, missed, turn, order, restarted>>]_vars
<1> DEFINE Fewer == pc # "idle" =>
                       \/ Steps' < Steps
                       \/ UNCHANGED <<pc, pass, host, found, missed, turn, order, restarted>>
<1>1. TypeOK /\ [Next]_vars => [Fewer]_vars
  <2> SUFFICES ASSUME TypeOK, Next, pc # "idle"
               PROVE  \/ Steps' < Steps
                      \/ UNCHANGED <<pc, pass, host, found, missed, turn, order, restarted>>
    OBVIOUS
  <2>0. TypeOK'
    BY NextType
  <2>1. /\ N \in Nat /\ N >= 1 /\ turn \in 1..N /\ turn' \in 1..N
        /\ host \in 1..N /\ host' \in 1..N
        /\ SecondSearch = IF pass = 1 THEN N + 1 ELSE 0
        /\ SecondSearch' = IF pass' = 1 THEN N + 1 ELSE 0
    BY <2>0, ConstantFacts DEF TypeOK, SecondSearch
  <2>2. /\ pc' = "idle" => Steps' = 0
        /\ pc' = "local" => Steps' = 3 * (N - turn') + SecondSearch' + N + 5
        /\ pc' = "scan" => Steps' = 3 * (N - turn') + SecondSearch' + (N - host') + 5
        /\ pc' = "put" => Steps' = 3 * (N - turn') + 4
        /\ pc' = "roll" => Steps' = 3 * (N - turn') + 3
        /\ pc' = "lead" => Steps' = 3 * (N - turn') + 2
        /\ pc' = "gate" => Steps' = 3 * (N - turn') + 1
    BY DEF Steps
  <2>3. ASSUME NEW l, NEW late, Answer(l, late), pc = "local" \/ pc = "scan", turn' = turn
        PROVE  Steps' < Steps
    <3>1. CASE pass = 1 /\ pass' = 2 /\ host' = 1 /\ pc' = FirstStep
      BY <2>1, <2>2, <2>3, <3>1, StepsFacts DEF FirstStep
    <3>2. CASE pc' = "put"
      BY <2>1, <2>2, <2>3, <3>2, StepsFacts
    <3> QED BY <2>3, <3>1, <3>2, AnswerFacts
  <2>4. CASE ReadFlag
    <3>1. /\ pc = "flag" /\ turn' = turn
          /\ \/ pc' = "scan" /\ pass' = 2
             \/ pc' = "put"
      BY <2>4 DEF ReadFlag, rollout
    <3> QED BY <2>1, <2>2, <3>1, StepsFacts
  <2>5. CASE AskLocal
    <3>1. pc = "local" /\ turn' = turn
      BY <2>5 DEF AskLocal, rollout
    <3>2. CASE pc' = "scan" /\ UNCHANGED <<pass, host, found>>
      BY <2>1, <2>2, <3>1, <3>2, StepsFacts
    <3> QED BY <2>3, <2>5, <3>1, <3>2 DEF AskLocal
  <2>6. CASE Search
    <3>1. pc = "scan" /\ turn' = turn
      BY <2>6 DEF Search, rollout
    <3>2. CASE host' = host + 1 /\ UNCHANGED <<pc, pass, found>>
      BY <2>1, <2>2, <3>1, <3>2, StepsFacts
    <3> QED BY <2>3, <2>6, <3>1, <3>2 DEF Search
  <2>7. CASE PutOrder \/ PlanFails
    <3>1. pc \in {"flag", "local", "scan", "put"} /\ pc' = "roll" /\ turn' = turn
      BY <2>7 DEF PutOrder, PlanFails, rollout
    <3> QED BY <2>1, <2>2, <3>1, StepsFacts
  <2>8. CASE Rolling
    <3>1. \/ pc = "roll" /\ pc' \in {"lead", "gate"} /\ turn' = turn
          \/ pc = "lead" /\ pc' = "gate" /\ turn' = turn
          \/ pc = "gate" /\ pc' = "roll" /\ turn' = turn + 1
          \/ pc \in {"lead", "gate"} /\ pc' = "idle"
      BY <2>8 DEF Rolling, RestartNode, WaitLeader, Gate, GateTimeout, rollout
    <3> QED BY <2>1, <2>2, <3>1, StepsFacts
  <2>9. CASE Servers
    BY <2>9 DEF Servers, Open, Serve, Elect, Crash, StepDown, plan, rollout
  <2>10. ~Build /\ ~StartDeploy
    BY DEF Build, StartDeploy
  <2> QED BY <2>4, <2>5, <2>6, <2>7, <2>8, <2>9, <2>10 DEF Next, Planning
<1>2. TypeOK => Steps \in 0..(5 * N + 3)
  BY StepsFacts
<1> QED BY <1>1, <1>2, OrderTypeCorrect, PTL DEF Spec
=============================================================================
