------------------------ MODULE VaultBootstrapProofs ------------------------
(***************************************************************************)
(* Proofs about VaultBootstrap, for every number of workers, shares,       *)
(* inits and faults.                                                       *)
(***************************************************************************)
EXTENDS VaultBootstrap, FiniteSetTheorems, TLAPS

\* The constants in the form the proofs use.
LEMMA ConstantFacts ==
    /\ N \in Nat /\ N >= 1
    /\ Leader \in Nodes
    /\ \A i \in 1..N : Workers[i] \in Nodes
    /\ Shares \in Nat /\ Threshold \in Nat /\ 1 <= Threshold /\ Threshold <= Shares
    /\ MaxInits \in Nat /\ MaxFaults \in Nat
    /\ 1..Threshold \subseteq 1..Shares
BY WorkersAssumption, SharesAssumption, BoundsAssumption DEF Nodes, Leader

\* Every node is a worker at some position of the catalog.
LEMMA NodesAreWorkers == \A n \in Nodes : \E i \in 1..N : n = Workers[i]
BY DEF Nodes

TypeInv == TypeOK /\ LoopOK

\* The initial state is well typed and no hook is in a loop.
LEMMA InitTypeInv == Init => TypeInv
<1>1. SUFFICES ASSUME Init PROVE TypeInv
  OBVIOUS
<1>2. TypeOK
  BY <1>1, ConstantFacts DEF Init, TypeOK, Labels, None, Procs, Clusters, Nodes
<1>3. LoopOK
  BY <1>1 DEF Init, LoopOK, Procs
<1> QED BY <1>2, <1>3 DEF TypeInv

\* Whatever command_plan_order finds, deploy_order is a list of N workers.
LEMMA PlansType == \A plan \in Plans : plan \in [1..N -> Nodes]
BY ConstantFacts DEF Plans, LeaderLast

\* A fault is within the budget.
LEMMA SpendType == ASSUME TypeOK, NEW kind, Spend(kind) PROVE faults' \in 0..MaxFaults
BY ConstantFacts DEF TypeOK, Spend

\* Every action keeps the types and the ranges of the loop counters.
LEMMA NextTypeInv == TypeInv /\ [Next]_vars => TypeInv'
<1> SUFFICES ASSUME TypeInv, [Next]_vars PROVE TypeInv'
  OBVIOUS
<1> USE ConstantFacts DEF TypeInv, TypeOK, LoopOK
<1>1. CASE UNCHANGED vars
  BY <1>1 DEF vars, vaultVars, hookVars, deployVars
<1>2. CASE StartDeploy
  <2>1. order' \in [1..N -> Nodes]
    <3>1. \A k \in 1..N : LeaderLast(k) \in [1..N -> Nodes]
      BY DEF LeaderLast
    <3> QED BY <1>2, <3>1, PlansType DEF StartDeploy, deployVars
  <2>2. faults' \in 0..MaxFaults
    BY <1>2, SpendType DEF StartDeploy
  <2> QED BY <1>2, <2>1, <2>2 DEF StartDeploy, Goto, vaultVars, Procs, Labels
<1>3. CASE StartAllocation
  BY <1>3 DEF StartAllocation, deployVars, Procs, Labels
<1>4. CASE InitVault
  <2> DEFINE n == at["deploy"]
  <2>1. inits \in Clusters \cup {None} /\ (inits < MaxInits => inits + 1 \in Clusters)
    BY DEF Clusters, None
  <2>2. CASE inits < MaxInits /\ disk' = [disk EXCEPT ![n] = inits + 1] /\ minted' = inits + 1
             /\ pc' = [pc EXCEPT !["deploy"] = "store"] /\ idx' = [idx EXCEPT !["deploy"] = FirstPut]
             /\ inits' = inits + 1 /\ UNCHANGED <<at, share, deployVars>>
    BY <1>4, <2>1, <2>2 DEF InitVault, FirstPut, Procs, Labels, deployVars
  <2>3. CASE Raise("deploy") /\ UNCHANGED <<disk, inits>>
    BY <1>4, <2>3 DEF InitVault, FirstPut, Raise, Exit, Procs, Labels, None, deployVars
  <2> QED BY <1>4, <2>2, <2>3 DEF InitVault, FirstPut
<1>5. CASE StoreSecret
  <2>1. store' \in [Entries -> Clusters \cup {None}]
    BY <1>5 DEF StoreSecret
  <2>2. idx' \in [Procs -> Nat] /\ pc' \in [Procs -> Labels] /\ pc'["deploy"] \in {"store", "status"}
        /\ \A p \in Procs : p # "deploy" => pc'[p] = pc[p] /\ idx'[p] = idx[p]
    <3>1. idx["deploy"] + 1 \in Nat
      BY DEF Procs
    <3>2. CASE Loop("deploy", "store", idx["deploy"] + 1)
      BY <3>1, <3>2 DEF Loop, Procs, Labels
    <3>3. CASE Loop("deploy", "status", 1)
      BY <3>3 DEF Loop, Procs, Labels
    <3> QED BY <1>5, <3>2, <3>3 DEF StoreSecret
  <2> QED BY <1>5, <2>1, <2>2 DEF StoreSecret, Loop, vaultVars, deployVars
<1>6. CASE WaitLeader
  BY <1>6 DEF WaitLeader, Goto, vaultVars, deployVars, Procs, Labels
<1>7. CASE WaitInitialized
  BY <1>7 DEF WaitInitialized, Goto, vaultVars, deployVars, Procs, Labels
<1>8. CASE ReadFlag
  BY <1>8 DEF ReadFlag, Return, Exit, Loop, vaultVars, deployVars, Procs, Labels, None
<1>9. CASE Survey
  <2>1. faults' \in 0..MaxFaults
    BY <1>9, SpendType DEF Survey
  <2>2. CASE Return("deploy")
    BY <1>9, <2>1, <2>2 DEF Survey, Return, Exit, vaultVars, deployVars, Procs, Labels, None
  <2>3. CASE UNCHANGED deployVars /\ \/ Loop("deploy", "survey", idx["deploy"] + 1)
                                     \/ Loop("deploy", "mark", BootstrappedFlag)
    <3>1. idx["deploy"] + 1 \in Nat /\ BootstrappedFlag \in Nat
      BY DEF Procs, BootstrappedFlag
    <3> QED BY <1>9, <2>1, <2>3, <3>1 DEF Survey, Loop, vaultVars, deployVars, Procs, Labels
  <2> QED BY <1>9, <2>2, <2>3 DEF Survey
<1>10. CASE MarkBootstrapped
  <2>1. store' \in [Entries -> Clusters \cup {None}]
    <3>1. inits \in Clusters \cup {None}
      BY DEF Clusters, None
    <3> QED BY <1>10, <3>1 DEF MarkBootstrapped
  <2>2. CASE Loop("deploy", "mark", idx["deploy"] + 1) /\ UNCHANGED deployVars
    <3>1. idx["deploy"] + 1 \in Nat
      BY DEF Procs
    <3> QED BY <1>10, <2>1, <2>2, <3>1 DEF MarkBootstrapped, Loop, vaultVars, deployVars, Procs, Labels
  <2>3. CASE Return("deploy")
    BY <1>10, <2>1, <2>3 DEF MarkBootstrapped, Return, Exit, vaultVars, deployVars, Procs, Labels, None
  <2> QED BY <1>10, <2>2, <2>3 DEF MarkBootstrapped
<1>11. ASSUME NEW p \in Procs, HookStep(p) PROVE TypeInv'
  <2>1. CASE WaitApi(p)
    BY <2>1 DEF WaitApi, Goto, vaultVars, deployVars, Procs, Labels
  <2>2. CASE CheckStatus(p)
    BY <2>2 DEF CheckStatus, Status, Spend, Raise, Exit, Goto, vaultVars, deployVars, Procs, Labels, None
  <2>3. CASE EnsureKeysPresent(p)
    BY <2>3 DEF EnsureKeysPresent, Raise, Exit, Goto, vaultVars, deployVars, Procs, Labels, None
  <2>4. CASE UnsealStatus(p)
    BY <2>4 DEF UnsealStatus, Status, Spend, Raise, Exit, Loop, vaultVars, deployVars, Procs, Labels, None
  <2>5. CASE ReadKey(p)
    BY <2>5 DEF ReadKey, Raise, Exit, vaultVars, deployVars, Procs, Labels, None, Entries,
                BootstrappedAt
  <2>6. CASE SubmitKey(p)
    <3> DEFINE n == at[p]
               s == Submitted(n, idx[p], share[p])
    <3>1. n \in Nodes /\ s \in SUBSET ((1..Shares) \X Clusters)
      <4>1. idx[p] \in 1..Shares /\ share[p] \in Clusters
        BY <2>6 DEF SubmitKey, RequiredKeys
      <4> QED BY <4>1 DEF Submitted
    <3> HIDE DEF s
    <3>2. CASE Raise(p) /\ UNCHANGED sealed
               /\ (UNCHANGED progress \/ progress' = [progress EXCEPT ![n] = {}])
      BY <2>6, <3>1, <3>2 DEF SubmitKey, RequiredKeys, Raise, Exit, deployVars, Procs, Labels, None
    <3>3. CASE Goto(p, "settle") /\ UNCHANGED deployVars /\ sealed' \in [Nodes -> BOOLEAN]
               /\ (UNCHANGED progress \/ progress' = [progress EXCEPT ![n] = {}]
                     \/ progress' = [progress EXCEPT ![n] = s])
      BY <2>6, <3>1, <3>3 DEF SubmitKey, RequiredKeys, Goto, deployVars, Procs, Labels
    <3>4. CASE Loop(p, "read", idx[p] + 1) /\ idx[p] < Threshold /\ UNCHANGED <<sealed, deployVars>>
               /\ progress' = [progress EXCEPT ![n] = s]
      <4>1. pc[p] = "submit" /\ idx[p] \in 1..Threshold /\ idx[p] + 1 \in 1..Threshold
        BY <2>6, <3>4 DEF SubmitKey, RequiredKeys
      <4>2. TypeOK'
        BY <2>6, <3>1, <3>4, <4>1 DEF SubmitKey, RequiredKeys, Loop, deployVars, Procs, Labels
      <4>3. LoopOK'
        BY <3>4, <4>1 DEF Loop, Labels
      <4> QED BY <4>2, <4>3
    <3>5. \/ Raise(p) /\ UNCHANGED sealed
              /\ (UNCHANGED progress \/ progress' = [progress EXCEPT ![n] = {}])
          \/ Goto(p, "settle") /\ UNCHANGED deployVars
              /\ (UNCHANGED sealed \/ sealed' = [sealed EXCEPT ![n] = FALSE])
              /\ (UNCHANGED progress \/ progress' = [progress EXCEPT ![n] = {}]
                     \/ progress' = [progress EXCEPT ![n] = s])
          \/ Loop(p, "read", idx[p] + 1) /\ idx[p] < Threshold /\ UNCHANGED <<sealed, deployVars>>
              /\ progress' = [progress EXCEPT ![n] = s]
      BY <2>6 DEF SubmitKey, RequiredKeys, s
    <3> QED BY <3>1, <3>2, <3>3, <3>4, <3>5
  <2>7. CASE Settle(p)
    BY <2>7 DEF Settle, Goto, vaultVars, deployVars, Procs, Labels
  <2>8. CASE Verify(p)
    BY <2>8 DEF Verify, Status, Spend, Raise, Exit, Goto, vaultVars, deployVars, Procs, Labels, None
  <2>9. CASE WaitOperational(p)
    BY <2>9 DEF WaitOperational, Return, Exit, Goto, vaultVars, deployVars, Procs, Labels, None
  <2>10. CASE Timeout(p)
    BY <2>10 DEF Timeout, Spend, Raise, Exit, vaultVars, deployVars, Procs, Labels, None
  <2> QED BY <1>11, <2>1, <2>2, <2>3, <2>4, <2>5, <2>6, <2>7, <2>8, <2>9, <2>10 DEF HookStep
<1>12. ASSUME NEW n \in Nodes, Boot(n) \/ Join(n) PROVE TypeInv'
  <2>1. CASE Boot(n)
    BY <2>1 DEF Boot, hookVars, deployVars
  <2>2. CASE Join(n)
    BY <2>2 DEF Join, hookVars, deployVars
  <2> QED BY <1>12, <2>1, <2>2
<1>13. CASE Recover
  BY <1>13 DEF Recover, hookVars, deployVars
<1>14. ASSUME NEW n \in Nodes, StartUnseal(n) \/ Restart(n) \/ LoseDisk(n) PROVE TypeInv'
  <2>1. CASE StartUnseal(n)
    BY <2>1 DEF StartUnseal, vaultVars, deployVars, Procs, Labels
  <2>2. CASE Restart(n)
    BY <2>2 DEF Restart, Spend, hookVars, deployVars
  <2>3. CASE LoseDisk(n)
    BY <2>3 DEF LoseDisk, hookVars, deployVars
  <2> QED BY <1>14, <2>1, <2>2, <2>3
<1>15. ASSUME NEW p \in Procs, HookFails(p) PROVE TypeInv'
  BY <1>15 DEF HookFails, Spend, Raise, Exit, vaultVars, deployVars, Procs, Labels, None
<1> QED
  BY <1>1, <1>2, <1>3, <1>4, <1>5, <1>6, <1>7, <1>8, <1>9, <1>10, <1>11, <1>12, <1>13,
     <1>14, <1>15 DEF Next, DeployStep, Environment

\* Type correctness of the vault hooks, for every value of the constants.
THEOREM TypeCorrect == Spec => []TypeOK
<1>1. Spec => []TypeInv
  BY InitTypeInv, NextTypeInv, PTL DEF Spec
<1> QED BY <1>1, PTL DEF TypeInv

-----------------------------------------------------------------------------
\* The conjuncts of Custody that hold while vault_0 keeps its disk.
Kept == OneCluster /\ InPutOrder /\ OnlyStoredShares /\ OpenNeedsKeys /\ LabelsMean

\* With no cluster and an empty KV store the inductive invariant holds.
LEMMA InitCustody == Init => Custody
<1>1. SUFFICES ASSUME Init PROVE Custody
  OBVIOUS
<1> USE <1>1, ConstantFacts DEF Init
<1>2. OneCluster
  BY DEF OneCluster, None, Procs
<1>3. InPutOrder
  BY DEF InPutOrder, None, LeaderIp, Entries, BootstrappedFlag, BootstrappedAt, Procs
<1>4. OnlyStoredShares /\ OpenNeedsKeys
  BY DEF OnlyStoredShares, OpenNeedsKeys
<1>5. LabelsMean
  BY DEF LabelsMean, Procs, None, BootstrappedFlag, Entries, BootstrappedAt
<1> QED BY <1>2, <1>3, <1>4, <1>5, InitTypeInv DEF Custody, TypeInv

\* Shares of one cluster, at least as many as the threshold and numbered up
\* to it, are all of them.
LEMMA EnoughShares ==
    ASSUME NEW c, NEW S, \A s \in S : \E i \in 1..Threshold : s = <<i, c>>,
           Cardinality(S) >= Threshold
    PROVE  \A i \in 1..Threshold : <<i, c>> \in S
<1> DEFINE R == {i \in 1..Threshold : <<i, c>> \in S}
           G == [i \in R |-> <<i, c>>]
<1>1. R \in SUBSET (1..Threshold)
  OBVIOUS
<1>2. IsFiniteSet(1..Threshold) /\ Cardinality(1..Threshold) = Threshold
  <2>1. 1 \in Int /\ Threshold \in Int /\ Threshold - 1 + 1 = Threshold /\ ~(1 > Threshold)
    BY ConstantFacts
  <2> QED BY <2>1, FS_Interval
<1>3. G \in Bijection(R, S)
  <2>1. G \in [R -> S]
    OBVIOUS
  <2>2. \A i, j \in DOMAIN G : G[i] = G[j] => i = j
    OBVIOUS
  <2>3. \A s \in S : \E i \in R : G[i] = s
    OBVIOUS
  <2> QED BY <2>1, <2>2, <2>3 DEF Bijection, Injection, IsInjective, Surjection
<1>4. IsFiniteSet(R) /\ Cardinality(R) <= Threshold
  BY <1>1, <1>2, FS_Subset
<1>5. Cardinality(S) = Cardinality(R)
  BY <1>3, <1>4, FS_Bijection DEF ExistsBijection
<1>6. Cardinality(R) = Cardinality(1..Threshold)
  <2>1. Cardinality(R) \in Nat
    BY <1>4, FS_CardinalityType
  <2> QED BY <1>2, <1>4, <1>5, <2>1, ConstantFacts
<1>7. R = 1..Threshold
  BY <1>1, <1>2, <1>6, FS_Subset
<1> QED BY <1>7

\* Custody is kept by every action, as long as vault_0 keeps its disk.
LEMMA NextCustody ==
    ASSUME TypeInv, TypeInv', Custody, [Next]_vars, Leader \notin lost'
    PROVE  Kept'
<1> USE ConstantFacts DEF TypeInv, TypeOK, LoopOK
<1>0. lost \subseteq lost' /\ Kept
  BY DEF Next, DeployStep, HookStep, Environment, Custody, Kept, vars, vaultVars, hookVars, deployVars,
     StartDeploy, StartAllocation, InitVault, StoreSecret, WaitLeader, WaitInitialized, ReadFlag, Survey,
     MarkBootstrapped, WaitApi, CheckStatus, EnsureKeysPresent, UnsealStatus, ReadKey, SubmitKey, Settle,
     Verify, WaitOperational, Timeout, HookFails, Boot, Join, StartUnseal, Restart, LoseDisk, Recover
<1>1. CASE UNCHANGED vars
  <2>1. OneCluster'
    BY <1>0, <1>1 DEF vars, vaultVars, hookVars, deployVars, Kept, OneCluster, None, Procs
  <2>2. InPutOrder'
    BY <1>0, <1>1 DEF vars, vaultVars, hookVars, deployVars, Kept, InPutOrder, None
  <2>3. OnlyStoredShares'
    BY <1>0, <1>1 DEF vars, vaultVars, hookVars, deployVars, Kept, OnlyStoredShares, None
  <2>4. OpenNeedsKeys'
    BY <1>0, <1>1 DEF vars, vaultVars, hookVars, deployVars, Kept, OpenNeedsKeys, None, AllKeys
  <2>5. LabelsMean'
    BY <1>0, <1>1 DEF vars, vaultVars, hookVars, deployVars, Kept, LabelsMean, None, Procs, AllKeys,
        HasJoined
  <2> QED BY <2>1, <2>2, <2>3, <2>4, <2>5 DEF Kept
<1>2. CASE StartDeploy
  <2>1. OneCluster'
    BY <1>0, <1>2 DEF StartDeploy, Goto, vaultVars, Kept, OneCluster, None, Procs
  <2>2. InPutOrder'
    BY <1>0, <1>2 DEF StartDeploy, Goto, vaultVars, Kept, InPutOrder, None
  <2>3. OnlyStoredShares'
    BY <1>0, <1>2 DEF StartDeploy, Goto, vaultVars, Kept, OnlyStoredShares, None
  <2>4. OpenNeedsKeys'
    BY <1>0, <1>2 DEF StartDeploy, Goto, vaultVars, Kept, OpenNeedsKeys, None, AllKeys
  <2>5. LabelsMean'
    BY <1>0, <1>2 DEF StartDeploy, Goto, vaultVars, Kept, LabelsMean, None, Procs, AllKeys, HasJoined
  <2> QED BY <2>1, <2>2, <2>3, <2>4, <2>5 DEF Kept
<1>3. CASE StartAllocation
  <2>1. OneCluster'
    BY <1>0, <1>3 DEF StartAllocation, deployVars, Kept, OneCluster, None, Procs
  <2>2. InPutOrder'
    BY <1>0, <1>3 DEF StartAllocation, deployVars, Kept, InPutOrder, None
  <2>3. OnlyStoredShares'
    BY <1>0, <1>3 DEF StartAllocation, deployVars, Kept, OnlyStoredShares, None
  <2>4. OpenNeedsKeys'
    BY <1>0, <1>3 DEF StartAllocation, deployVars, Kept, OpenNeedsKeys, None, AllKeys
  <2>5. LabelsMean'
    BY <1>0, <1>3 DEF StartAllocation, deployVars, Kept, LabelsMean, None, Procs, AllKeys, HasJoined
  <2> QED BY <2>1, <2>2, <2>3, <2>4, <2>5 DEF Kept
<1>4. CASE InitVault
  <2>1. OneCluster'
    <3>1. OneCluster /\ at["deploy"] = Leader /\ store' = store
      BY <1>0, <1>4 DEF InitVault, Kept, LabelsMean
    <3>2. CASE /\ disk[Leader] = None /\ disk' = [disk EXCEPT ![Leader] = inits + 1]
               /\ inits' = inits + 1 /\ minted' = inits + 1 /\ UNCHANGED share
      BY <3>1, <3>2 DEF OneCluster, None, Entries, BootstrappedAt
    <3>3. CASE Raise("deploy") /\ UNCHANGED <<disk, inits>>
      BY <3>1, <3>3 DEF Raise, Exit, OneCluster, None, Procs
    <3> QED BY <1>4, <3>1, <3>2, <3>3 DEF InitVault
  <2>2. InPutOrder'
    BY <1>0, <1>4 DEF InitVault, FirstPut, Raise, Exit, deployVars, Kept, InPutOrder, OneCluster,
        OnlyStoredShares, OpenNeedsKeys, LabelsMean, None, Procs, Entries, vaultVars,
        hookVars, BootstrappedAt, BootstrappedFlag, LeaderIp, AllKeys, HasJoined
  <2>3. OnlyStoredShares'
    BY <1>0, <1>4 DEF InitVault, FirstPut, Raise, Exit, deployVars, Kept, OnlyStoredShares, None, Entries,
        BootstrappedAt, LeaderIp, OneCluster, InPutOrder, OpenNeedsKeys, LabelsMean
  <2>4. OpenNeedsKeys'
    BY <1>0, <1>4 DEF InitVault, FirstPut, Raise, Exit, deployVars, Kept, OpenNeedsKeys, None, AllKeys, Entries,
        BootstrappedAt, LeaderIp, OneCluster, InPutOrder, OnlyStoredShares, LabelsMean
  <2>5. LabelsMean'
    BY <1>0, <1>4 DEF InitVault, FirstPut, Raise, Exit, deployVars, Kept, LabelsMean, None, Procs, AllKeys,
        HasJoined
  <2> QED BY <2>1, <2>2, <2>3, <2>4, <2>5 DEF Kept
<1>5. CASE StoreSecret
  <2>1. OneCluster'
    BY <1>0, <1>5 DEF StoreSecret, Loop, vaultVars, deployVars, Kept, OneCluster, None, Procs,
        LeaderIp, Entries, BootstrappedAt, InPutOrder, OnlyStoredShares, OpenNeedsKeys,
        LabelsMean
  <2>2. InPutOrder'
    BY <1>0, <1>5 DEF StoreSecret, Loop, vaultVars, deployVars, Kept, InPutOrder, OneCluster,
        OnlyStoredShares, OpenNeedsKeys, LabelsMean, None, Procs, Entries, hookVars,
        BootstrappedAt, BootstrappedFlag, LeaderIp, AllKeys, HasJoined
  <2>3. OnlyStoredShares'
    BY <1>0, <1>5 DEF StoreSecret, Loop, vaultVars, deployVars, Kept, OnlyStoredShares, None,
        LeaderIp, Entries, BootstrappedAt, OneCluster, InPutOrder, OpenNeedsKeys,
        LabelsMean
  <2>4. OpenNeedsKeys'
    BY <1>0, <1>5 DEF StoreSecret, Loop, vaultVars, deployVars, Kept, OpenNeedsKeys, None, AllKeys,
        LeaderIp, Entries, BootstrappedAt, OneCluster, InPutOrder, OnlyStoredShares,
        LabelsMean
  <2>5. LabelsMean'
    BY <1>0, <1>5 DEF StoreSecret, Loop, vaultVars, deployVars, Kept, LabelsMean, None, Procs,
        AllKeys, HasJoined, LeaderIp, BootstrappedFlag, BootstrappedAt, Entries,
        OneCluster, InPutOrder, OnlyStoredShares, OpenNeedsKeys
  <2> QED BY <2>1, <2>2, <2>3, <2>4, <2>5 DEF Kept
<1>6. CASE WaitLeader
  <2>1. OneCluster'
    BY <1>0, <1>6 DEF WaitLeader, Goto, Operational, HealthInitialized, Answers, vaultVars,
        deployVars, Kept, OneCluster, None, Procs
  <2>2. InPutOrder'
    BY <1>0, <1>6 DEF WaitLeader, Goto, Operational, HealthInitialized, Answers, vaultVars,
        deployVars, Kept, InPutOrder, None
  <2>3. OnlyStoredShares'
    BY <1>0, <1>6 DEF WaitLeader, Goto, Operational, HealthInitialized, Answers, vaultVars,
        deployVars, Kept, OnlyStoredShares, None
  <2>4. OpenNeedsKeys'
    BY <1>0, <1>6 DEF WaitLeader, Goto, Operational, HealthInitialized, Answers, vaultVars,
        deployVars, Kept, OpenNeedsKeys, None, AllKeys
  <2>5. LabelsMean'
    BY <1>0, <1>6 DEF WaitLeader, Goto, Operational, HealthInitialized, Answers, vaultVars,
        deployVars, Kept, LabelsMean, None, Procs, AllKeys, HasJoined, BootstrappedFlag,
        BootstrappedAt, Entries, LeaderIp, OneCluster, InPutOrder, OnlyStoredShares,
        OpenNeedsKeys
  <2> QED BY <2>1, <2>2, <2>3, <2>4, <2>5 DEF Kept
<1>7. CASE WaitInitialized
  <2>1. OneCluster'
    BY <1>0, <1>7 DEF WaitInitialized, Goto, HealthInitialized, Answers, vaultVars, deployVars, Kept,
        OneCluster, None, Procs
  <2>2. InPutOrder'
    BY <1>0, <1>7 DEF WaitInitialized, Goto, HealthInitialized, Answers, vaultVars, deployVars, Kept,
        InPutOrder, None
  <2>3. OnlyStoredShares'
    BY <1>0, <1>7 DEF WaitInitialized, Goto, HealthInitialized, Answers, vaultVars, deployVars, Kept,
        OnlyStoredShares, None
  <2>4. OpenNeedsKeys'
    BY <1>0, <1>7 DEF WaitInitialized, Goto, HealthInitialized, Answers, vaultVars, deployVars, Kept,
        OpenNeedsKeys, None, AllKeys
  <2>5. LabelsMean'
    BY <1>0, <1>7 DEF WaitInitialized, Goto, HealthInitialized, Answers, vaultVars, deployVars, Kept,
        LabelsMean, None, Procs, AllKeys, HasJoined
  <2> QED BY <2>1, <2>2, <2>3, <2>4, <2>5 DEF Kept
<1>8. CASE ReadFlag
  <2>1. OneCluster'
    BY <1>0, <1>8 DEF ReadFlag, Return, Exit, Loop, vaultVars, deployVars, Kept, OneCluster, None,
        Procs
  <2>2. InPutOrder'
    BY <1>0, <1>8 DEF ReadFlag, Return, Exit, Loop, vaultVars, deployVars, Kept, InPutOrder,
        OneCluster, OnlyStoredShares, OpenNeedsKeys, LabelsMean, None, Procs, Entries,
        hookVars, BootstrappedAt, BootstrappedFlag, LeaderIp, AllKeys, HasJoined
  <2>3. OnlyStoredShares'
    BY <1>0, <1>8 DEF ReadFlag, Return, Exit, Loop, vaultVars, deployVars, Kept, OnlyStoredShares,
        None
  <2>4. OpenNeedsKeys'
    BY <1>0, <1>8 DEF ReadFlag, Return, Exit, Loop, vaultVars, deployVars, Kept, OpenNeedsKeys, None,
        AllKeys
  <2>5. LabelsMean'
    BY <1>0, <1>8 DEF ReadFlag, Return, Exit, Loop, vaultVars, deployVars, Kept, LabelsMean, None,
        Procs, AllKeys, HasJoined
  <2> QED BY <2>1, <2>2, <2>3, <2>4, <2>5 DEF Kept
<1>9. CASE Survey
  <2>1. OneCluster'
    BY <1>0, <1>9 DEF Survey, Return, Exit, Loop, Operational, HealthInitialized, Answers, vaultVars,
        deployVars, Kept, OneCluster, None, Procs
  <2>2. InPutOrder'
    BY <1>0, <1>9 DEF Survey, Return, Exit, Loop, Operational, HealthInitialized, Answers, vaultVars,
        deployVars, Kept, InPutOrder, OneCluster, OnlyStoredShares, OpenNeedsKeys,
        LabelsMean, None, Procs, Entries, hookVars, BootstrappedAt, BootstrappedFlag,
        LeaderIp, AllKeys, HasJoined
  <2>3. OnlyStoredShares'
    BY <1>0, <1>9 DEF Survey, Return, Exit, Loop, Operational, HealthInitialized, Answers, vaultVars,
        deployVars, Kept, OnlyStoredShares, None
  <2>4. OpenNeedsKeys'
    BY <1>0, <1>9 DEF Survey, Return, Exit, Loop, Operational, HealthInitialized, Answers, vaultVars,
        deployVars, Kept, OpenNeedsKeys, None, AllKeys
  <2>5. LabelsMean'
    <3> DEFINE i == idx["deploy"]
    <3>1. Kept /\ pc["deploy"] = "survey" /\ i \in 1..N /\ lost' = lost
          /\ disk' = disk /\ store' = store
          /\ \A j \in 1..N : j < i => HasJoined(Workers[j])
      BY <1>0, <1>9 DEF Survey, Kept, LabelsMean, vaultVars
    <3>2. CASE Operational(Workers[i]) /\ i < N /\ Loop("deploy", "survey", i + 1)
      <4>1. i + 1 \in 1..N /\ \A j \in 1..N : j < i + 1 => HasJoined(Workers[j])
        BY <3>1, <3>2 DEF Operational, HealthInitialized, HasJoined
      <4> QED BY <3>1, <3>2, <4>1 DEF Loop, LabelsMean, Kept, Procs, HasJoined, AllKeys
    <3>3. CASE Operational(Workers[i]) /\ i = N /\ Loop("deploy", "mark", BootstrappedFlag)
      <4>1. \A n \in Nodes : HasJoined(n)
        <5>1. HasJoined(Workers[N])
          BY <3>3 DEF Operational, HealthInitialized, HasJoined
        <5>2. \A j \in 1..N : j = N \/ j < i
          BY <3>3
        <5>3. \A j \in 1..N : HasJoined(Workers[j])
          BY <3>1, <5>1, <5>2
        <5> TAKE n \in Nodes
        <5>4. PICK j \in 1..N : n = Workers[j]
          BY NodesAreWorkers
        <5> QED BY <5>3, <5>4
      <4> QED BY <3>1, <3>3, <4>1 DEF Loop, LabelsMean, Kept, Procs, HasJoined, AllKeys
    <3>4. CASE Return("deploy")
      BY <3>1, <3>4 DEF Return, Exit, LabelsMean, Kept, Procs, HasJoined, AllKeys
    <3> QED BY <1>9, <3>1, <3>2, <3>3, <3>4 DEF Survey
  <2> QED BY <2>1, <2>2, <2>3, <2>4, <2>5 DEF Kept
<1>10. CASE MarkBootstrapped
  <2>1. OneCluster'
    BY <1>0, <1>10 DEF MarkBootstrapped, Return, Exit, Loop, vaultVars, deployVars, Kept, OneCluster,
        InPutOrder, OnlyStoredShares, OpenNeedsKeys, LabelsMean, None, Procs, Entries,
        hookVars, BootstrappedAt, BootstrappedFlag, LeaderIp, AllKeys, HasJoined
  <2>2. InPutOrder'
    BY <1>0, <1>10 DEF MarkBootstrapped, Return, Exit, Loop, vaultVars, deployVars, Kept, InPutOrder,
        OneCluster, OnlyStoredShares, OpenNeedsKeys, LabelsMean, None, Procs, Entries,
        hookVars, BootstrappedAt, BootstrappedFlag, LeaderIp, AllKeys, HasJoined
  <2>3. OnlyStoredShares'
    BY <1>0, <1>10 DEF MarkBootstrapped, Return, Exit, Loop, vaultVars, deployVars, Kept,
        OnlyStoredShares, None, BootstrappedAt, Entries, LeaderIp, OneCluster,
        InPutOrder, OpenNeedsKeys, LabelsMean
  <2>4. OpenNeedsKeys'
    BY <1>0, <1>10 DEF MarkBootstrapped, Return, Exit, Loop, vaultVars, deployVars, Kept,
        OpenNeedsKeys, None, AllKeys, BootstrappedAt, Entries, LeaderIp, OneCluster,
        InPutOrder, OnlyStoredShares, LabelsMean
  <2>5. LabelsMean'
    BY <1>0, <1>10 DEF MarkBootstrapped, Return, Exit, Loop, vaultVars, deployVars, Kept, LabelsMean,
        None, Procs, AllKeys, HasJoined, BootstrappedFlag, BootstrappedAt, Entries,
        LeaderIp
  <2> QED BY <2>1, <2>2, <2>3, <2>4, <2>5 DEF Kept
<1>11. ASSUME NEW p \in Procs, WaitApi(p) PROVE Kept'
  <2>1. OneCluster'
    BY <1>0, <1>11 DEF WaitApi, Goto, vaultVars, deployVars, Kept, OneCluster, None, Procs
  <2>2. InPutOrder'
    BY <1>0, <1>11 DEF WaitApi, Goto, vaultVars, deployVars, Kept, InPutOrder, None
  <2>3. OnlyStoredShares'
    BY <1>0, <1>11 DEF WaitApi, Goto, vaultVars, deployVars, Kept, OnlyStoredShares, None
  <2>4. OpenNeedsKeys'
    BY <1>0, <1>11 DEF WaitApi, Goto, vaultVars, deployVars, Kept, OpenNeedsKeys, None, AllKeys
  <2>5. LabelsMean'
    BY <1>0, <1>11 DEF WaitApi, Goto, vaultVars, deployVars, Kept, LabelsMean, None, Procs, AllKeys,
        HasJoined
  <2> QED BY <2>1, <2>2, <2>3, <2>4, <2>5 DEF Kept
<1>12. ASSUME NEW p \in Procs, CheckStatus(p) PROVE Kept'
  <2>1. OneCluster'
    BY <1>0, <1>12 DEF CheckStatus, Status, Spend, Raise, Exit, Goto, vaultVars, deployVars, Kept,
        OneCluster, None, Procs
  <2>2. InPutOrder'
    BY <1>0, <1>12 DEF CheckStatus, Status, Spend, Raise, Exit, Goto, vaultVars, deployVars, Kept,
        InPutOrder, OneCluster, OnlyStoredShares, OpenNeedsKeys, LabelsMean, None,
        Procs, Entries, hookVars, BootstrappedAt, BootstrappedFlag, LeaderIp, AllKeys,
        HasJoined
  <2>3. OnlyStoredShares'
    BY <1>0, <1>12 DEF CheckStatus, Status, Spend, Raise, Exit, Goto, vaultVars, deployVars, Kept,
        OnlyStoredShares, None
  <2>4. OpenNeedsKeys'
    BY <1>0, <1>12 DEF CheckStatus, Status, Spend, Raise, Exit, Goto, vaultVars, deployVars, Kept,
        OpenNeedsKeys, None, AllKeys
  <2>5. LabelsMean'
    BY <1>0, <1>12 DEF CheckStatus, Status, Spend, Raise, Exit, Goto, vaultVars, deployVars, Kept,
        LabelsMean, None, Procs, AllKeys, HasJoined, BootstrappedFlag, BootstrappedAt,
        Entries, LeaderIp, OneCluster, InPutOrder, OnlyStoredShares, OpenNeedsKeys
  <2> QED BY <2>1, <2>2, <2>3, <2>4, <2>5 DEF Kept
<1>13. ASSUME NEW p \in Procs, EnsureKeysPresent(p) PROVE Kept'
  <2>1. OneCluster'
    BY <1>0, <1>13 DEF EnsureKeysPresent, Raise, Exit, Goto, vaultVars, deployVars, Kept, OneCluster,
        None, Procs
  <2>2. InPutOrder'
    BY <1>0, <1>13 DEF EnsureKeysPresent, Raise, Exit, Goto, vaultVars, deployVars, Kept, InPutOrder,
        OneCluster, OnlyStoredShares, OpenNeedsKeys, LabelsMean, None, Procs, Entries,
        hookVars, BootstrappedAt, BootstrappedFlag, LeaderIp, AllKeys, HasJoined
  <2>3. OnlyStoredShares'
    BY <1>0, <1>13 DEF EnsureKeysPresent, Raise, Exit, Goto, vaultVars, deployVars, Kept,
        OnlyStoredShares, None
  <2>4. OpenNeedsKeys'
    BY <1>0, <1>13 DEF EnsureKeysPresent, Raise, Exit, Goto, vaultVars, deployVars, Kept,
        OpenNeedsKeys, None, AllKeys
  <2>5. LabelsMean'
    BY <1>0, <1>13 DEF EnsureKeysPresent, Raise, Exit, Goto, vaultVars, deployVars, Kept, LabelsMean,
        None, Procs, AllKeys, HasJoined
  <2> QED BY <2>1, <2>2, <2>3, <2>4, <2>5 DEF Kept
<1>14. ASSUME NEW p \in Procs, UnsealStatus(p) PROVE Kept'
  <2>1. OneCluster'
    BY <1>0, <1>14 DEF UnsealStatus, Status, Spend, Raise, Exit, Loop, vaultVars, deployVars, Kept,
        OneCluster, None, Procs
  <2>2. InPutOrder'
    BY <1>0, <1>14 DEF UnsealStatus, Status, Spend, Raise, Exit, Loop, vaultVars, deployVars, Kept,
        InPutOrder, OneCluster, OnlyStoredShares, OpenNeedsKeys, LabelsMean, None,
        Procs, Entries, hookVars, BootstrappedAt, BootstrappedFlag, LeaderIp, AllKeys,
        HasJoined
  <2>3. OnlyStoredShares'
    BY <1>0, <1>14 DEF UnsealStatus, Status, Spend, Raise, Exit, Loop, vaultVars, deployVars, Kept,
        OnlyStoredShares, None
  <2>4. OpenNeedsKeys'
    BY <1>0, <1>14 DEF UnsealStatus, Status, Spend, Raise, Exit, Loop, vaultVars, deployVars, Kept,
        OpenNeedsKeys, None, AllKeys
  <2>5. LabelsMean'
    BY <1>0, <1>14 DEF UnsealStatus, Status, Spend, Raise, Exit, Loop, vaultVars, deployVars, Kept,
        LabelsMean, None, Procs, AllKeys, HasJoined
  <2> QED BY <2>1, <2>2, <2>3, <2>4, <2>5 DEF Kept
<1>15. ASSUME NEW p \in Procs, ReadKey(p) PROVE Kept'
  <2>1. OneCluster'
    BY <1>0, <1>15 DEF ReadKey, Raise, Exit, vaultVars, deployVars, Kept, OneCluster, None, Procs,
        Entries, BootstrappedAt, LeaderIp, InPutOrder, OnlyStoredShares, OpenNeedsKeys,
        LabelsMean
  <2>2. InPutOrder'
    BY <1>0, <1>15 DEF ReadKey, Raise, Exit, vaultVars, deployVars, Kept, InPutOrder, OneCluster,
        OnlyStoredShares, OpenNeedsKeys, LabelsMean, None, Procs, Entries, hookVars,
        BootstrappedAt, BootstrappedFlag, LeaderIp, AllKeys, HasJoined
  <2>3. OnlyStoredShares'
    BY <1>0, <1>15 DEF ReadKey, Raise, Exit, vaultVars, deployVars, Kept, OnlyStoredShares, None
  <2>4. OpenNeedsKeys'
    BY <1>0, <1>15 DEF ReadKey, Raise, Exit, vaultVars, deployVars, Kept, OpenNeedsKeys, None, AllKeys
  <2>5. LabelsMean'
    BY <1>0, <1>15 DEF ReadKey, Raise, Exit, vaultVars, deployVars, Kept, LabelsMean, None, Procs,
        AllKeys, HasJoined, BootstrappedFlag, BootstrappedAt, Entries, LeaderIp,
        OneCluster, InPutOrder, OnlyStoredShares, OpenNeedsKeys
  <2> QED BY <2>1, <2>2, <2>3, <2>4, <2>5 DEF Kept
<1>16. ASSUME NEW p \in Procs, SubmitKey(p) PROVE Kept'
  <2>1. OneCluster'
    BY <1>0, <1>16 DEF SubmitKey, RequiredKeys, Raise, Exit, Loop, Goto, HealthInitialized, Answers, Operational,
        deployVars, Kept, OneCluster, None, Procs
  <2>2. InPutOrder'
    <3>1. InPutOrder /\ store' = store
      BY <1>0, <1>16 DEF SubmitKey, Kept
    <3>2. pc[p] = "submit" /\ pc'[p] # "store" /\ \A q \in Procs \ {p} : pc'[q] = pc[q]
      BY <1>16 DEF SubmitKey, Raise, Exit, Loop, Goto, Procs
    <3>3. \A q \in Procs \ {p} : idx'[q] = idx[q]
      BY <1>16 DEF SubmitKey, Raise, Exit, Loop, Goto, Procs
    <3>4. minted' = minted \/ (p = "deploy" /\ minted' = None)
      BY <1>16 DEF SubmitKey, Raise, Exit, Loop, Goto
    <3>5. CASE p = "deploy"
      BY <3>1, <3>2, <3>4, <3>5 DEF InPutOrder
    <3>6. CASE p # "deploy"
      <4>1. pc'["deploy"] = pc["deploy"] /\ idx'["deploy"] = idx["deploy"] /\ minted' = minted
        BY <3>2, <3>3, <3>4, <3>6 DEF Procs
      <4> QED BY <3>1, <4>1 DEF InPutOrder
    <3> QED BY <3>5, <3>6
  <2>3. OnlyStoredShares'
    <3> DEFINE n == at[p]
               new == <<idx[p], share[p]>>
    <3>1. OnlyStoredShares /\ inits' = inits /\ store' = store
      BY <1>0, <1>16 DEF SubmitKey, RequiredKeys, Kept
    <3>2. new[1] <= Threshold /\ new[2] = inits /\ store[new[1]] # None
      BY <1>0, <1>16 DEF SubmitKey, RequiredKeys, Kept, OneCluster, LabelsMean
    <3>3. \/ UNCHANGED progress
          \/ progress' = [progress EXCEPT ![n] = {}]
          \/ progress' = [progress EXCEPT ![n] = progress[n] \cup {new}]
      BY <1>16 DEF SubmitKey, RequiredKeys, Submitted
    <3>4. \A m \in Nodes : progress'[m] \subseteq progress[m] \cup {new}
      <4> HIDE DEF new
      <4>1. CASE UNCHANGED progress
        BY <4>1
      <4>2. CASE progress' = [progress EXCEPT ![n] = {}]
        BY <4>2
      <4>3. CASE progress' = [progress EXCEPT ![n] = progress[n] \cup {new}]
        BY <4>3
      <4> QED BY <3>3, <4>1, <4>2, <4>3
    <3>5. \A m \in Nodes : \A s \in progress'[m] : s \in progress[m] \/ s = new
      BY <3>4
    <3> HIDE DEF new
    <3> QED BY <3>1, <3>2, <3>5 DEF OnlyStoredShares
  <2>4. OpenNeedsKeys'
    <3> DEFINE n == at[p]
               all == Submitted(n, idx[p], share[p])
    <3>1. OpenNeedsKeys /\ store' = store /\ disk' = disk
      BY <1>0, <1>16 DEF SubmitKey, RequiredKeys, Kept
    <3>2. CASE UNCHANGED sealed
      BY <3>1, <3>2 DEF OpenNeedsKeys, AllKeys
    <3>3. CASE sealed' = [sealed EXCEPT ![n] = FALSE] /\ HealthInitialized(n)
               /\ Enough(n, idx[p], share[p])
      <4>1. \A s \in all : s[1] \in 1..Threshold /\ s = <<s[1], inits>> /\ store[s[1]] # None
        <5>1. idx[p] \in 1..Threshold /\ share[p] = inits /\ store[idx[p]] # None
          BY <1>0, <1>16 DEF SubmitKey, RequiredKeys, Kept, OneCluster, LabelsMean
        <5>2. \A s \in progress[n] : s[1] \in 1..Threshold /\ s = <<s[1], inits>> /\ store[s[1]] # None
          <6>1. progress[n] \subseteq (1..Shares) \X Clusters
            OBVIOUS
          <6> QED BY <1>0, <6>1 DEF Kept, OnlyStoredShares
        <5> QED BY <5>1, <5>2 DEF Submitted
      <4>2. Cardinality(all) >= Threshold
        BY <3>3 DEF Enough
      <4>3. \A i \in 1..Threshold : <<i, inits>> \in all
        <5> HIDE DEF all
        <5>1. \A s \in all : \E i \in 1..Threshold : s = <<i, inits>>
          BY <4>1
        <5> QED BY <4>2, <5>1, EnoughShares
      <4>4. AllKeys
        <5> HIDE DEF all
        <5> QED BY <4>1, <4>3 DEF AllKeys
      <4> QED BY <3>1, <3>3, <4>4 DEF OpenNeedsKeys, AllKeys, HealthInitialized
    <3> QED BY <1>16, <3>2, <3>3 DEF SubmitKey, RequiredKeys, Operational
  <2>5. LabelsMean'
    BY <1>0, <1>16 DEF SubmitKey, RequiredKeys, Raise, Exit, Loop, Goto, HealthInitialized, Answers, Operational,
        deployVars, Kept, LabelsMean, None, Procs, AllKeys, HasJoined
  <2> QED BY <2>1, <2>2, <2>3, <2>4, <2>5 DEF Kept
<1>17. ASSUME NEW p \in Procs, Settle(p) PROVE Kept'
  <2>1. OneCluster'
    BY <1>0, <1>17 DEF Settle, Goto, vaultVars, deployVars, Kept, OneCluster, None, Procs
  <2>2. InPutOrder'
    BY <1>0, <1>17 DEF Settle, Goto, vaultVars, deployVars, Kept, InPutOrder, None
  <2>3. OnlyStoredShares'
    BY <1>0, <1>17 DEF Settle, Goto, vaultVars, deployVars, Kept, OnlyStoredShares, None
  <2>4. OpenNeedsKeys'
    BY <1>0, <1>17 DEF Settle, Goto, vaultVars, deployVars, Kept, OpenNeedsKeys, None, AllKeys
  <2>5. LabelsMean'
    BY <1>0, <1>17 DEF Settle, Goto, vaultVars, deployVars, Kept, LabelsMean, None, Procs, AllKeys,
        HasJoined
  <2> QED BY <2>1, <2>2, <2>3, <2>4, <2>5 DEF Kept
<1>18. ASSUME NEW p \in Procs, Verify(p) PROVE Kept'
  <2>1. OneCluster'
    BY <1>0, <1>18 DEF Verify, Status, Spend, Raise, Exit, Goto, vaultVars, deployVars, Kept,
        OneCluster, None, Procs
  <2>2. InPutOrder'
    BY <1>0, <1>18 DEF Verify, Status, Spend, Raise, Exit, Goto, vaultVars, deployVars, Kept,
        InPutOrder, OneCluster, OnlyStoredShares, OpenNeedsKeys, LabelsMean, None,
        Procs, Entries, hookVars, BootstrappedAt, BootstrappedFlag, LeaderIp, AllKeys,
        HasJoined
  <2>3. OnlyStoredShares'
    BY <1>0, <1>18 DEF Verify, Status, Spend, Raise, Exit, Goto, vaultVars, deployVars, Kept,
        OnlyStoredShares, None
  <2>4. OpenNeedsKeys'
    BY <1>0, <1>18 DEF Verify, Status, Spend, Raise, Exit, Goto, vaultVars, deployVars, Kept,
        OpenNeedsKeys, None, AllKeys
  <2>5. LabelsMean'
    <3>1. LabelsMean /\ UNCHANGED <<store, disk, lost, at>>
      BY <1>0, <1>18 DEF Verify, Raise, Exit, Goto, vaultVars, Kept
    <3>2. pc[p] = "verify" /\ pc'[p] \in {"idle", "operational"}
          /\ \A q \in Procs \ {p} : pc'[q] = pc[q] /\ idx'[q] = idx[q]
      BY <1>18 DEF Verify, Raise, Exit, Goto, Procs
    <3> HIDE DEF TypeInv, TypeOK, LoopOK
    <3>3. \A q \in Procs :
            \/ pc'[q] \in {"idle", "operational"} /\ pc[q] = "verify"
            \/ pc'[q] = pc[q] /\ idx'[q] = idx[q]
      <4> TAKE q \in Procs
      <4>1. CASE q = p
        BY <3>2, <4>1
      <4>2. CASE q # p
        BY <3>2, <4>2
      <4> QED BY <4>1, <4>2
    <3> QED BY <3>1, <3>3 DEF LabelsMean, Procs, AllKeys, HasJoined
  <2> QED BY <2>1, <2>2, <2>3, <2>4, <2>5 DEF Kept
<1>19. ASSUME NEW p \in Procs, WaitOperational(p) PROVE Kept'
  <2>1. OneCluster'
    BY <1>0, <1>19 DEF WaitOperational, Return, Exit, Goto, Operational, HealthInitialized, Answers,
        vaultVars, deployVars, Kept, OneCluster, None, Procs
  <2>2. InPutOrder'
    BY <1>0, <1>19 DEF WaitOperational, Return, Exit, Goto, Operational, HealthInitialized, Answers,
        vaultVars, deployVars, Kept, InPutOrder, OneCluster, OnlyStoredShares,
        OpenNeedsKeys, LabelsMean, None, Procs, Entries, hookVars, BootstrappedAt,
        BootstrappedFlag, LeaderIp, AllKeys, HasJoined
  <2>3. OnlyStoredShares'
    BY <1>0, <1>19 DEF WaitOperational, Return, Exit, Goto, Operational, HealthInitialized, Answers,
        vaultVars, deployVars, Kept, OnlyStoredShares, None
  <2>4. OpenNeedsKeys'
    BY <1>0, <1>19 DEF WaitOperational, Return, Exit, Goto, Operational, HealthInitialized, Answers,
        vaultVars, deployVars, Kept, OpenNeedsKeys, None, AllKeys
  <2>5. LabelsMean'
    BY <1>0, <1>19 DEF WaitOperational, Return, Exit, Goto, Operational, HealthInitialized, Answers,
        vaultVars, deployVars, Kept, LabelsMean, None, Procs, AllKeys, HasJoined,
        BootstrappedFlag, BootstrappedAt, Entries, LeaderIp, OneCluster, InPutOrder,
        OnlyStoredShares, OpenNeedsKeys
  <2> QED BY <2>1, <2>2, <2>3, <2>4, <2>5 DEF Kept
<1>20. ASSUME NEW p \in Procs, Timeout(p) PROVE Kept'
  <2>1. OneCluster'
    BY <1>0, <1>20 DEF Timeout, Spend, Raise, Exit, vaultVars, deployVars, Kept, OneCluster, None,
        Procs
  <2>2. InPutOrder'
    BY <1>0, <1>20 DEF Timeout, Spend, Raise, Exit, vaultVars, deployVars, Kept, InPutOrder, None
  <2>3. OnlyStoredShares'
    BY <1>0, <1>20 DEF Timeout, Spend, Raise, Exit, vaultVars, deployVars, Kept, OnlyStoredShares, None
  <2>4. OpenNeedsKeys'
    BY <1>0, <1>20 DEF Timeout, Spend, Raise, Exit, vaultVars, deployVars, Kept, OpenNeedsKeys, None,
        AllKeys
  <2>5. LabelsMean'
    BY <1>0, <1>20 DEF Timeout, Spend, Raise, Exit, vaultVars, deployVars, Kept, LabelsMean, None,
        Procs, AllKeys, HasJoined
  <2> QED BY <2>1, <2>2, <2>3, <2>4, <2>5 DEF Kept
<1>21. ASSUME NEW p \in Procs, HookFails(p) PROVE Kept'
  <2>1. OneCluster'
    BY <1>0, <1>21 DEF HookFails, Spend, Raise, Exit, vaultVars, deployVars, Kept, OneCluster, None,
        Procs
  <2>2. InPutOrder'
    BY <1>0, <1>21 DEF HookFails, Spend, Raise, Exit, vaultVars, deployVars, Kept, InPutOrder, None
  <2>3. OnlyStoredShares'
    BY <1>0, <1>21 DEF HookFails, Spend, Raise, Exit, vaultVars, deployVars, Kept, OnlyStoredShares,
        None
  <2>4. OpenNeedsKeys'
    BY <1>0, <1>21 DEF HookFails, Spend, Raise, Exit, vaultVars, deployVars, Kept, OpenNeedsKeys, None,
        AllKeys
  <2>5. LabelsMean'
    BY <1>0, <1>21 DEF HookFails, Spend, Raise, Exit, vaultVars, deployVars, Kept, LabelsMean, None,
        Procs, AllKeys, HasJoined
  <2> QED BY <2>1, <2>2, <2>3, <2>4, <2>5 DEF Kept
<1>22. ASSUME NEW n \in Nodes, Boot(n) PROVE Kept'
  <2>1. OneCluster'
    BY <1>0, <1>22 DEF Boot, hookVars, deployVars, Kept, OneCluster, None, Procs
  <2>2. InPutOrder'
    BY <1>0, <1>22 DEF Boot, hookVars, deployVars, Kept, InPutOrder, None
  <2>3. OnlyStoredShares'
    BY <1>0, <1>22 DEF Boot, hookVars, deployVars, Kept, OnlyStoredShares, None
  <2>4. OpenNeedsKeys'
    BY <1>0, <1>22 DEF Boot, hookVars, deployVars, Kept, OpenNeedsKeys, None, AllKeys
  <2>5. LabelsMean'
    BY <1>0, <1>22 DEF Boot, hookVars, deployVars, Kept, LabelsMean, None, Procs, AllKeys, HasJoined
  <2> QED BY <2>1, <2>2, <2>3, <2>4, <2>5 DEF Kept
<1>23. ASSUME NEW n \in Nodes, Join(n) PROVE Kept'
  <2>1. OneCluster'
    BY <1>0, <1>23 DEF Join, Operational, HealthInitialized, Answers, hookVars, deployVars, Kept,
        OneCluster, None, Procs
  <2>2. InPutOrder'
    BY <1>0, <1>23 DEF Join, Operational, HealthInitialized, Answers, hookVars, deployVars, Kept,
        InPutOrder, None
  <2>3. OnlyStoredShares'
    BY <1>0, <1>23 DEF Join, Operational, HealthInitialized, Answers, hookVars, deployVars, Kept,
        OnlyStoredShares, None
  <2>4. OpenNeedsKeys'
    BY <1>0, <1>23 DEF Join, Operational, HealthInitialized, Answers, hookVars, deployVars, Kept,
        OpenNeedsKeys, None, AllKeys
  <2>5. LabelsMean'
    BY <1>0, <1>23 DEF Join, Operational, HealthInitialized, Answers, hookVars, deployVars, Kept,
        LabelsMean, None, Procs, AllKeys, HasJoined
  <2> QED BY <2>1, <2>2, <2>3, <2>4, <2>5 DEF Kept
<1>24. ASSUME NEW n \in Nodes, StartUnseal(n) PROVE Kept'
  <2>1. OneCluster'
    BY <1>0, <1>24 DEF StartUnseal, vaultVars, deployVars, Kept, OneCluster, None, Procs
  <2>2. InPutOrder'
    BY <1>0, <1>24 DEF StartUnseal, vaultVars, deployVars, Kept, InPutOrder, None
  <2>3. OnlyStoredShares'
    BY <1>0, <1>24 DEF StartUnseal, vaultVars, deployVars, Kept, OnlyStoredShares, None
  <2>4. OpenNeedsKeys'
    BY <1>0, <1>24 DEF StartUnseal, vaultVars, deployVars, Kept, OpenNeedsKeys, None, AllKeys
  <2>5. LabelsMean'
    BY <1>0, <1>24 DEF StartUnseal, vaultVars, deployVars, Kept, LabelsMean, None, Procs, AllKeys,
        HasJoined
  <2> QED BY <2>1, <2>2, <2>3, <2>4, <2>5 DEF Kept
<1>25. ASSUME NEW n \in Nodes, Restart(n) PROVE Kept'
  <2>1. OneCluster'
    BY <1>0, <1>25 DEF Restart, Spend, hookVars, deployVars, Kept, OneCluster, None, Procs
  <2>2. InPutOrder'
    BY <1>0, <1>25 DEF Restart, Spend, hookVars, deployVars, Kept, InPutOrder, None
  <2>3. OnlyStoredShares'
    BY <1>0, <1>25 DEF Restart, Spend, hookVars, deployVars, Kept, OnlyStoredShares, None
  <2>4. OpenNeedsKeys'
    BY <1>0, <1>25 DEF Restart, Spend, hookVars, deployVars, Kept, OpenNeedsKeys, None, AllKeys
  <2>5. LabelsMean'
    BY <1>0, <1>25 DEF Restart, Spend, hookVars, deployVars, Kept, LabelsMean, None, Procs, AllKeys,
        HasJoined
  <2> QED BY <2>1, <2>2, <2>3, <2>4, <2>5 DEF Kept
<1>26. ASSUME NEW n \in Nodes, LoseDisk(n) PROVE Kept'
  <2>1. OneCluster'
    BY <1>0, <1>26 DEF LoseDisk, hookVars, deployVars, Kept, OneCluster, None, Procs
  <2>2. InPutOrder'
    BY <1>0, <1>26 DEF LoseDisk, hookVars, deployVars, Kept, InPutOrder, None
  <2>3. OnlyStoredShares'
    BY <1>0, <1>26 DEF LoseDisk, hookVars, deployVars, Kept, OnlyStoredShares, None
  <2>4. OpenNeedsKeys'
    BY <1>0, <1>26 DEF LoseDisk, hookVars, deployVars, Kept, OpenNeedsKeys, None, AllKeys
  <2>5. LabelsMean'
    BY <1>0, <1>26 DEF LoseDisk, hookVars, deployVars, Kept, LabelsMean, None, Procs, AllKeys,
        HasJoined
  <2> QED BY <2>1, <2>2, <2>3, <2>4, <2>5 DEF Kept
<1>27. CASE Recover
  <2>0. \A e \in Entries : store[e] = None /\ store'[e] = None
    <3>1. /\ InPutOrder /\ store[1] = None
      BY <1>0, <1>27 DEF Recover, Kept
    <3>2. \A e \in 1..LeaderIp : store[e] = None
      <4>1. 1 \in 1..LeaderIp /\ \A e \in 1..LeaderIp : e = 1 \/ 1 < e
        BY DEF LeaderIp
      <4> QED BY <3>1, <4>1 DEF InPutOrder
    <3>3. \A e \in Entries : e \in 1..LeaderIp \/ e = BootstrappedFlag \/ e = BootstrappedAt
      BY DEF Entries, LeaderIp, BootstrappedFlag, BootstrappedAt
    <3>4. \A e \in Entries : store[e] = None
      BY <3>1, <3>2, <3>3 DEF InPutOrder
    <3> QED BY <1>27, <3>4 DEF Recover
  <2>1. OneCluster'
    BY <1>0, <2>0, <1>27 DEF Recover, hookVars, deployVars, Kept, OneCluster, None, Procs, Entries,
        BootstrappedAt, LeaderIp, InPutOrder, OnlyStoredShares, OpenNeedsKeys,
        LabelsMean
  <2>2. InPutOrder'
    BY <1>0, <2>0, <1>27 DEF Recover, hookVars, deployVars, Kept, InPutOrder, None, LeaderIp, Entries,
        BootstrappedFlag, BootstrappedAt
  <2>3. OnlyStoredShares'
    BY <1>0, <2>0, <1>27 DEF Recover, hookVars, deployVars, Kept, OnlyStoredShares, None
  <2>4. OpenNeedsKeys'
    BY <1>0, <1>27 DEF Recover, hookVars, deployVars, Kept, OpenNeedsKeys, None, AllKeys
  <2>5. LabelsMean'
    BY <1>0, <2>0, <1>27 DEF Recover, hookVars, deployVars, Kept, LabelsMean, None, Procs, AllKeys,
        HasJoined, BootstrappedFlag, BootstrappedAt, Entries, LeaderIp, OneCluster,
        InPutOrder, OnlyStoredShares, OpenNeedsKeys
  <2> QED BY <2>1, <2>2, <2>3, <2>4, <2>5 DEF Kept
<1> QED BY <1>1, <1>2, <1>3, <1>4, <1>5, <1>6, <1>7, <1>8, <1>9, <1>10, <1>11, <1>12, <1>13, <1>14, <1>15, <1>16, <1>17, <1>18, <1>19, <1>20, <1>21, <1>22, <1>23, <1>24, <1>25, <1>26, <1>27 DEF Next, DeployStep, HookStep, Environment

-----------------------------------------------------------------------------
\* What the inductive invariant is for.

\* The inductive invariant is strong enough for the four invariants of the hooks.
LEMMA CustodyImplies ==
    TypeInv /\ Custody =>
        /\ UnsealedIsRecoverable
        /\ InitializedMeansEscrowed
        /\ BootstrappedMeansOneCluster
        /\ FollowersFindKeys
<1> SUFFICES ASSUME TypeInv, Custody, Leader \notin lost
             PROVE  /\ UnsealedIsRecoverable
                    /\ InitializedMeansEscrowed
                    /\ BootstrappedMeansOneCluster
                    /\ FollowersFindKeys
  BY DEF UnsealedIsRecoverable, InitializedMeansEscrowed, BootstrappedMeansOneCluster,
         FollowersFindKeys
<1>0. OneCluster /\ InPutOrder /\ OpenNeedsKeys /\ LabelsMean /\ LoopOK
  BY DEF Custody
<1>1. \A i \in 1..Threshold : i \in Entries
  BY ConstantFacts DEF Entries, BootstrappedAt
<1>2. UnsealedIsRecoverable
  BY <1>0, <1>1 DEF UnsealedIsRecoverable, OneCluster, OpenNeedsKeys, AllKeys
<1>3. InitializedMeansEscrowed
  <2>1. ASSUME store[InitializedFlag] # None, NEW e \in 1..ClusterThreshold
        PROVE  store[e] # None /\ store[e] = disk[Leader]
    <3>1. /\ InitializedFlag \in 1..LeaderIp /\ e \in 1..LeaderIp /\ e < InitializedFlag
          /\ InitializedFlag \in Entries /\ e \in Entries
      BY ConstantFacts DEF InitializedFlag, ClusterThreshold, LeaderIp, Entries, BootstrappedAt
    <3>2. store[e] # None
      BY <1>0, <2>1, <3>1 DEF InPutOrder
    <3> QED BY <1>0, <3>1, <3>2, ConstantFacts DEF OneCluster
  <2> QED BY <2>1 DEF InitializedMeansEscrowed
<1>4. BootstrappedMeansOneCluster
  <2>1. ASSUME store[BootstrappedFlag] # None, NEW n \in Nodes \ lost
        PROVE  disk[n] # None /\ disk[n] = disk[Leader]
    <3>1. disk[n] # None
      BY <1>0, <2>1 DEF LabelsMean, HasJoined
    <3> QED BY <1>0, <3>1, ConstantFacts DEF OneCluster
  <2> QED BY <2>1 DEF BootstrappedMeansOneCluster
<1>5. FollowersFindKeys
  <2>1. 1 \in 1..Threshold
    BY ConstantFacts
  <2> QED BY <1>0, <2>1 DEF FollowersFindKeys, LabelsMean, AllKeys, LoopOK
<1> QED BY <1>2, <1>3, <1>4, <1>5

\* The inductive invariant: while vault_0 keeps its disk, one cluster, its keys
\* stored in the order of the puts, and every hook knowing what its label says.
THEOREM CustodyCorrect == Spec => [](TypeInv /\ Custody)
<1>1. Init => TypeInv /\ Custody
  BY InitTypeInv, InitCustody
<1>2. TypeInv /\ Custody /\ [Next]_vars => (TypeInv /\ Custody)'
  <2> SUFFICES ASSUME TypeInv, Custody, [Next]_vars PROVE TypeInv' /\ Custody'
    OBVIOUS
  <2>1. TypeInv'
    BY NextTypeInv
  <2>2. Leader \notin lost' => Kept'
    BY <2>1, NextCustody
  <2> QED BY <2>1, <2>2 DEF Custody, Kept, TypeInv, Leader
<1> QED BY <1>1, <1>2, PTL DEF Spec

\* A node is only open when the KV store holds the keys to open it again.
THEOREM UnsealedRecoverable == Spec => []UnsealedIsRecoverable
BY CustodyCorrect, CustodyImplies, PTL

\* cluster_initialized comes after everything the init returned.
THEOREM InitializedEscrowed == Spec => []InitializedMeansEscrowed
BY CustodyCorrect, CustodyImplies, PTL

\* cluster_bootstrapped is only recorded of nodes of one cluster.
THEOREM BootstrappedOneCluster == Spec => []BootstrappedMeansOneCluster
BY CustodyCorrect, CustodyImplies, PTL

\* Hooks on followers never miss a key.
THEOREM FollowersServed == Spec => []FollowersFindKeys
BY CustodyCorrect, CustodyImplies, PTL

-----------------------------------------------------------------------------
\* The hooks keep the promise of KeyEscrow.

\* A put of the init response is a deposit, or rewrites a part that is there.
LEMMA StoreDeposits ==
    ASSUME TypeOK, Custody, Leader \notin lost, StoreSecret
    PROVE  [Escrow!Next]_(Escrow!vars)
<1> DEFINE parts == {e \in 1..LeaderIp : store[e] # None}
<1>1. OneCluster /\ InPutOrder /\ LabelsMean
  BY DEF Custody
<1>0. PICK k \in 1..LeaderIp : k = idx["deploy"]
  BY <1>1 DEF StoreSecret, InPutOrder
<1>2. minted # None /\ store' = [store EXCEPT ![k] = minted] /\ UNCHANGED <<disk, sealed>>
  BY <1>0, <1>1 DEF StoreSecret, InPutOrder, vaultVars
<1>3. 1..LeaderIp \subseteq Entries
  BY ConstantFacts DEF Entries, LeaderIp, BootstrappedAt
<1>4. \A e \in 1..LeaderIp : store'[e] # None <=> (e = k \/ store[e] # None)
  BY <1>2, <1>3 DEF TypeOK
<1>5. CASE store[k] # None
  <2>1. \A e \in 1..LeaderIp : store'[e] # None <=> store[e] # None
    BY <1>4, <1>5
  <2> QED BY <1>2, <2>1 DEF Escrow!vars
<1>6. CASE store[k] = None
  <2>1. \A e \in 1..LeaderIp : store[e] # None <=> e < k
    <3> SUFFICES ASSUME NEW e \in 1..LeaderIp PROVE store[e] # None <=> e < k
      OBVIOUS
    <3>1. e < k => store[e] # None
      BY <1>0, <1>1 DEF InPutOrder, StoreSecret
    <3>2. k < e => store[e] = None
      BY <1>1, <1>2, <1>6 DEF InPutOrder
    <3>3. e \in Nat /\ k \in Nat
      BY <1>2, ConstantFacts DEF LeaderIp
    <3> QED BY <3>1, <3>2, <3>3, <1>6
  <2>2. parts = {q \in 1..LeaderIp : q < k}
    BY <2>1
  <2>3. {e \in 1..LeaderIp : store'[e] # None} = parts \cup {k}
    BY <1>2, <1>4
  <2>4. disk[Leader] # None
    BY <1>1, <1>2 DEF OneCluster, StoreSecret
  <2>5. Escrow!Deposit(k)
    BY <1>2, <2>2, <2>3, <2>4 DEF Escrow!Deposit
  <2> QED BY <1>2, <2>5 DEF Escrow!Next
<1> QED BY <1>5, <1>6

\* While vault_0 keeps its disk, every step of the hooks is one of KeyEscrow's
\* or leaves its three variables alone.
LEMMA StepKeepsEscrow ==
    ASSUME TypeInv, Custody, Leader \notin lost, Leader \notin lost', [Next]_vars,
           TypeInv', Custody'
    PROVE  [Escrow!Next]_(Escrow!vars)
<1>1. OneCluster /\ InPutOrder /\ OpenNeedsKeys /\ LabelsMean
      /\ OpenNeedsKeys'
  BY DEF Custody, Leader
<1>2. TypeOK /\ TypeOK'
  BY DEF TypeInv
<1>3. 1..Threshold \subseteq 1..LeaderIp /\ 1 \in 1..Threshold
  BY ConstantFacts DEF LeaderIp
<1>s. ASSUME UNCHANGED <<disk, store, sealed>>
      PROVE  [Escrow!Next]_(Escrow!vars)
  BY <1>s DEF Escrow!vars
<1>c. ASSUME NEW n \in Nodes, UNCHANGED <<disk[Leader], store>>,
             sealed' = [sealed EXCEPT ![n] = TRUE]
      PROVE  [Escrow!Next]_(Escrow!vars)
  <2>1. {m \in Nodes : ~sealed'[m]} = {m \in Nodes : ~sealed[m]} \ {n}
    BY <1>c, <1>2 DEF TypeOK
  <2>2. Escrow!Close(n)
    BY <1>c, <2>1 DEF Escrow!Close
  <2> QED BY <2>2 DEF Escrow!Next
<1>4. CASE InitVault
  <2>1. CASE UNCHANGED <<disk, sealed, store>>
    BY <2>1, <1>s
  <2>2. CASE /\ disk[Leader] = None /\ inits < MaxInits
             /\ disk' = [disk EXCEPT ![Leader] = inits + 1]
             /\ UNCHANGED <<sealed, store>>
    <3>1. \A e \in 1..LeaderIp : store[e] = None
      BY <1>1, <2>2, ConstantFacts DEF OneCluster, Entries, LeaderIp, BootstrappedAt
    <3>2. \A n \in Nodes : sealed[n]
      BY <1>1, <2>2 DEF OneCluster, OpenNeedsKeys
    <3>3. disk'[Leader] \in Clusters
      BY <1>2, <2>2, ConstantFacts DEF TypeOK, Clusters
    <3>4. Escrow!Mint
      BY <2>2, <3>1, <3>2, <3>3 DEF Escrow!Mint
    <3> QED BY <3>4 DEF Escrow!Next
  <2> QED BY <1>1, <1>4, <2>1, <2>2 DEF InitVault, LabelsMean
<1>5. CASE StoreSecret
  BY <1>2, <1>5, StoreDeposits
<1>6. CASE MarkBootstrapped
  <2>1. idx["deploy"] \in {BootstrappedFlag, BootstrappedAt}
    BY <1>1, <1>6 DEF MarkBootstrapped, LabelsMean
  <2>2. idx["deploy"] \notin 1..LeaderIp
    BY <2>1, ConstantFacts DEF BootstrappedFlag, BootstrappedAt, LeaderIp
  <2>3. \A e \in 1..LeaderIp : store'[e] = store[e]
    BY <1>2, <1>6, <2>2 DEF MarkBootstrapped, TypeOK
  <2>4. UNCHANGED <<disk, sealed>>
    BY <1>6 DEF MarkBootstrapped, vaultVars
  <2> QED BY <2>3, <2>4 DEF Escrow!vars
<1>7. ASSUME NEW p \in Procs, SubmitKey(p)
      PROVE  [Escrow!Next]_(Escrow!vars)
  <2>0. PICK n \in Nodes : n = at[p]
    BY <1>2 DEF TypeOK
  <2>1. UNCHANGED <<disk, store>>
    BY <1>7 DEF SubmitKey
  <2>2. CASE UNCHANGED sealed
    BY <2>1, <2>2, <1>s
  <2>3. CASE sealed' = [sealed EXCEPT ![n] = FALSE]
    <3>1. {m \in Nodes : ~sealed'[m]} = {m \in Nodes : ~sealed[m]} \cup {n}
      BY <2>1, <2>3, <1>2 DEF TypeOK
    <3>2. ~sealed'[n]
      BY <2>1, <2>3, <1>2 DEF TypeOK
    <3>3. disk'[n] # None /\ AllKeys'
      BY <1>1, <2>1, <3>2 DEF OpenNeedsKeys
    <3>4. 1..Threshold \subseteq {e \in 1..LeaderIp : store[e] # None}
      BY <1>3, <2>1, <3>3 DEF AllKeys
    <3>5. disk[Leader] # None
      BY <1>1, <2>1, <3>3 DEF OneCluster
    <3>6. Escrow!Open(n)
      BY <2>1, <3>1, <3>4, <3>5 DEF Escrow!Open
    <3> QED BY <2>1, <3>6 DEF Escrow!Next
  <2> QED BY <1>7, <2>0, <2>2, <2>3 DEF SubmitKey
<1>8. CASE Recover
  <2>1. \A e \in 1..LeaderIp : store[e] = None
    BY <1>1, <1>3, <1>8 DEF Recover, InPutOrder
  <2>2. \A n \in Nodes : sealed[n]
    BY <1>1, <1>3, <1>8 DEF Recover, OpenNeedsKeys, AllKeys
  <2>3. /\ disk'[Leader] = None
        /\ \A e \in 1..LeaderIp : store'[e] = None
        /\ \A n \in Nodes : sealed'[n]
    BY <1>8, <2>1, ConstantFacts DEF Recover, Entries, LeaderIp, BootstrappedAt
  <2>4. Escrow!GiveUp
    BY <2>1, <2>2, <2>3 DEF Escrow!GiveUp
  <2> QED BY <2>4 DEF Escrow!Next
<1>9. CASE StartAllocation
  <2>1. order[turn] \in Nodes
    BY <1>2 DEF TypeOK
  <2> QED BY <1>9, <1>s, <1>c, <2>1 DEF StartAllocation
<1>10. ASSUME NEW n \in Nodes, Restart(n) PROVE [Escrow!Next]_(Escrow!vars)
  BY <1>10, <1>c DEF Restart
<1>11. ASSUME NEW n \in Nodes, LoseDisk(n) PROVE [Escrow!Next]_(Escrow!vars)
  <2>1. n # Leader
    BY <1>11 DEF LoseDisk
  <2>2. UNCHANGED <<disk[Leader], store>>
    BY <1>11, <2>1, <1>2, ConstantFacts DEF LoseDisk, TypeOK
  <2> QED BY <1>11, <2>2, <1>c DEF LoseDisk
<1>12. ASSUME NEW n \in Nodes, Join(n) PROVE [Escrow!Next]_(Escrow!vars)
  <2>1. UNCHANGED <<disk[Leader], store, sealed>>
    BY <1>12, <1>2, ConstantFacts DEF Join, TypeOK
  <2> QED BY <2>1 DEF Escrow!vars
<1>13. CASE UNCHANGED vars
  BY <1>13, <1>s DEF vars, vaultVars
<1>14. CASE StartDeploy \/ WaitLeader \/ WaitInitialized \/ ReadFlag \/ Survey
  BY <1>14, <1>s DEF StartDeploy, WaitLeader, WaitInitialized, ReadFlag, Survey, vaultVars
<1>15. ASSUME NEW p \in Procs,
              \/ WaitApi(p) \/ CheckStatus(p) \/ EnsureKeysPresent(p) \/ UnsealStatus(p)
              \/ ReadKey(p) \/ Settle(p) \/ Verify(p) \/ WaitOperational(p) \/ Timeout(p)
              \/ HookFails(p)
       PROVE  [Escrow!Next]_(Escrow!vars)
  BY <1>15, <1>s DEF WaitApi, CheckStatus, EnsureKeysPresent, UnsealStatus, ReadKey, Settle,
                     Verify, WaitOperational, Timeout, HookFails, vaultVars
<1>16. ASSUME NEW n \in Nodes, StartUnseal(n) \/ Boot(n)
       PROVE  [Escrow!Next]_(Escrow!vars)
  BY <1>16, <1>s DEF StartUnseal, Boot, vaultVars
<1> QED BY <1>4, <1>5, <1>6, <1>7, <1>8, <1>9, <1>10, <1>11, <1>12, <1>13, <1>14, <1>15, <1>16
        DEF Next, DeployStep, HookStep, Environment

\* The hooks implement KeyEscrow if vault_0 cannot lose its disk: they make one
\* cluster, store every part of its init response in order, open a node only
\* with its keys in the KV store, and give a cluster up only before any of that.
THEOREM KeysEscrowed == Leader \notin Losable => (Spec => KeysAreEscrowed)
<1> SUFFICES ASSUME Leader \notin Losable PROVE Spec => KeysAreEscrowed
  OBVIOUS
<1>1. Init => Escrow!Init
  <2> SUFFICES ASSUME Init PROVE Escrow!Init
    OBVIOUS
  <2>1. disk[Leader] = None /\ \A n \in Nodes : sealed[n]
    BY ConstantFacts DEF Init
  <2>2. \A e \in 1..LeaderIp : store[e] = None
    BY ConstantFacts DEF Init, Entries, LeaderIp, BootstrappedAt
  <2> QED BY <2>1, <2>2 DEF Escrow!Init
<1>2. TypeInv /\ Custody /\ TypeInv' /\ Custody' /\ [Next]_vars => [Escrow!Next]_(Escrow!vars)
  <2> SUFFICES ASSUME TypeInv, Custody, TypeInv', Custody', [Next]_vars
               PROVE  [Escrow!Next]_(Escrow!vars)
    OBVIOUS
  <2>1. Leader \notin lost /\ Leader \notin lost'
    BY DEF TypeInv, TypeOK
  <2> QED BY <2>1, StepKeepsEscrow
<1> QED BY <1>1, <1>2, CustodyCorrect, PTL DEF Spec, KeysAreEscrowed, Escrow!Spec

-----------------------------------------------------------------------------
\* The theorems about KeyEscrow, of the vault hooks.
Promise == INSTANCE KeyEscrowProofs WITH
    cluster  <- disk[Leader],
    escrow   <- {e \in 1..LeaderIp : store[e] # None},
    open     <- {n \in Nodes : ~sealed[n]},
    Parts    <- LeaderIp,
    Required <- Threshold

\* The two instances of KeyEscrow are one.
LEMMA SameEscrow == KeysAreEscrowed => Promise!Spec
<1>1. Escrow!Init => Promise!Init
  BY DEF Escrow!Init, Promise!Init
<1>2. [Escrow!Next]_(Escrow!vars) => [Promise!Next]_(Promise!vars)
  BY DEF Escrow!Next, Escrow!vars, Escrow!Mint, Escrow!Deposit, Escrow!Open, Escrow!Close,
     Escrow!GiveUp, Promise!Next, Promise!vars, Promise!Mint, Promise!Deposit, Promise!Open,
     Promise!Close, Promise!GiveUp
<1> QED BY <1>1, <1>2, PTL DEF KeysAreEscrowed, Escrow!Spec, Promise!Spec

\* From the first stored key on no hook, no recovery and no fault replaces the
\* cluster of vault_0 or removes one of its keys, if vault_0 keeps its disk.
THEOREM KeysBindForGood == Leader \notin Losable => (Spec => Promise!BoundForGood)
<1> SUFFICES ASSUME Leader \notin Losable PROVE Spec => Promise!BoundForGood
  OBVIOUS
<1>1. Spec => KeysAreEscrowed
  BY KeysEscrowed
<1>2. Promise!Spec => Promise!BoundForGood
  BY Promise!DepositBinds
<1> QED BY <1>1, <1>2, SameEscrow, PTL

-----------------------------------------------------------------------------
\* How far the run goes that finds InitOnlyOnFirstDeploy violated.

\* Only the loss of vault_0's disk makes a later deploy initialize again: a
\* garbled status, a restart or a hook that dies does not.
THEOREM InitsFirstOnly == Leader \notin Losable => (Spec => InitOnlyOnFirstDeploy)
<1> SUFFICES ASSUME Leader \notin Losable PROVE Spec => InitOnlyOnFirstDeploy
  OBVIOUS
<1>1. TypeInv /\ Custody /\ [Next]_vars => [inits' > inits => store[BootstrappedFlag] = None]_vars
  <2> SUFFICES ASSUME TypeInv, Custody, [Next]_vars, inits' > inits
               PROVE  store[BootstrappedFlag] = None
    OBVIOUS
  <2>1. Leader \notin lost /\ inits \in Int
    BY BoundsAssumption DEF TypeInv, TypeOK
  <2>2. inits' # inits
    BY <2>1
  <2>3. InitVault
    BY <2>2 DEF Next, DeployStep, HookStep, Environment, vars, vaultVars, hookVars, deployVars,
       StartDeploy, StartAllocation, StoreSecret, WaitLeader, WaitInitialized, ReadFlag, Survey,
       MarkBootstrapped, WaitApi, CheckStatus, EnsureKeysPresent, UnsealStatus, ReadKey, SubmitKey,
       Settle, Verify, WaitOperational, Timeout, Boot, Join, Restart, LoseDisk, Recover,
       StartUnseal, HookFails
  <2>4. disk[at["deploy"]] = None /\ pc["deploy"] = "init"
    BY <2>2, <2>3 DEF InitVault
  <2>5. disk[Leader] = None
    BY <2>1, <2>4 DEF Custody, LabelsMean
  <2>6. BootstrappedFlag \in Entries
    BY ConstantFacts DEF Entries, BootstrappedFlag, BootstrappedAt
  <2> QED BY <2>1, <2>5, <2>6 DEF Custody, OneCluster
<1> QED BY CustodyCorrect, <1>1, PTL DEF Spec, InitOnlyOnFirstDeploy

-----------------------------------------------------------------------------
\* The state repeated deploys do not leave, and the liveness properties name.

\* The puts stopped half way: no hook will go on with them.
Stuck == PartialEscrow /\ pc["deploy"] # "store"

\* What a step may do to the first keys and to vault_0's disk: a put stores,
\* a deploy on an empty vault_0 initializes, the recovery clears.
LEMMA KeysMove ==
    ASSUME TypeInv, Custody, Leader \notin lost', [Next]_vars
    PROVE  \/ UNCHANGED disk[Leader] /\ (\A i \in 1..Threshold : store'[i] = store[i])
              /\ (pc'["deploy"] = "store" => pc["deploy"] = "store" \/ disk[Leader] = None)
              /\ (pc["deploy"] = "store" => pc'["deploy"] = "store" \/ faults' = faults + 1)
           \/ StoreSecret
           \/ InitVault /\ disk[Leader] = None /\ pc'["deploy"] = "store"
           \/ store[1] = None /\ disk'[Leader] = None
<1> USE ConstantFacts DEF TypeInv, TypeOK
<1> DEFINE Quiet == /\ UNCHANGED disk[Leader] /\ (\A i \in 1..Threshold : store'[i] = store[i])
                    /\ (pc'["deploy"] = "store" => pc["deploy"] = "store" \/ disk[Leader] = None)
                    /\ (pc["deploy"] = "store" => pc'["deploy"] = "store" \/ faults' = faults + 1)
<1>1. CASE UNCHANGED vars
  BY <1>1 DEF vars, vaultVars, hookVars
<1>2. CASE StartDeploy \/ StartAllocation \/ WaitLeader \/ WaitInitialized \/ ReadFlag \/ Survey
  BY <1>2 DEF StartDeploy, StartAllocation, WaitLeader, WaitInitialized, ReadFlag, Survey,
     Goto, Loop, Return, Exit, vaultVars, Procs
<1>3. CASE InitVault
  <2>1. CASE Raise("deploy") /\ UNCHANGED <<disk, inits>>
    BY <1>3, <2>1 DEF InitVault, Raise, Exit, Procs
  <2>2. CASE disk[at["deploy"]] = None /\ pc' = [pc EXCEPT !["deploy"] = "store"]
    <3>1. pc["deploy"] = "init" /\ pc'["deploy"] = "store"
      BY <1>3, <2>2 DEF InitVault, Procs
    <3>2. CASE Leader \in lost
      <4>1. UNCHANGED lost
        BY <1>3 DEF InitVault
      <4> QED BY <3>2, <4>1
    <3>3. CASE Leader \notin lost
      BY <1>3, <2>2, <3>1, <3>3 DEF Custody, LabelsMean
    <3> QED BY <3>2, <3>3
  <2> QED BY <1>3, <2>1, <2>2 DEF InitVault
<1>4. CASE MarkBootstrapped
  <2>1. idx["deploy"] \in {BootstrappedFlag, BootstrappedAt} \/ Leader \in lost
    BY <1>4 DEF MarkBootstrapped, Custody, LabelsMean
  <2>2. UNCHANGED lost /\ Leader \notin lost
    BY <1>4 DEF MarkBootstrapped
  <2>3. \A i \in 1..Threshold : i # idx["deploy"]
    BY <2>1, <2>2 DEF BootstrappedFlag, BootstrappedAt
  <2>4. \A i \in 1..Threshold : i \in Entries /\ store'[i] = store[i]
    BY <1>4, <2>3 DEF MarkBootstrapped, Entries, BootstrappedAt
  <2> QED BY <1>4, <2>4 DEF MarkBootstrapped, Loop, Return, Exit, vaultVars, Procs
<1>5. ASSUME NEW p \in Procs, HookStep(p) \/ HookFails(p) PROVE Quiet
  <2>1. UNCHANGED <<disk, store>>
    BY <1>5 DEF HookStep, HookFails, WaitApi, CheckStatus, EnsureKeysPresent, UnsealStatus,
       ReadKey, SubmitKey, Settle, Verify, WaitOperational, Timeout, vaultVars
  <2>2. pc'["deploy"] = "store" => pc["deploy"] = "store"
    BY <1>5 DEF HookStep, HookFails, WaitApi, CheckStatus, EnsureKeysPresent, UnsealStatus,
       ReadKey, SubmitKey, Settle, Verify, WaitOperational, Timeout, Goto, Loop, Return, Raise,
       Exit, Procs
  <2>3. pc["deploy"] = "store" => pc'["deploy"] = "store" \/ faults' = faults + 1
    <3>1. CASE p = "deploy"
      BY <1>5, <3>1 DEF HookStep, HookFails, WaitApi, CheckStatus, EnsureKeysPresent, UnsealStatus,
         ReadKey, SubmitKey, Settle, Verify, WaitOperational, Timeout, Awaiting, Spend
    <3>2. CASE p # "deploy"
      BY <1>5, <3>2 DEF HookStep, HookFails, WaitApi, CheckStatus, EnsureKeysPresent, UnsealStatus,
         ReadKey, SubmitKey, Settle, Verify, WaitOperational, Timeout, Goto, Loop, Return, Raise,
         Exit, Procs
    <3> QED BY <3>1, <3>2
  <2> QED BY <2>1, <2>2, <2>3
<1>6. ASSUME NEW n \in Nodes, Boot(n) \/ Join(n) \/ StartUnseal(n) \/ Restart(n) PROVE Quiet
  BY <1>6 DEF Boot, Join, StartUnseal, Restart, hookVars, vaultVars, Procs
<1>7. ASSUME NEW n \in Nodes, LoseDisk(n) PROVE Quiet
  BY <1>7 DEF LoseDisk, hookVars
<1>8. CASE Recover
  BY <1>8 DEF Recover
<1> QED BY <1>1, <1>2, <1>3, <1>4, <1>5, <1>6, <1>7, <1>8
       DEF Next, DeployStep, Environment

\* A put of the key at position i makes that key stored, and takes none away.
LEMMA PutsStore ==
    ASSUME TypeInv, Custody, Leader \notin lost, StoreSecret
    PROVE  /\ minted # None /\ pc["deploy"] = "store" /\ UNCHANGED disk[Leader]
           /\ \A i \in Entries : store'[i] = store[i] \/ store'[i] = minted
           /\ pc'["deploy"] = "store" \/ \A i \in 1..Threshold : store'[i] # None
<1> USE ConstantFacts DEF TypeInv, TypeOK
<1>1. /\ minted # None /\ pc["deploy"] = "store" /\ idx["deploy"] \in 1..LeaderIp
      /\ \A e \in 1..LeaderIp : e < idx["deploy"] => store[e] # None
  BY DEF StoreSecret, Custody, InPutOrder
<1>2. 1..LeaderIp \subseteq Entries /\ 1..Threshold \subseteq 1..LeaderIp
      /\ \A i \in 1..Threshold : i < LeaderIp
  BY DEF LeaderIp, Entries, BootstrappedAt
<1>3. \A i \in Entries : store'[i] = IF i = idx["deploy"] THEN minted ELSE store[i]
  BY <1>1, <1>2 DEF StoreSecret
<1>4. CASE idx["deploy"] < LeaderIp
  BY <1>1, <1>3, <1>4 DEF StoreSecret, Loop, vaultVars, Procs
<1>5. CASE ~(idx["deploy"] < LeaderIp)
  <2>0. LeaderIp \in Nat
    BY DEF LeaderIp
  <2>1. idx["deploy"] = LeaderIp
    BY <1>1, <1>5, <2>0
  <2>2. \A i \in 1..Threshold : store[i] # None /\ store'[i] # None
    BY <1>1, <1>2, <1>3, <2>0, <2>1
  <2> QED BY <1>1, <1>3, <2>2 DEF StoreSecret, vaultVars
<1> QED BY <1>4, <1>5

\* The escrow that stopped half way stays half: no deploy, no unseal and not the
\* documented recovery completes it or clears it, if vault_0 keeps its disk.
THEOREM PartialIsForGood == Leader \notin Losable => (Spec => [][Stuck => Stuck']_vars)
<1> SUFFICES ASSUME Leader \notin Losable PROVE Spec => [][Stuck => Stuck']_vars
  OBVIOUS
<1>1. TypeInv /\ TypeInv' /\ Custody /\ [Next]_vars => [Stuck => Stuck']_vars
  <2> SUFFICES ASSUME TypeInv, TypeInv', Custody, [Next]_vars, Stuck PROVE Stuck'
    OBVIOUS
  <2>1. Leader \notin lost /\ Leader \notin lost'
    BY DEF TypeInv, TypeOK
  <2>2. /\ disk[Leader] # None /\ store[1] # None /\ pc["deploy"] # "store"
        /\ 1 \in 1..Threshold
    BY ConstantFacts DEF Stuck, PartialEscrow
  <2>3. PICK i \in 2..Threshold : store[i] = None
    BY DEF Stuck, PartialEscrow
  <2>4. i \in 1..Threshold
    BY ConstantFacts
  <2>5. ~StoreSecret
    BY <2>2 DEF StoreSecret
  <2>6. /\ disk'[Leader] = disk[Leader] /\ \A k \in 1..Threshold : store'[k] = store[k]
        /\ pc'["deploy"] # "store"
    BY <2>1, <2>2, <2>5, KeysMove
  <2> QED BY <2>2, <2>3, <2>4, <2>6 DEF Stuck, PartialEscrow
<1> QED BY CustodyCorrect, <1>1, PTL DEF Spec

\* It comes of one thing only, a bootstrap that dies between its first put and
\* the last key an unseal needs: no restart, timeout or garbled answer leads there.
THEOREM PartialHasACause ==
    Leader \notin Losable =>
        (Spec => [][~Stuck /\ Stuck' => pc["deploy"] = "store" /\ faults' = faults + 1]_vars)
<1> SUFFICES ASSUME Leader \notin Losable
             PROVE  Spec => [][~Stuck /\ Stuck' => pc["deploy"] = "store" /\ faults' = faults + 1]_vars
  OBVIOUS
<1>1. TypeInv /\ TypeInv' /\ Custody /\ [Next]_vars =>
        [~Stuck /\ Stuck' => pc["deploy"] = "store" /\ faults' = faults + 1]_vars
  <2> SUFFICES ASSUME TypeInv, TypeInv', Custody, [Next]_vars, ~Stuck, Stuck'
               PROVE  pc["deploy"] = "store" /\ faults' = faults + 1
    OBVIOUS
  <2>1. Leader \notin lost /\ Leader \notin lost' /\ 1 \in 1..Threshold
    BY ConstantFacts DEF TypeInv, TypeOK
  <2>2. /\ disk'[Leader] # None /\ store'[1] # None /\ pc'["deploy"] # "store"
    BY DEF Stuck, PartialEscrow
  <2>3. PICK i \in 2..Threshold : store'[i] = None
    BY DEF Stuck, PartialEscrow
  <2>4. i \in 1..Threshold
    BY ConstantFacts
  <2>5. ~StoreSecret
    BY <2>1, <2>2, <2>3, <2>4, PutsStore
  <2>6. /\ disk'[Leader] = disk[Leader] /\ \A k \in 1..Threshold : store'[k] = store[k]
        /\ pc["deploy"] = "store" => faults' = faults + 1
    BY <2>1, <2>2, <2>5, KeysMove
  <2>7. PartialEscrow
    BY <2>1, <2>2, <2>3, <2>4, <2>6 DEF PartialEscrow
  <2> QED BY <2>6, <2>7 DEF Stuck
<1> QED BY CustodyCorrect, <1>1, PTL DEF Spec

\* No node is open while it lasts: the cluster is as good as lost, and nobody
\* was ever let in.
THEOREM PartialStaysShut ==
    Spec => [](Leader \notin lost /\ PartialEscrow => \A n \in Nodes : sealed[n])
<1>1. TypeInv /\ Custody => (Leader \notin lost /\ PartialEscrow => \A n \in Nodes : sealed[n])
  <2> SUFFICES ASSUME TypeInv, Custody, Leader \notin lost, PartialEscrow, NEW n \in Nodes
               PROVE  sealed[n]
    OBVIOUS
  <2>1. ~AllKeys
    BY ConstantFacts DEF PartialEscrow, AllKeys
  <2> QED BY <2>1 DEF Custody, OpenNeedsKeys
<1> QED BY CustodyCorrect, <1>1, PTL

-----------------------------------------------------------------------------
\* The record of the bootstrap.

\* Nothing is recorded as bootstrapped without the keys that open it.
FlagNeedsKeys == store[BootstrappedFlag] # None => AllKeys

\* What a step does to the store: a put, or the recovery when there is no key.
LEMMA StoreMoves ==
    ASSUME [Next]_vars, store' # store
    PROVE  StoreSecret \/ MarkBootstrapped \/ Recover
<1>1. CASE UNCHANGED vars
  BY <1>1 DEF vars
<1>2. CASE StartDeploy \/ StartAllocation \/ InitVault \/ WaitLeader \/ WaitInitialized \/ ReadFlag \/ Survey
  BY <1>2 DEF StartDeploy, StartAllocation, InitVault, WaitLeader, WaitInitialized, ReadFlag, Survey
<1>3. ASSUME NEW p \in Procs, HookStep(p) \/ HookFails(p) PROVE FALSE
  BY <1>3 DEF HookStep, HookFails, WaitApi, CheckStatus, EnsureKeysPresent, UnsealStatus,
     ReadKey, SubmitKey, Settle, Verify, WaitOperational, Timeout
<1>4. ASSUME NEW n \in Nodes, Boot(n) \/ Join(n) \/ StartUnseal(n) \/ Restart(n) \/ LoseDisk(n)
      PROVE  FALSE
  BY <1>4 DEF Boot, Join, StartUnseal, Restart, LoseDisk
<1> QED BY <1>1, <1>2, <1>3, <1>4 DEF Next, DeployStep, Environment

\* The puts of mark_bootstrapped write the flag and leave the keys alone.
LEMMA MarkPuts ==
    ASSUME TypeInv, Custody, Leader \notin lost, MarkBootstrapped
    PROVE  /\ AllKeys /\ inits # None
           /\ \A i \in 1..Threshold : store'[i] = store[i]
           /\ store'[BootstrappedFlag] \in {store[BootstrappedFlag], inits}
<1> USE ConstantFacts DEF TypeInv, TypeOK
<1>1. AllKeys /\ idx["deploy"] \in {BootstrappedFlag, BootstrappedAt}
  BY DEF MarkBootstrapped, Custody, LabelsMean
<1>2. 1 \in 1..Threshold /\ 1..Threshold \subseteq Entries /\ BootstrappedFlag \in Entries
      /\ \A i \in 1..Threshold : i # BootstrappedFlag /\ i # BootstrappedAt
  BY DEF Entries, BootstrappedFlag, BootstrappedAt
<1>3. inits # None
  BY <1>1, <1>2 DEF AllKeys, Custody, OneCluster
<1> QED BY <1>1, <1>2, <1>3 DEF MarkBootstrapped

\* The keys of a recorded bootstrap are there, and no step takes them or the
\* record away.
LEMMA StepKeepsFlag ==
    ASSUME TypeInv, Custody, FlagNeedsKeys, Leader \notin lost, [Next]_vars
    PROVE  /\ FlagNeedsKeys'
           /\ store[BootstrappedFlag] # None => store'[BootstrappedFlag] # None
<1>0. 1 \in 1..Threshold /\ 1..Threshold \subseteq Entries /\ BootstrappedFlag \in Entries
  BY ConstantFacts DEF Entries, BootstrappedFlag, BootstrappedAt
<1>1. CASE store' = store
  BY <1>1 DEF FlagNeedsKeys, AllKeys
<1>2. CASE StoreSecret
  <2>1. minted # None /\ \A i \in Entries : store'[i] = store[i] \/ store'[i] = minted
    BY <1>2, PutsStore
  <2>2. store'[BootstrappedFlag] = store[BootstrappedFlag]
    <3>1. idx["deploy"] \in 1..LeaderIp
      BY <1>2 DEF StoreSecret, Custody, InPutOrder
    <3>2. idx["deploy"] # BootstrappedFlag
      BY <3>1, ConstantFacts DEF LeaderIp, BootstrappedFlag
    <3> QED BY <1>0, <1>2, <3>2 DEF StoreSecret, TypeInv, TypeOK
  <2> QED BY <1>0, <2>1, <2>2 DEF FlagNeedsKeys, AllKeys
<1>3. CASE MarkBootstrapped
  BY <1>3, MarkPuts DEF FlagNeedsKeys, AllKeys
<1>4. CASE Recover
  <2>1. store[BootstrappedFlag] = None
    BY <1>0, <1>4 DEF FlagNeedsKeys, AllKeys, Recover
  <2>2. store'[BootstrappedFlag] = None
    BY <1>0, <1>4 DEF Recover
  <2> QED BY <2>1, <2>2 DEF FlagNeedsKeys
<1> QED BY <1>1, <1>2, <1>3, <1>4, StoreMoves

\* Once the cluster is recorded as bootstrapped it is so for good, which is the
\* half of GetsBootstrapped that needs no fairness.
THEOREM BootstrappedForGood ==
    Leader \notin Losable =>
        (Spec => [][store[BootstrappedFlag] # None => store'[BootstrappedFlag] # None]_vars)
<1> SUFFICES ASSUME Leader \notin Losable
             PROVE  Spec => [][store[BootstrappedFlag] # None => store'[BootstrappedFlag] # None]_vars
  OBVIOUS
<1>1. Init => FlagNeedsKeys
  BY ConstantFacts DEF Init, FlagNeedsKeys, Entries, BootstrappedFlag, BootstrappedAt
<1>2. TypeInv /\ Custody => Leader \notin lost
  BY DEF TypeInv, TypeOK
<1>3. TypeInv /\ Custody /\ FlagNeedsKeys /\ [Next]_vars => FlagNeedsKeys'
  BY <1>2, StepKeepsFlag
<1>4. TypeInv /\ Custody /\ FlagNeedsKeys /\ [Next]_vars =>
        [store[BootstrappedFlag] # None => store'[BootstrappedFlag] # None]_vars
  BY <1>2, StepKeepsFlag
<1> QED BY CustodyCorrect, <1>1, <1>3, <1>4, PTL DEF Spec

=============================================================================
