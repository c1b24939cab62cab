--------------------------- MODULE VaultBootstrap ---------------------------
(***************************************************************************)
(* The vault job: how a Vault Raft cluster is initialized, unsealed and    *)
(* declared bootstrapped by the hooks that the orchestrator runs one node  *)
(* at a time, and how the keys of the cluster get into the job's KV store. *)
(*                                                                         *)
(* Two processes run hooks: "deploy" (the orchestrator: command_plan_order *)
(* before the rollout, then command_node_up on one node after another) and *)
(* "cli" (an operator's command_unseal on one node).  A step of a hook is  *)
(* one call it makes to a Vault node or to the KV store, or one wait.      *)
(*                                                                         *)
(* A cluster is named by the number of the init that created it; a KV      *)
(* entry, a key share or a disk holds that number, None when it is empty.  *)
(* Vault itself, docker and maand are outside the repository: they are     *)
(* modelled from how the hooks use them.                                   *)
(***************************************************************************)
EXTENDS Naturals, Sequences, FiniteSets

CONSTANTS
    Workers,        \* the vault workers in catalog order; the first is vault_0
    Shares,         \* KEY_SHARES
    Threshold,      \* KEY_THRESHOLD
    MaxInits,       \* bound: how many clusters can ever be created
    MaxFaults,      \* bound: how many faults the environment may inject
    FaultKinds,     \* the kinds of fault that may happen
    Losable         \* bound: the nodes that may lose their disk, once each

N == Len(Workers)
Nodes == {Workers[i] : i \in 1..N}
Leader == Workers[1]
Procs == {"deploy", "cli"}

None == 0
Clusters == 1..MaxInits

\* "hook": a hook dies (killed, KV or HTTP error) at some step; "bootstrap":
\* it dies after the init was accepted and before the last of its puts;
\* "restart": a container restarts; "garbled": /sys/health answers an error
\* without the status; "slow": an answer is late or out of date, or a wait gives
\* up although what it waits for is under way.
AllFaults == {"hook", "bootstrap", "restart", "garbled", "slow"}

ASSUME WorkersAssumption ==
    /\ Workers \in Seq(Nodes)
    /\ N \in Nat \ {0}
    /\ \A i, j \in 1..N : Workers[i] = Workers[j] => i = j

ASSUME SharesAssumption ==
    /\ Shares \in Nat /\ Threshold \in 1..Shares

ASSUME BoundsAssumption ==
    /\ MaxInits \in Nat /\ MaxFaults \in Nat
    /\ FaultKinds \subseteq AllFaults
    /\ Losable \subseteq Nodes

\* The entries of the job's KV namespaces, in the order init_leader and
\* mark_bootstrapped write them: unseal_key_1 .. unseal_key_<Shares>, then
RootToken        == Shares + 1
ClusterShares    == Shares + 2
ClusterThreshold == Shares + 3
InitializedFlag  == Shares + 4
LeaderIp         == Shares + 5
BootstrappedFlag == Shares + 6
BootstrappedAt   == Shares + 7
Entries == 1..BootstrappedAt

VARIABLES
    container,  \* of a node: "absent", "booting" (API not up yet), "running"
    disk,       \* of a node: the cluster its Raft storage belongs to
    sealed,     \* of a node: sealed in memory
    progress,   \* of a node: the key shares submitted since it was sealed
    store,      \* the KV entries
    pc,         \* of a process: the next step of the hook it runs, or "idle"
    at,         \* of a process: ALLOCATION_IP of its hook
    idx,        \* of a process: the counter of the loop the hook is in
    share,      \* of a process: the key share read and not yet submitted
    minted,     \* of the deploy: the keys the init response left in memory
    order,      \* of the deploy: the planned deploy_order
    turn,       \* of the deploy: the position in order of the current node
    inits,      \* how many inits Vault accepted
    faults,     \* how many faults happened
    lost        \* the nodes that lost their disk

vaultVars  == <<container, disk, sealed, progress>>
hookVars   == <<pc, at, idx, share, minted>>
deployVars == <<order, turn>>
vars == <<vaultVars, store, hookVars, deployVars, inits, faults, lost>>

Labels == {"idle", "start", "api", "check", "init", "store", "await_leader",
           "keys", "await_init", "status", "read", "submit", "settle",
           "verify", "operational", "flag", "survey", "mark"}

TypeOK ==
    /\ container \in [Nodes -> {"absent", "booting", "running"}]
    /\ disk \in [Nodes -> Clusters \cup {None}]
    /\ sealed \in [Nodes -> BOOLEAN]
    /\ progress \in [Nodes -> SUBSET ((1..Shares) \X Clusters)]
    /\ store \in [Entries -> Clusters \cup {None}]
    /\ pc \in [Procs -> Labels]
    /\ at \in [Procs -> Nodes]
    /\ idx \in [Procs -> Nat]
    /\ share \in [Procs -> Clusters \cup {None}]
    /\ minted \in Clusters \cup {None}
    /\ order \in [1..N -> Nodes]
    /\ turn \in 1..N
    /\ inits \in 0..MaxInits
    /\ faults \in 0..MaxFaults
    /\ lost \in SUBSET Losable

Init ==
    /\ container = [n \in Nodes |-> "absent"]
    /\ disk = [n \in Nodes |-> None]
    /\ sealed = [n \in Nodes |-> TRUE]
    /\ progress = [n \in Nodes |-> {}]
    /\ store = [e \in Entries |-> None]
    /\ pc = [p \in Procs |-> "idle"]
    /\ at = [p \in Procs |-> Leader]
    /\ idx = [p \in Procs |-> 1]
    /\ share = [p \in Procs |-> None]
    /\ minted = None
    /\ order = [i \in 1..N |-> Workers[i]]
    /\ turn = 1
    /\ inits = 0 /\ faults = 0 /\ lost = {}

-----------------------------------------------------------------------------
\* What the hooks can see of a node.

\* fetch_health answers: None while the API is not up.
Answers(n) == container[n] = "running"
HealthInitialized(n) == Answers(n) /\ disk[n] # None
HealthUnsealed(n) == Answers(n) /\ ~sealed[n]

\* is_operational: initialized and not sealed.
Operational(n) == HealthInitialized(n) /\ ~sealed[n]

-----------------------------------------------------------------------------
\* Control of the hooks.

\* The hook of p takes its next step at label l, its locals unchanged.
Goto(p, l) ==
    /\ pc' = [pc EXCEPT ![p] = l]
    /\ UNCHANGED <<at, idx, share, minted>>

\* The hook of p takes its next step at label l and round i of a loop.
Loop(p, l, i) ==
    /\ pc' = [pc EXCEPT ![p] = l]
    /\ idx' = [idx EXCEPT ![p] = i]
    /\ UNCHANGED <<at, share, minted>>

\* The process p of a hook ends, its locals are gone, and l is next.
Exit(p, l) ==
    /\ pc' = [pc EXCEPT ![p] = l]
    /\ idx' = [idx EXCEPT ![p] = 1]
    /\ share' = [share EXCEPT ![p] = None]
    /\ minted' = IF p = "deploy" THEN None ELSE minted
    /\ UNCHANGED at

\* An exception ends the hook with status 1, and with it the deploy.
Raise(p) == Exit(p, "idle") /\ UNCHANGED deployVars

Spend(kind) ==
    /\ kind \in FaultKinds
    /\ faults < MaxFaults
    /\ faults' = faults + 1

\* vault_status of node n as the hook reads it: the two fields it uses.  An error
\* body reads as "not initialized", and as "not sealed" if it is JSON without
\* either field, "sealed" if it is no JSON.
Status(n, initialized, isSealed) ==
    \/ /\ Answers(n)
       /\ initialized = (disk[n] # None)
       /\ isSealed = sealed[n]
       /\ UNCHANGED faults
    \/ /\ Answers(n)
       /\ Spend("garbled")
       /\ initialized = FALSE

-----------------------------------------------------------------------------
\* The rollout.

\* The order with the worker at position k last, the others as they were.
LeaderLast(k) ==
    [i \in 1..N |-> IF i = N THEN Workers[k]
                    ELSE IF i < k THEN Workers[i] ELSE Workers[i + 1]]

\* command_plan_order: before the cluster is bootstrapped the catalog order;
\* after that the active leader last, if some node names one.
Plans ==
    {[i \in 1..N |-> Workers[i]]}
        \cup (IF store[BootstrappedFlag] = None THEN {}
              ELSE {LeaderLast(k) : k \in {j \in 1..N : Operational(Workers[j])}})

\* A node may name a leader that is gone; and a plan that fails keeps the order.
StartDeploy ==
    /\ pc["deploy"] = "idle"
    /\ \/ order' \in Plans /\ UNCHANGED faults
       \/ /\ store[BootstrappedFlag] # None /\ \E n \in Nodes : Operational(n)
          /\ Spend("slow")
          /\ \E k \in 1..N : order' = LeaderLast(k)
       \/ Spend("hook") /\ UNCHANGED order
    /\ turn' = 1
    /\ Goto("deploy", "start")
    /\ UNCHANGED <<vaultVars, store, inits, lost>>

\* Make target start leaves a container that runs alone; restart recreates it.
StartAllocation ==
    /\ pc["deploy"] = "start"
    /\ LET n == order[turn] IN
        /\ at' = [at EXCEPT !["deploy"] = n]
        /\ \/ /\ container[n] # "absent"
              /\ UNCHANGED <<container, sealed, progress>>
           \/ /\ container' = [container EXCEPT ![n] = "booting"]
              /\ sealed' = [sealed EXCEPT ![n] = TRUE]
              /\ progress' = [progress EXCEPT ![n] = {}]
    /\ pc' = [pc EXCEPT !["deploy"] = "api"]
    /\ UNCHANGED <<disk, store, idx, share, minted, deployVars, inits, faults, lost>>

\* The operator runs command_unseal on node n.
StartUnseal(n) ==
    /\ pc["cli"] = "idle"
    /\ at' = [at EXCEPT !["cli"] = n]
    /\ pc' = [pc EXCEPT !["cli"] = "api"]
    /\ UNCHANGED <<vaultVars, store, idx, share, minted, deployVars, inits, faults, lost>>

\* node_up or command_unseal returned 0; a deploy goes on with the next node.
Return(p) ==
    IF p = "deploy" /\ turn < N
    THEN Exit(p, "start") /\ turn' = turn + 1 /\ UNCHANGED order
    ELSE Exit(p, "idle") /\ UNCHANGED deployVars

-----------------------------------------------------------------------------
\* The steps of the hooks.

\* wait_for_container and wait_for_api.
WaitApi(p) ==
    /\ pc[p] = "api"
    /\ Answers(at[p])
    /\ Goto(p, IF p = "cli" \/ at[p] = Leader THEN "check" ELSE "await_leader")
    /\ UNCHANGED <<vaultVars, store, deployVars, inits, faults, lost>>

\* bring_up_leader and command_unseal read the status: the first goes on to
\* initialize a node that does not look initialized, the second refuses it.
CheckStatus(p) ==
    /\ pc[p] = "check"
    /\ \/ \E initialized, isSealed \in BOOLEAN :
            /\ Status(at[p], initialized, isSealed)
            /\ \/ /\ initialized
                  /\ Goto(p, "keys") /\ UNCHANGED deployVars
               \/ /\ ~initialized /\ p = "deploy"
                  /\ Goto(p, "init") /\ UNCHANGED deployVars
               \/ /\ ~initialized /\ p = "cli"
                  /\ Raise(p)
       \/ /\ ~Answers(at[p])
          /\ Raise(p) /\ UNCHANGED faults
    /\ UNCHANGED <<vaultVars, store, inits, lost>>

\* Mutant: the keys are numbered from 0 in the response but stored from 2 on.
FirstPutLate == 2

\* store_init_secrets: enumerate(keys, start=1).
FirstPut == 1

\* Mutant: the hook unseals with the keys it holds and leaves the puts for later.
InitVaultUnsealsFirst ==
    /\ pc["deploy"] = "init"
    /\ LET n == at["deploy"] IN
        /\ Answers(n) /\ disk[n] = None /\ inits < MaxInits
        /\ inits' = inits + 1
        /\ disk' = [disk EXCEPT ![n] = inits + 1]
        /\ minted' = inits + 1
        /\ pc' = [pc EXCEPT !["deploy"] = "status"]
    /\ UNCHANGED <<container, sealed, progress, store, at, idx, share, deployVars, faults, lost>>

\* init_leader's PUT /sys/init.  Vault refuses it on initialized storage,
\* whatever the status said, and creates a new sealed cluster otherwise.
InitVault ==
    /\ pc["deploy"] = "init"
    /\ LET n == at["deploy"] IN
        \/ /\ Answers(n) /\ disk[n] = None
           /\ inits < MaxInits
           /\ inits' = inits + 1
           /\ disk' = [disk EXCEPT ![n] = inits + 1]
           /\ minted' = inits + 1
           /\ pc' = [pc EXCEPT !["deploy"] = "store"]
           /\ idx' = [idx EXCEPT !["deploy"] = FirstPut]
           /\ UNCHANGED <<at, share, deployVars>>
        \/ /\ ~Answers(n) \/ disk[n] # None \/ inits = MaxInits
           /\ Raise("deploy")
           /\ UNCHANGED <<disk, inits>>
    /\ UNCHANGED <<container, sealed, progress, store, faults, lost>>

\* store_init_secrets and mark_initialized: one put after another.
StoreSecret ==
    /\ pc["deploy"] = "store"
    /\ LET e == idx["deploy"] IN
        /\ store' = [store EXCEPT ![e] = minted]
        /\ IF e < LeaderIp
           THEN Loop("deploy", "store", e + 1)
           ELSE Loop("deploy", "status", 1)
    /\ UNCHANGED <<vaultVars, deployVars, inits, faults, lost>>

\* bring_up_follower: wait_operational(leader).
WaitLeader ==
    /\ pc["deploy"] = "await_leader"
    /\ Operational(Leader)
    /\ Goto("deploy", "keys")
    /\ UNCHANGED <<vaultVars, store, deployVars, inits, faults, lost>>

\* ensure_keys_present, and the same test in bring_up_leader: only
\* unseal_key_1 is looked at.
EnsureKeysPresent(p) ==
    /\ pc[p] = "keys"
    /\ \/ /\ store[1] # None
          /\ Goto(p, IF p = "deploy" /\ at[p] # Leader THEN "await_init" ELSE "status")
          /\ UNCHANGED deployVars
       \/ /\ store[1] = None
          /\ Raise(p)
    /\ UNCHANGED <<vaultVars, store, inits, faults, lost>>

\* bring_up_follower: wait_until_initialized(self).
WaitInitialized ==
    /\ pc["deploy"] = "await_init"
    /\ HealthInitialized(at["deploy"])
    /\ Goto("deploy", "status")
    /\ UNCHANGED <<vaultVars, store, deployVars, inits, faults, lost>>

\* unseal_node: return at once from a node that does not look sealed.
UnsealStatus(p) ==
    /\ pc[p] = "status"
    /\ \/ /\ \E initialized, isSealed \in BOOLEAN :
                /\ Status(at[p], initialized, isSealed)
                /\ Loop(p, IF isSealed THEN "read" ELSE "operational", 1)
          /\ UNCHANGED deployVars
       \/ /\ ~Answers(at[p])
          /\ Raise(p) /\ UNCHANGED faults
    /\ UNCHANGED <<vaultVars, store, inits, lost>>

\* Mutant: an absent key is submitted all the same.
ReadKeyUnchecked(p) ==
    /\ pc[p] = "read"
    /\ share' = [share EXCEPT ![p] = store[idx[p]]]
    /\ pc' = [pc EXCEPT ![p] = "submit"]
    /\ UNCHANGED <<at, idx, minted, deployVars>>
    /\ UNCHANGED <<vaultVars, store, inits, faults, lost>>

\* unseal_node: key idx from the init response if there is one, else from KV.
ReadKey(p) ==
    /\ pc[p] = "read"
    /\ LET key == IF p = "deploy" /\ minted # None THEN minted ELSE store[idx[p]] IN
        \/ /\ key # None
           /\ share' = [share EXCEPT ![p] = key]
           /\ pc' = [pc EXCEPT ![p] = "submit"]
           /\ UNCHANGED <<at, idx, minted, deployVars>>
        \/ /\ key = None
           /\ Raise(p)
    /\ UNCHANGED <<vaultVars, store, inits, faults, lost>>

\* What Vault makes of the submitted shares of node n: below the threshold it
\* keeps them, at the threshold it opens if they are the cluster's own, and
\* drops them all if one is not.
Submitted(n, i, c) == progress[n] \cup {<<i, c>>}
Enough(n, i, c) == Cardinality(Submitted(n, i, c)) >= Threshold
Genuine(n, i, c) == \A s \in Submitted(n, i, c) : s[2] = disk[n]

\* Mutant: range(1, required) submits one key too few.
RequiredKeysShort == Threshold - 1

\* unseal_node: how many keys the loop submits, Vault's own threshold.
RequiredKeys == Threshold

\* unseal_node: PUT /sys/unseal, break when the node says it is open, next
\* key otherwise; any refusal is an exception.
SubmitKey(p) ==
    /\ pc[p] = "submit"
    /\ LET n == at[p]
           i == idx[p]
           c == share[p]
           next == IF i < RequiredKeys THEN Loop(p, "read", i + 1) ELSE Goto(p, "settle")
       IN
        \/ /\ ~HealthInitialized(n)
           /\ Raise(p) /\ UNCHANGED <<sealed, progress>>
        \/ /\ Operational(n)
           /\ Goto(p, "settle") /\ UNCHANGED <<sealed, progress, deployVars>>
        \/ /\ HealthInitialized(n) /\ sealed[n] /\ ~Enough(n, i, c)
           /\ progress' = [progress EXCEPT ![n] = Submitted(n, i, c)]
           /\ next /\ UNCHANGED <<sealed, deployVars>>
        \/ /\ HealthInitialized(n) /\ sealed[n] /\ Enough(n, i, c) /\ Genuine(n, i, c)
           /\ progress' = [progress EXCEPT ![n] = {}]
           /\ sealed' = [sealed EXCEPT ![n] = FALSE]
           /\ Goto(p, "settle") /\ UNCHANGED deployVars
        \/ /\ HealthInitialized(n) /\ sealed[n] /\ Enough(n, i, c) /\ ~Genuine(n, i, c)
           /\ progress' = [progress EXCEPT ![n] = {}]
           /\ Raise(p) /\ UNCHANGED sealed
    /\ UNCHANGED <<container, disk, store, inits, faults, lost>>

\* unseal_node: wait until the node is unsealed.
Settle(p) ==
    /\ pc[p] = "settle"
    /\ HealthUnsealed(at[p])
    /\ Goto(p, "verify")
    /\ UNCHANGED <<vaultVars, store, deployVars, inits, faults, lost>>

\* unseal_node: read the status once more, and complain if it is sealed.
Verify(p) ==
    /\ pc[p] = "verify"
    /\ \/ \E initialized, isSealed \in BOOLEAN :
            /\ Status(at[p], initialized, isSealed)
            /\ IF isSealed THEN Raise(p)
               ELSE Goto(p, "operational") /\ UNCHANGED deployVars
       \/ /\ ~Answers(at[p])
          /\ Raise(p) /\ UNCHANGED faults
    /\ UNCHANGED <<vaultVars, store, inits, lost>>

\* wait_operational(self): the last step of command_unseal.
WaitOperational(p) ==
    /\ pc[p] = "operational"
    /\ Operational(at[p])
    /\ IF p = "deploy" THEN Goto(p, "flag") /\ UNCHANGED deployVars ELSE Return(p)
    /\ UNCHANGED <<vaultVars, store, inits, faults, lost>>

\* Mutant: the test of the flag is inverted.
ReadFlagInverted ==
    /\ pc["deploy"] = "flag"
    /\ IF store[BootstrappedFlag] = None THEN Return("deploy")
       ELSE Loop("deploy", "survey", 1) /\ UNCHANGED deployVars
    /\ UNCHANGED <<vaultVars, store, inits, faults, lost>>

\* node_up: is the cluster recorded as bootstrapped already?
ReadFlag ==
    /\ pc["deploy"] = "flag"
    /\ IF store[BootstrappedFlag] # None THEN Return("deploy")
       ELSE Loop("deploy", "survey", 1) /\ UNCHANGED deployVars
    /\ UNCHANGED <<vaultVars, store, inits, faults, lost>>

\* Mutant: any instead of all.
SurveyAny ==
    /\ pc["deploy"] = "survey"
    /\ IF Operational(Workers[idx["deploy"]])
       THEN Loop("deploy", "mark", BootstrappedFlag) /\ UNCHANGED deployVars
       ELSE Return("deploy")
    /\ UNCHANGED <<vaultVars, store, inits, faults, lost>>

\* node_up: all(is_operational(ip)), one worker after another; a late answer
\* counts as a no.
Survey ==
    /\ pc["deploy"] = "survey"
    /\ LET i == idx["deploy"] IN
        \/ /\ IF Operational(Workers[i]) THEN Spend("slow") ELSE UNCHANGED faults
           /\ Return("deploy")
        \/ /\ Operational(Workers[i])
           /\ IF i < N THEN Loop("deploy", "survey", i + 1)
              ELSE Loop("deploy", "mark", BootstrappedFlag)
           /\ UNCHANGED <<deployVars, faults>>
    /\ UNCHANGED <<vaultVars, store, inits, lost>>

\* mark_bootstrapped: two puts.
MarkBootstrapped ==
    /\ pc["deploy"] = "mark"
    /\ LET e == idx["deploy"] IN
        /\ store' = [store EXCEPT ![e] = inits]
        /\ IF e < BootstrappedAt
           THEN Loop("deploy", "mark", e + 1) /\ UNCHANGED deployVars
           ELSE Return("deploy")
    /\ UNCHANGED <<vaultVars, inits, faults, lost>>

-----------------------------------------------------------------------------
\* What a hook waits for and does not see, and whether it is on its way.

Awaiting(p) ==
    \/ pc[p] = "api" /\ ~Answers(at[p])
    \/ pc[p] = "await_leader" /\ ~Operational(Leader)
    \/ pc[p] = "await_init" /\ ~HealthInitialized(at[p])
    \/ pc[p] = "settle" /\ ~HealthUnsealed(at[p])
    \/ pc[p] = "operational" /\ ~Operational(at[p])

UnderWay(p) ==
    /\ pc[p] \in {"api", "await_init"}
    /\ \/ container[at[p]] = "booting"
       \/ pc[p] = "await_init" /\ Operational(Leader)

\* _wait: the deadline passes.
Timeout(p) ==
    /\ Awaiting(p)
    /\ IF UnderWay(p) THEN Spend("slow") ELSE UNCHANGED faults
    /\ Raise(p)
    /\ UNCHANGED <<vaultVars, store, inits, lost>>

\* The hook dies: killed, or a call it makes fails.  At "store" with idx 1
\* this is also the init whose response never arrived.
HookFails(p) ==
    /\ pc[p] # "idle"
    /\ Spend(IF pc[p] = "store" THEN "bootstrap" ELSE "hook")
    /\ Raise(p)
    /\ UNCHANGED <<vaultVars, store, inits, lost>>

-----------------------------------------------------------------------------
\* Vault, docker and the operator.

\* A container that was started comes up, or comes back (restart: always).
Boot(n) ==
    /\ container[n] = "booting"
    /\ container' = [container EXCEPT ![n] = "running"]
    /\ UNCHANGED <<disk, sealed, progress, store, hookVars, deployVars, inits, faults, lost>>

\* retry_join: an empty follower joins the cluster of vault_0, and is sealed.
Join(n) ==
    /\ n # Leader
    /\ Answers(n) /\ disk[n] = None
    /\ Operational(Leader)
    /\ disk' = [disk EXCEPT ![n] = disk[Leader]]
    /\ UNCHANGED <<container, sealed, progress, store, hookVars, deployVars, inits, faults, lost>>

\* Memory is lost: the node is sealed again (a Shamir seal does not open alone).
Restart(n) ==
    /\ container[n] = "running"
    /\ Spend("restart")
    /\ container' = [container EXCEPT ![n] = "booting"]
    /\ sealed' = [sealed EXCEPT ![n] = TRUE]
    /\ progress' = [progress EXCEPT ![n] = {}]
    /\ UNCHANGED <<disk, store, hookVars, deployVars, inits, lost>>

\* The data directory of node n is lost, the host rebuilt.
LoseDisk(n) ==
    /\ disk[n] # None
    /\ n \in Losable \ lost
    /\ lost' = lost \cup {n}
    /\ disk' = [disk EXCEPT ![n] = None]
    /\ container' = [container EXCEPT ![n] = "booting"]
    /\ sealed' = [sealed EXCEPT ![n] = TRUE]
    /\ progress' = [progress EXCEPT ![n] = {}]
    /\ UNCHANGED <<store, hookVars, deployVars, inits, faults>>

\* The recovery that bring_up_leader's error message asks for, when it has
\* found an initialized leader and no unseal_key_1: stop vault, clear the data
\* of every worker, delete the two flags and the secrets.
Recover ==
    /\ pc["deploy"] = "idle"
    /\ disk[Leader] # None /\ store[1] = None
    /\ container' = [n \in Nodes |-> "absent"]
    /\ disk' = [n \in Nodes |-> None]
    /\ sealed' = [n \in Nodes |-> TRUE]
    /\ progress' = [n \in Nodes |-> {}]
    /\ store' = [e \in Entries |->
                    IF e <= RootToken \/ e \in {InitializedFlag, BootstrappedFlag}
                    THEN None ELSE store[e]]
    /\ UNCHANGED <<hookVars, deployVars, inits, faults, lost>>

-----------------------------------------------------------------------------
\* The steps a running hook takes by itself.
HookStep(p) ==
    \/ WaitApi(p)
    \/ CheckStatus(p)
    \/ EnsureKeysPresent(p)
    \/ UnsealStatus(p)
    \/ ReadKey(p)
    \/ SubmitKey(p)
    \/ Settle(p)
    \/ Verify(p)
    \/ WaitOperational(p)
    \/ Timeout(p)

DeployStep ==
    \/ StartDeploy
    \/ StartAllocation
    \/ InitVault
    \/ StoreSecret
    \/ WaitLeader
    \/ WaitInitialized
    \/ ReadFlag
    \/ Survey
    \/ MarkBootstrapped

Environment ==
    \/ \E n \in Nodes : StartUnseal(n) \/ Restart(n) \/ LoseDisk(n)
    \/ \E p \in Procs : HookFails(p)

Next ==
    \/ DeployStep
    \/ \E p \in Procs : HookStep(p)
    \/ \E n \in Nodes : Boot(n) \/ Join(n)
    \/ Recover
    \/ Environment

Spec == Init /\ [][Next]_vars

\* The operator repeats the deploy, and recovers one time when told to; hooks
\* run on; a started container comes up; retry_join retries.
Fairness ==
    /\ WF_vars(DeployStep)
    /\ \A p \in Procs : WF_vars(HookStep(p))
    /\ \A n \in Nodes : WF_vars(Boot(n)) /\ WF_vars(Join(n))
    /\ SF_vars(Recover)

FairSpec == Spec /\ Fairness

-----------------------------------------------------------------------------
\* Properties.

\* A node is only ever opened when the KV store already holds the keys that
\* open it again after its next restart: init_leader stores before anyone
\* unseals, and the store never gets keys of another cluster, as long as
\* vault_0 keeps its disk.
UnsealedIsRecoverable ==
    Leader \notin lost =>
        \A n \in Nodes : ~sealed[n] =>
            disk[n] # None /\ \A i \in 1..Threshold : store[i] = disk[n]

\* cluster_initialized is only written once everything the init returned is in
\* the KV store, all of it of the cluster that vault_0 holds.
InitializedMeansEscrowed ==
    Leader \notin lost /\ store[InitializedFlag] # None =>
        \A e \in 1..ClusterThreshold : store[e] # None /\ store[e] = disk[Leader]

\* cluster_bootstrapped is only written when every worker holds the one
\* cluster of vault_0: the probes of node_up, one worker after another and
\* under restarts, are enough to conclude that.
BootstrappedMeansOneCluster ==
    Leader \notin lost /\ store[BootstrappedFlag] # None =>
        \A n \in Nodes \ lost : disk[n] # None /\ disk[n] = disk[Leader]

\* "followers always find an initialized cluster and published unseal keys"
\* (command_node_up): no hook on a follower misses a key, whenever it asks.
FollowersFindKeys ==
    Leader \notin lost =>
        \A p \in Procs : at[p] # Leader =>
            /\ pc[p] = "keys" => store[1] # None
            /\ pc[p] = "read" => store[idx[p]] # None

\* The strengthening under which the four invariants above are inductive:
\* while vault_0 keeps its disk there is one cluster, the last one created, and
\* it is vault_0's; the store fills in the order of the puts; a submitted share
\* is in the store; and each label tells what the hook has established.
LoopOK ==
    \A p \in Procs :
        /\ pc[p] \in {"read", "submit"} => idx[p] \in 1..Threshold
        /\ pc[p] = "submit" => share[p] # None

AllKeys == \A i \in 1..Threshold : store[i] # None
HasJoined(n) == disk[n] # None \/ n \in lost

OneCluster ==
    /\ \A n \in Nodes : disk[n] \in {None, inits}
    /\ \A e \in Entries : store[e] \in {None, inits}
    /\ \A p \in Procs : share[p] # None => share[p] = inits /\ store[1] # None
    /\ minted \in {None, inits}
    /\ disk[Leader] = None =>
          /\ \A n \in Nodes : disk[n] = None
          /\ \A e \in Entries : store[e] = None
          /\ minted = None

InPutOrder ==
    /\ \A e, f \in 1..LeaderIp : e < f /\ store[f] # None => store[e] # None
    /\ \A e \in {BootstrappedFlag, BootstrappedAt} : store[e] # None => store[1] # None
    /\ pc["deploy"] = "store" =>
          /\ minted # None /\ idx["deploy"] \in 1..LeaderIp
          /\ \A e \in 1..LeaderIp : e < idx["deploy"] => store[e] # None
    /\ minted # None /\ pc["deploy"] # "store" => \A e \in 1..LeaderIp : store[e] # None

OnlyStoredShares ==
    \A n \in Nodes : \A s \in progress[n] :
        s[1] <= Threshold /\ s[2] = inits /\ store[s[1]] # None

OpenNeedsKeys ==
    \A n \in Nodes :
        /\ ~sealed[n] => disk[n] # None /\ AllKeys
        /\ n # Leader /\ disk[n] # None => AllKeys

LabelsMean ==
    /\ pc["deploy"] \in {"check", "init", "store"} => at["deploy"] = Leader
    /\ pc["deploy"] \in {"flag", "survey", "mark"} => AllKeys
    /\ pc["deploy"] = "survey" =>
          /\ idx["deploy"] \in 1..N
          /\ \A j \in 1..N : j < idx["deploy"] => HasJoined(Workers[j])
    /\ pc["deploy"] = "mark" =>
          /\ idx["deploy"] \in {BootstrappedFlag, BootstrappedAt}
          /\ \A n \in Nodes : HasJoined(n)
    /\ store[BootstrappedFlag] # None => \A n \in Nodes : HasJoined(n)
    /\ \A p \in Procs :
          /\ pc[p] = "submit" => store[idx[p]] # None
          /\ at[p] # Leader /\ pc[p] \in {"keys", "await_init", "status", "read", "submit",
                                           "settle", "verify", "operational"} => AllKeys
    /\ pc["cli"] \notin {"start", "init", "store", "await_leader", "await_init",
                         "flag", "survey", "mark"}

Custody ==
    /\ LoopOK
    /\ Leader \notin lost =>
          OneCluster /\ InPutOrder /\ OnlyStoredShares /\ OpenNeedsKeys /\ LabelsMean

\* The hooks keep the promise of KeyEscrow as long as vault_0 keeps its disk:
\* its cluster is the one there is, the puts of init_leader are the deposits.
Escrow == INSTANCE KeyEscrow WITH
    cluster  <- disk[Leader],
    escrow   <- {e \in 1..LeaderIp : store[e] # None},
    open     <- {n \in Nodes : ~sealed[n]},
    Parts    <- LeaderIp,
    Required <- Threshold

KeysAreEscrowed == Escrow!Spec

\* The one state repeated deploys and the documented recovery do not leave: the
\* init is done and its puts stopped between unseal_key_1 and the last key an
\* unseal needs.
PartialEscrow ==
    /\ disk[Leader] # None /\ store[1] # None
    /\ \E i \in 2..Threshold : store[i] = None

\* Whatever restarts, dies, times out or answers nonsense a bounded number of
\* times, deploys that are repeated open every node again and again, unless
\* the escrow is partial.
ComesUpAgain == []<>((\A n \in Nodes : Operational(n)) \/ PartialEscrow)

\* In the end the cluster is recorded as bootstrapped for good, or the escrow
\* is partial for good.
GetsBootstrapped == <>[](store[BootstrappedFlag] # None) \/ <>[]PartialEscrow

\* The init belongs to the first deploy (command_node_up): none after the
\* cluster was recorded as bootstrapped.
InitOnlyOnFirstDeploy ==
    [][inits' > inits => store[BootstrappedFlag] = None]_vars
=============================================================================
