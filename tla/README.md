# maand-awesomes: verification

TLA+ models, TLC runs and TLAPS proofs about the job hooks of maand-awesomes:
the Python programs under `*/_modules/` that an orchestrator, maand, runs
around the containers of eleven jobs.  The repository holds no server of its
own.  What can go wrong in it is the order in which its hooks do things to
servers, to the orchestrator's KV store and to each other, and what is left
when one of them stops half way.  That is what is modelled.

## The system

maand is outside the repository.  It renders templates, keeps a KV store
(`vars/job/<job>`, `secrets/job/<job>`, `maand/...`), starts and restarts
containers of a job in `deploy_order`, `deploy_parallel_count` or
`update_parallel_count` at a time, and runs hooks: `post_build` after a build,
`pre_deploy` before a rollout, `after_allocation_started` after each start,
`cli` when the operator asks.  A hook that exits with a status other than 0
fails the deploy.  The events of a deploy come one after another, the hooks
of one event on several workers may interleave, and `cli` hooks may run at any
time.

| Part | State it keeps or changes | Operations |
|------|---------------------------|------------|
| vault | KV: `unseal_key_1..5`, `root_token`, `cluster_*` vars; Vault: storage, seal | plan order, node up (init, store, unseal, mark), unseal, status |
| postgres | KV: passwords; Patroni: roles | plan order, ensure secrets, wait for ZooKeeper, status |
| zookeeper | the ensemble's roles | plan order, status |
| cassandra | KV: admin credentials; the role in the cluster; `.env` on workers | ensure secrets, wait up, init admin, rotate password, status |
| prometheus | KV: admin password and its bcrypt | ensure secrets, health check |
| clickhouse | KV: password; host kernel settings | ensure secrets, wait for keeper, OS tuning |
| otel_collector | none | wait for clickhouse |
| kafka_broker | none | wait for controllers |
| kafka_controller, clickhouse_keeper, coroot_node_agent | none | templates only |
| dashboards, console libraries, alerts, runbooks | none | static files |

Jobs interact through the KV store, through the `demands` that order jobs in a
deploy, and through gates: a hook that asks the hosts of another job before its own
job goes on.

What is hard: every hook is a sequence of calls that can stop between any two;
the KV puts of a hook are not atomic; hooks poll nodes one after another, so
what they conclude was never true at one instant; containers restart under a
hook (`restart: always`), and a restarted Vault node is sealed; leadership
moves between a plan and the rollout it plans; an operator's `cli` hook races
the deploy.

What makes each part correct:

- vault: never open a node whose keys are not in the KV store; flags tell the
  truth; one cluster; a deploy that is repeated brings every node back.
- postgres, zookeeper: a rolling restart of a live cluster takes the leader
  last; anything else keeps the catalog order; an order is always a permutation.
- cassandra: the password in KV opens the cluster; `.env` follows it.
- prometheus: the stored hash is the hash of the stored password.
- gates: no dependant starts before its dependency answers; no failed deploy
  leaves what a repeated one cannot finish.
- cassandra's ring: one node joins at a time, the seed first.
- status commands: what they report was true, and of nobody they are silent.

## The project

| Module | Models | Composed with |
|--------|--------|---------------|
| `VaultBootstrap` | `node_up` and `unseal` of vault, on a rollout | the Vault nodes, the KV store, an operator |
| `KeyEscrow` | what `VaultBootstrap` promises about the keys: an abstract specification it implements | |
| `KeyEscrowProofs` | theorems about the abstract specification | |
| `VaultBootstrapProofs` | theorems about it, the refinement included | |
| `CassandraAdmin` | the admin password of cassandra | the ring, the KV store, `.env` files, the deploy |
| `OnePassword` | what the hooks promise about that password: an abstract specification `CassandraAdmin` implements | |
| `OnePasswordProofs` | theorems about the abstract specification | |
| `CassandraAdminProofs` | theorems about it, the refinement included | |
| `EnsureSecrets` | the credentials of prometheus, postgres, clickhouse | the KV store, the deploy, the health check, an operator |
| `EnsureSecretsProofs` | theorems about it | |
| `RollingOrder` | `plan_order` of vault, zookeeper and postgres | the rollout, the servers' elections |
| `RollingOrderProofs` | theorems about it | |
| `DeployWaits` | the four `pre_deploy` gates, and `wait_up` of cassandra | the deploys of eight jobs, their containers |
| `DeployWaitsProofs` | theorems about it | |
| `ClusterStatus` | `cluster_status` of vault, zookeeper and postgres | the servers, which change under it |
| `ClusterStatusProofs` | theorems about it | |
| `MC<module>` | instances of a module for TLC | |

Every module is a closed system: the hooks, and next to them what they talk to,
modelled from how the hooks use it.  A hook is a process with a program counter
`pc` whose labels are the calls it makes.  A step is one call to a server or to
the KV store, or one wait; between any two steps another process or the
environment may act.  `UNCHANGED` is written in groups (`dataVars`, `locals`).
An operator whose comment begins with "Mutant" is a wrong version of the
definition below it and is used by nothing: replaced for that definition, it
breaks a property of a run (`PROJECT.json` says which).

Faults are actions of the environment that spend a budget: `MaxFaults` bounds
how many there are, `FaultKinds` which.  A hook that is killed, whose KV call
fails or which raises is one fault: it stops at the step it is at.  The budget
is what "finite faults" means in the liveness properties, and what a theorem
leaves arbitrary.

### VaultBootstrap

Code: `vault/_modules/command_node_up.py`, `command_unseal.py`, `vault_lib.py`,
with `config.hcl.tpl` (`retry_join`) and the compose file (`restart: always`).

- A cluster is the number of the init that created it.  `disk[n]` is the
  cluster of a node's Raft storage; `store[e]` the cluster whose key, token or
  flag is in KV entry `e`, and entries are numbered in the order of the puts;
  `progress[n]` the shares a node has been given since it was sealed.  The
  values of keys are not modelled: a share is good for its cluster and no other.
- "deploy" runs `command_node_up` on one node of `order` after another.  On
  `vault_0`: `WaitApi`, `CheckStatus`, `InitVault` (Vault's answer is in
  `minted`, in memory only), `StoreSecret` once per put, then the unseal.  On
  another node: `WaitLeader`, `EnsureKeysPresent`, `WaitInitialized`, the unseal.
  The unseal is `UnsealStatus`, then `ReadKey` and `SubmitKey` in turn, `Settle`,
  `Verify`; after it `WaitOperational`, `ReadFlag`, `Survey` node by node,
  `MarkBootstrapped`.
- "cli" is an operator's `command_unseal`, at any time, the same unseal steps.
- The environment: `Boot`, `Join` (a follower with no storage, when it and the
  leader are up and the leader is open), `Restart` (sealed again, shares
  gone), `LoseDisk`, `HookFails`, `Timeout`, a garbled `/sys/health` in `Status`
  (no JSON, or JSON without the status), and `Recover`: what the error message of
  `bring_up_leader` tells the operator to do, the four entries it does not name kept.
- `command_plan_order` gives any of the orders in `Plans`, at the cost of a fault
  one with a leader last that is gone, or leaves the order of the last deploy; which
  one is the subject of `RollingOrder`.
- `Survey` may take a node for closed whose answer is late.

`KeyEscrow` says what all this is for, in five actions: `Mint` a cluster,
`Deposit` the next part of what its init returned, `Open` a node when the escrow
holds enough keys, `Close` it, `GiveUp` a cluster of which nothing was stored.
`VaultBootstrap` implements it (`KeysAreEscrowed`) with the cluster on
`vault_0`'s disk for the cluster, the stored entries up to `vault_leader_ip` for
the escrow, and the unsealed nodes for the open ones: whatever is killed, lost or
answered late, no hook stores a part before an earlier one, opens a node early or
initializes a cluster over a non-empty escrow.

Left out: `join_raft`, which nothing calls; TLS and certificates.
`cluster_status` is in `ClusterStatus`.

| Run | Instance | Shows |
|-----|----------|-------|
| `vault_safety` | 2 nodes, 3 shares, threshold 2, 2 inits, any 2 faults, the follower's disk may go | a node is open only when the KV store has the keys that open it again (`UnsealedIsRecoverable`); the two flags tell the truth (`InitializedMeansEscrowed`, `BootstrappedMeansOneCluster`); no follower misses a key (`FollowersFindKeys`); the refinement of `KeyEscrow` (`KeysAreEscrowed`); the inductive invariant `Custody` |
| `vault_live` | 2 nodes, 2 shares, threshold 2, any 2 faults | repeated deploys open all nodes again and again (`ComesUpAgain`) and the cluster is recorded as bootstrapped (`GetsBootstrapped`), unless the escrow is partial |
| `vault_reinit` (violation) | the disk of `vault_0` is lost | the next deploy initializes a second cluster over the keys of the first |

Why the bounds are enough.  Two nodes are the two roles, and nodes of the second
role do not interact but through `vault_0` and the flags.  Three shares with
threshold two have a share an unseal does not need and a put order in
which the threshold is passed half way; the live run needs no spare share and
has two.  Two faults cover a fault during the repair of another.  What a bigger
instance could add to safety is covered by the theorems, which bound nothing.

`vault_0`'s disk is not lost in the safety properties (`Leader \notin lost`):
without it they are false, as `vault_reinit` shows.

`PartialEscrow` is the one state from which the hooks do not come back: Vault is
initialized, `unseal_key_1` is stored and a key the unseal needs is not.
`bring_up_leader` looks at `unseal_key_1` alone and goes on; the missing key
exists nowhere.  The liveness properties name it instead of hiding it.  A hook
killed one put later, before `mark_initialized`, is harmless but for one label:
the cluster gets bootstrapped and `cluster_initialized` is never written.

### CassandraAdmin

Code: `cassandra/_modules/` `command_ensure_secrets.py`,
`command_y_init_admin.py`, `command_update_admin_password.py`, `cassandra_lib.py`,
`.env.tpl`.

- A password is a number in the order of generation.  `role` is the ring's,
  `kv` the secret, `env[w]` the one in a worker's `.env`.
- "deploy": `EnsureSecrets`, then `Render` of worker after worker; after the
  seed's start `command_y_init_admin`: `InitRead`, `ProbeConfigured`,
  `ProbeDefault`, `AlterRole`, `Confirm`, or `InitTimeout`.
- Each of `Rotators` is one `command_update_admin_password`: `RotateRead`,
  `RotateProbe`, `AlterRole`, `Confirm`, `RotatePut`, `RotateEnv`.  Nothing in
  the repository keeps two of them, or one and a deploy, apart.
- `orphaned` is a history variable: passwords a rotation gave the ring and died
  before storing.  `AlterRole` may be applied and not answered.

`OnePassword` says what all this is for, of a ring, a record and the passwords in
between: the first password is recorded (`Record`) and given to a new ring
(`Configure`); a change takes the ring from the recorded password, and from no
other, to one never seen before (`Change`), and ends by recording it (`Commit`) or
by losing it (`Lose`, and `ChangeUnawares` where the answer to ALTER ROLE is lost);
the ring may be built anew (`Renew`).  `CassandraAdmin` implements it
(`PasswordIsAccounted`) with the new passwords of the rotations in their window for
the pending ones and `orphaned` for the lost.  A `y_init_admin` that read its
password long ago is a `Configure` all the same: that is what the refinement says
of it, and what is not obvious.

Left out: the user name, which no hook changes; `command_wait_up`, which is in
`DeployWaits`; a ring that is rebuilt while a hook runs (`Rebuild` is a step between
hooks; within one it would take the loss of every data directory in the 900 seconds
a hook waits for CQL); the get and
the put of `ensure_secrets` are one step, as no other hook writes the secret
while there is none.

| Run | Instance | Shows |
|-----|----------|-------|
| `cassandra_rotations` | 2 workers, 2 rotations, 4 passwords, any 2 faults | the ring's password is recorded, about to be, or known to be orphaned (`RoleIsRecorded`); ALTER ROLE is a lock (`RotationsExclude`); only the KV store's password is ever replaced (`ReplacesRecorded`); the refinement of `OnePassword` (`PasswordIsAccounted`); the inductive invariant `Ownership` |
| `cassandra_live` | 2 workers, 1 rotation | a rotation that returns 0 leaves one password everywhere, a deploy beside it included (`RotatedEverywhere`); repeated deploys bring the KV store's password into the ring again and again unless a rotation died in its window (`ConfiguredInTheEnd`) |
| `cassandra_orphan` (violation) | one ALTER ROLE that is applied and not answered | the ring has a password nobody has |

No fault is needed for an orphan: a deploy that restarts the seed between a
rotation's ALTER ROLE and its confirmation makes the rotation report a failure, too.

`RotatedEverywhere` is about one rotation: two that overlap in their `.env` loops
can leave a worker with the older password, as each writes the one it generated.

Two rotations are every pair; a third can only wait or fail where the second
does, and the theorems hold for any number.  Four passwords let both rotations
run twice.

### EnsureSecrets

Code: `command_ensure_secrets.py` of prometheus, postgres and clickhouse,
`prometheus/_modules/command_health_check.py`, the templates that render the
secrets.

- `job` is one of the three, chosen at the start.  `store` has its three secrets
  by position.  A bcrypt is the number of the password it was made of: a server
  can only compare.
- A build runs the hook on every worker, the steps of the hooks interleaved;
  `Enter` is the test for `worker_0`, which may be another worker in each build;
  then `Get` and one of `PutUsername`, `PutToken`, `PutBcrypt` per secret.  The
  loop of postgres and clickhouse is the same with `PutToken` alone.
- A deploy follows a build all of whose hooks returned 0: `Render` and
  `HealthCheck` worker by worker.
- `HookFails` at any step; no `htpasswd` on the host is such a failure, and one
  that happens exactly between the two puts that belong together.  `Delete`: the
  operator removes a secret, the only way the hooks leave to get a new one.
- `torn` is a history variable: a build that had stored a new password ended
  before its bcrypt was, and an older bcrypt is still there.

Left out: builds that overlap each other; what Patroni and ClickHouse do with a
password that differs from the one of their first start.

| Run | Instance | Shows |
|-----|----------|-------|
| `secrets_builds` | 3 jobs, 2 workers, 6 secrets, any 3 faults | the stored bcrypt is that of the stored password unless torn (`BcryptFollowsPassword`); no stored secret is replaced (`SecretsKept`); repeated builds and deploys give every worker the stored secrets, and a server that lets their owner in, unless torn (`ServedUnlessTorn`); the inductive invariant `Pairing` |
| `secrets_torn` (violation) | 1 worker, 2 faults | a password deleted and a build that dies between the two puts: no later build repairs the pair |

Three faults are a deletion, a death during the repair and one more of either;
six secrets are the three of a first build and one for each deletion.  Two
workers are the one that is `worker_0` and one that is not.

### RollingOrder

Code: `command_plan_order.py` of vault, zookeeper and postgres,
`active_leader_ip` and `is_cluster_running` of their libraries, the manifests
(`deploy_parallel_count`, `update_parallel_count`, `health_check`).

- `node[n]` is never started, down, open (its port) or up (serving).  `leader`
  is the servers' business: `Elect`, `StepDown`, `Crash`, `Lose`.
- The plan: `ReadFlag` (vault), `AskLocal` (postgres, `worker_0`'s Patroni answers
  for the cluster), `Search` node by node, twice for zookeeper and postgres,
  `PutOrder`; `PlanFails` is the exception `main` swallows.
- Every question has 5 seconds, so any answer may be late (`got` in `Search`, the
  second disjunct of `AskLocal`), at no cost in faults; `missed` counts those that
  would have named the leader.  A ZooKeeper plan gets along with none, as only the
  leader says that it leads; a postgres plan with one, as `worker_0` and the leader
  both say it; a vault plan with all but one, as every node does (`Tolerated`).
- The rollout: `RestartNode`, `WaitLeader` (a vault follower's `node_up` waits for
  `worker_0` before it unseals the node), `Gate`, `GateTimeout`.  The gate of
  zookeeper and postgres is an open port, that of vault `node_up`.
- `began` is a history variable: what held when the last search for the leader
  began, and what disturbed the deploy since.  The second search of zookeeper and
  postgres sets it anew: whoever leads then is the one to restart last.

| Run | Instance | Shows |
|-----|----------|-------|
| `order_rollouts` | 3 jobs, 3 nodes, any 2 faults | leadership moves at most once in an undisturbed rollout of a live cluster whose plan missed no more than it gets along with (`TransfersAtMostOnce`); a Vault rollout has one node out of service at a time (`OthersServe`); in any job one node does not answer, and whoever is out of the cluster was restarted by the rollout (`OthersAnswer`); a rollout restarts every node whatever the plan found (`EveryoneRestarted`); the inductive invariant `Rollout` |
| `order_vault_flag` (violation) | vault, 1 crash | a live cluster without `cluster_bootstrapped` is restarted in catalog order, its leader included |

Three nodes are the least whose quorum survives a restart.  With two Vault nodes
the follower's restart alone takes the leadership, and `TransfersAtMostOnce` is
false: the theorem is stated for every number of workers but two.  What an open
port does not promise is a quorum: a ZooKeeper server that answers may not be
back in the ensemble when the next one is restarted.  `TransfersAtMostOnce` needs
`began.quorate` for that job, and `OthersAnswer` is what holds without it.  One late
answer of the leader is enough for a ZooKeeper plan to take a running ensemble for a
first deploy, although `zookeeper/README.md` promises "Current leader **last**" for a
rolling upgrade: `missed <= Tolerated` is where the properties say so.  A plan that
fails leaves the order of the last deploy, not always the default its docstring
promises; `EveryoneRestarted` holds all the same, and `TransfersAtMostOnce` is
about planned rollouts.

### DeployWaits

Code: the `pre_deploy` gates `command_wait_zookeeper.py` (postgres),
`command_wait_clickhouse_keeper.py` (clickhouse),
`command_wait_kafka_controller.py` (kafka_broker), `command_wait_clickhouse.py`
(otel_collector); cassandra's `command_wait_up.py`, its `Makefile` and
`cassandra.yaml.tpl`; the manifests of the jobs.

- An allocation is a pair of a job and a number; `node` is absent, starting or
  up, which is whether it answers whoever asks.  A deploy is of one job; the
  operator deploys any job at any time, none while another deploy runs.
- The gate: one hook per allocation, interleaved.  `ask[i]` is the next host the
  hook of allocation `i` asks.  On the first worker only the hook asks
  (`OnFirst`), but in otel_collector, where every one does; `Skip`, `Read` and
  `Missing` are the three ends of a hook's beginning; `AskNext` is one round of the
  loop.  A hook that gets no answer ends the deploy.
- The rollout: `StartBatch` starts the allocations of `Batches` (one at a time in
  `Serial`, seed first in cassandra, any number elsewhere); `WaitUp` is the wait that
  sees one of them up, `WaitTimeout` the one that gives up.
- The environment: `Boot` (a cassandra node that has not joined needs the seed),
  `Crash`, `HookFails`, a KV read that fails, an answer that is late.
- `seen`, `whole`, `calm` and `blind` are history variables.

`portFound`: kafka_broker's gate reads its port from namespace `maand`, every other
hook from `maand/bucket`.  What maand keeps there is not in the repository, so both
cases are modelled, and the liveness property names the one it needs.

The gate of otel_collector is best effort: a KV read that fails is a default, and
the hook then returns 0 without asking.  `FirstStartsInOrder` lists its excuses, and
says that no other job ever has one.  (Its README:192 still names
`clickhouse_port_http` for the port the hook reads, `clickhouse_port_https`.)

"The next node only starts against a settled ring", says `command_wait_up`; the hook
looks for its own node's line.  `OneOutAtATime` is what that gives: no second node
down in a rollout of a whole ring, while nothing has crashed since it began.  What
holds through crashes and repeated deploys is `JoinsOneAtATime`.

| Run | Instance | Shows |
|-----|----------|-------|
| `waits` | 5 buckets (each gate with its dependency, the chain keeper, clickhouse, otel_collector, otel_collector alone, cassandra), 2 workers per job, 3 in cassandra, any 2 faults | no dependant starts before every host of its dependency has answered (`FirstStartsInOrder`); a passed gate stays true while nothing crashes (`GateHoldsWhileCalm`); one cassandra node joins at a time (`JoinsOneAtATime`); `OneOutAtATime`; repeated deploys bring everything up again and again (`ComesUpInTheEnd`); the inductive invariant `HalfWay` |

Two workers per job are one the hook asks on and one it does not, and a host that
is asked before another.  Three in the ring are a seed, a node that joins and one
that must wait.  Buckets whose jobs do not ask each other are independent, so one
per gate and the chain suffice; the theorems hold for all.

### ClusterStatus

Code: `command_cluster_status.py` of vault, zookeeper and postgres, and what they
call: `fetch_health`, `fetch_leader`, `active_leader_ip`, `node_state` (vault),
`fetch_node_stat` (zookeeper), `fetch_cluster`, `fetch_all_patroni_members`
(postgres).

- A node is down, closed (answers and does not serve) or up; `leader` is whom the
  cluster takes for its leader.  `Change`, `Elect` and `StepDown` are free: no
  budget, no quorum, any state of the servers at the beginning.
- The command, on allocation 0: vault asks host after host for the leader's name
  (`AskName`), then every one for its health; zookeeper asks every host for its
  mode; postgres asks its own Patroni (`AskCluster`) and, without an answer, every
  host.  `Scan` is one round of the loop, `Report...` what it adds to the report.
  Any answer may be late.
- `led`, `silent` and `still` are history variables.

| Run | Instance | Shows |
|-----|----------|-------|
| `status` | 3 jobs, 3 nodes | the reported master led since the command began (`MasterHasLed`); a worker is missing only if it led and was overwritten by a later leader, or Patroni was silent about it (`NobodyIsMissing`); undisturbed, the report is the truth (`ReportIsTrue`); the inductive invariant `SoFar` |

Three nodes are one before the leader, the leader and one behind it; nothing is
bounded but their number.

## Fairness

A liveness property is checked under `FairSpec`: weak fairness of the steps of
running hooks (they have timeouts and no wait without one), of the operator who
repeats the deploy (the documented way to go on after a failure), of a started
container coming up (`restart: always`) and of `retry_join`.  Strong fairness of
`Recover` only: a deploy stops at that state with an error that asks for it, the
next deploy begins there again, and the operator reads the message some time.
In `DeployWaits` the operator deploys every job of the bucket again and again: strong
fairness of `StartDeploy(j)` for each `j`, because a deploy of one job keeps the
others from being started, time and again; weak fairness of the steps of a running
deploy and of `Boot`.
The environment's faults and the operator's optional acts are never fair: they
need not happen.  Without a finite budget of faults none of these properties
could hold.

## What is proved

For every number of workers, shares, secrets and rotations and every budget of
faults, under the `ASSUME`s of the modules alone (workers are distinct, a
threshold is at most the number of shares, every job has a worker, bounds are
natural numbers) and what a theorem says itself:

| Theorem | Module | Says |
|---------|--------|------|
| `TypeCorrect`, `CustodyCorrect` | `VaultBootstrapProofs` | types; the inductive invariant `Custody` |
| `UnsealedRecoverable`, `InitializedEscrowed`, `BootstrappedOneCluster`, `FollowersServed` | `VaultBootstrapProofs` | the four invariants of `vault_safety` |
| `AdminTypeCorrect`, `OwnershipCorrect` | `CassandraAdminProofs` | types; the inductive invariant `Ownership` |
| `RoleRecorded`, `RotationsExcluded`, `RecordedReplaced` | `CassandraAdminProofs` | the two invariants and the action property of `cassandra_rotations` |
| `PasswordAccounted` | `CassandraAdminProofs` | the refinement: `Spec => PasswordIsAccounted` |
| `RotationCompletes` | `CassandraAdminProofs` | `RotatedEverywhere`, if there is one rotation (`OneRotation`) |
| `PromiseKept`, `LostStaysLost`; `PromiseTransfers` | `OnePasswordProofs`; `CassandraAdminProofs` | what every implementation of `OnePassword` has; that the hooks have it |
| `OnlyOrphansLockOut`, `OrphansHaveCauses`, `OrphansAreFinal` | `CassandraAdminProofs` | how far `cassandra_orphan` goes: see below |
| `SecretsTypeCorrect`, `PairingCorrect` | `EnsureSecretsProofs` | types; the inductive invariant `Pairing` |
| `KeysEscrowed` | `VaultBootstrapProofs` | the refinement: `Spec => KeysAreEscrowed`, if `vault_0`'s disk is not `Losable` |
| `EscrowKept`, `DepositBinds`; `KeysBindForGood` | `KeyEscrowProofs`; `VaultBootstrapProofs` | what every implementation of `KeyEscrow` has; that stored keys are never replaced, if `vault_0`'s disk is not `Losable` |
| `InitsFirstOnly`, `BootstrappedForGood` | `VaultBootstrapProofs` | the disk of `vault_0` is all that `vault_reinit` needs; the flag, once there, stays (both if that disk is not `Losable`) |
| `PartialHasACause`, `PartialIsForGood`, `PartialStaysShut` | `VaultBootstrapProofs` | how a deploy gets to `PartialEscrow`, that nothing leads out of it, that no node is open in it |
| `BcryptPaired`, `SecretsAreKept` | `EnsureSecretsProofs` | the invariant and the action property of `secrets_builds` |
| `TornHasACause`, `TornNeedsBoth`, `TornLocksOut`, `TornStaysTorn` | `EnsureSecretsProofs` | how far `secrets_torn` goes: see below |
| `OrderTypeCorrect`, `RolloutCorrect` | `RollingOrderProofs` | types; the inductive invariant `Rollout` |
| `TransferredAtMostOnce`, `TheOthersServe`, `TheOthersAnswer`, `AllRestarted` | `RollingOrderProofs` | the other properties of `order_rollouts`, the first if the workers are not two and for the late answers it names |
| `DeployIsShort` | `RollingOrderProofs` | a deploy, its plan included, takes at most `5N + 3` steps, one less remains after each |
| `WaitsTypeCorrect`, `HalfWayCorrect` | `DeployWaitsProofs` | types; the inductive invariant `HalfWay` |
| `StartsInOrder`, `GateHolds`, `JoinsSerially`, `OneIsOut` | `DeployWaitsProofs` | the safety properties of `waits` |
| `DeployWearsOut` | `DeployWaitsProofs` | every step of a deploy ends it or leaves strictly less of a finite set to do |
| `StatusTypeCorrect`, `SoFarCorrect` | `ClusterStatusProofs` | types; the inductive invariant `SoFar` |
| `MasterLed`, `EveryoneAccounted`, `ReportTrue` | `ClusterStatusProofs` | the properties of `status` |
| `MasterIsNoReplica`, `FewQuestions` | `ClusterStatusProofs` | no node is in both lines of a report; a command asks at most twice as many questions as there are workers |

`Custody`.  None of the four invariants is inductive: that a node is open only
when its keys are stored does not say that the keys a hook is about to submit
are stored, nor of which cluster.  `Custody` adds that there is one cluster, the
last created, and that it is `vault_0`'s; that the KV store fills in the order of
the puts, so that a later entry implies the earlier ones; that every submitted
share is a stored one; and what each label of a hook implies, most of all that
a follower past `EnsureKeysPresent` has all keys it needs.  The argument for that
last one goes through the leader: a follower gets there only after `WaitLeader`
saw `vault_0` open, and `vault_0` is open only with all keys.

`Ownership`.  That the ring's password is recorded is kept because the password
a rotation is about to set is nobody else's, and because ALTER ROLE logs in with
the password the rotation read: if another rotation has moved the ring on, the
login fails.  `y_init_admin` logs in with the default, and whenever it could, the
password it read long ago is still the KV store's.

`PasswordAccounted`.  Each step of `Spec` is a step of `OnePassword` or changes
nothing it sees.  `Ownership` gives what the steps need: an ALTER ROLE that logs in
finds a ring that no rotation owns, and with the default it finds a new one; a
generated password is in no other place.  The abstract theorems then hold of the
hooks by instantiation (`PromiseTransfers`).

`RotationCompletes`.  With one rotation nobody else moves the KV store, so whatever
a deploy renders after the put is the new password, and the loop of `update_worker_env`
need only reach those rendered before: `Settled` says that behind the loop every
`.env` has it, and that a deploy cannot put the old one back.

The findings.  What a violation run shows is that a bad state is reachable; the
theorems say how, and what follows.  An orphaned password comes of a fault, or of a
ring that is down when it is asked for the confirmation, never of another rotation
(`OrphansHaveCauses`); no hook gets it out of the ring again (`OrphansAreFinal`);
and without one the operator always gets in when nothing runs
(`OnlyOrphansLockOut`).  A torn pair takes both a deletion and a dead build
(`TornNeedsBoth`), and the death is that of a hook with a new password over an old
bcrypt (`TornHasACause`); no server has, or is ever given, the bcrypt of the stored
password (`TornLocksOut`), until somebody deletes one of the two (`TornStaysTorn`).
The invariant `LInv` behind these orders the secrets by when they were made, so that
a new password differs from everything a server was ever configured with.  A partial
escrow (`Stuck`: it is partial and no deploy is still storing) comes of one fault in
one place and is for good.

What ends.  Liveness is not proved, but the reason why it holds is, of deploys and
of status commands: no step of theirs makes more to do, and there is finitely much
(`DeployWearsOut`, `DeployIsShort`, `FewQuestions`).  That the steps are taken is what fairness says,
and what TLC checks.

`Pairing`.  One hook of a build makes secrets; it puts what nothing has put since
it looked; and the password it hashes is stored or deleted by then.

`KeysEscrowed`.  Each step of `Spec` is a step of `KeyEscrow` or changes nothing it
sees.  `Custody` gives what the steps need: `InitVault` meets an empty escrow
because stored keys are those of an initialized `vault_0`, a put meets exactly the
parts before it, and a share that opens a node is the last of a threshold of stored
ones.

`Rollout`.  The order is a permutation, so `order[turn]` is restarted once, and what
the rollout has restarted is `order[1..turn]`.  In an undisturbed rollout of a live
cluster nobody loses the leadership before its own turn or the loss of the quorum;
the leader the plan found is the leader until the last turn (`LeaderIsLast`), which
is the one transfer.  That the plan found it rests on `StillToAsk`: whoever is behind
the search did not lead or was late, so a search that ends with nobody has missed
more answers than `Tolerated`.  What is out of service is the node at the turn (`InService`,
vault) or has its port open again (`InReach`, all jobs).

`HalfWay`.  The first host may go away while the second is asked: a hook that is
half way through knows of the hosts behind it that they have joined, which nothing
takes back, and that they are up if nothing has crashed since the deploy began.  That
carries over into the rollout.  In a serial rollout at most one allocation was
started and not seen, and whatever is not on the list any more has joined.

`SoFar`.  Half way through the loop: the master so far led since the command began,
everyone behind the loop is accounted for, and while nothing has changed what there
is so far is exact.

## Only model-checked

Liveness, in every module: the prover has no `ENABLED` and no fairness
(`ComesUpAgain`, `GetsBootstrapped`, `ConfiguredInTheEnd`, `ServedUnlessTorn`,
`ComesUpInTheEnd`).  The violations are runs by nature.

## Not modelled

- maand itself: its scheduler, its KV store's consistency, `demands`.  A KV put is
  atomic and immediately visible, deploys do not overlap, the hooks of a deploy run
  one after another but for those of one event on several allocations.
- Vault, ZooKeeper, Patroni, Cassandra, ClickHouse, Kafka, Prometheus and docker,
  but for what the hooks see of them.
- `clickhouse/apply-os-tuning.sh`: a script an operator runs by hand as root, one
  sequential pass that writes the same files each time it is repeated.  (Its
  `cmd_check || true` does not keep `die` in the check from ending an apply.)
- cassandra's `command_cluster_status` and every `command_service`: they print what
  one call says, or a line.
- Templates, entrypoints, alerts, runbooks, dashboards: no step of their own.

## Order of the modules

Most important first: `VaultBootstrap`, `CassandraAdmin`, `RollingOrder`,
`EnsureSecrets`; then `KeyEscrow` and its refinement, `DeployWaits`,
`ClusterStatus`; the proofs of each after its runs; `OnePassword` and its
refinement.  Next would be what ends a run of the vault hooks, as
`DeployWearsOut` says it of deploys, and an abstract specification of the
credentials of `EnsureSecrets`.
