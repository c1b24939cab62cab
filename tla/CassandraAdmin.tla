---------------------------- MODULE CassandraAdmin ----------------------------
(***************************************************************************)
(* The admin password of the cassandra job.  It lives in three places: the *)
(* admin role of the ring, the secret admin_password of the job's KV       *)
(* store, and the .env file of every worker.  Two kinds of process change  *)
(* them, and nothing serializes them:                                      *)
(*                                                                         *)
(*   - "deploy": command_ensure_secrets of a build, then the rollout that  *)
(*     renders .env from the KV store worker by worker and runs            *)
(*     command_y_init_admin after the seed has started;                    *)
(*   - each member of Rotators: one command_update_admin_password.         *)
(*                                                                         *)
(* A step of a process is one call it makes: a KV get or put, a cqlsh run  *)
(* on the seed, an .env update on a worker.  Passwords are numbers in the  *)
(* order they were generated; Default is the one a new ring starts with.   *)
(* The user name never changes and is left out.                            *)
(***************************************************************************)
EXTENDS Naturals, Sequences, FiniteSets

CONSTANTS
    Workers,        \* the cassandra workers in catalog order; the seed first
    Rotators,       \* the runs of command_update_admin_password
    MaxPasswords,   \* bound: how many passwords can ever be generated
    MaxFaults,      \* bound: how many faults the environment may inject
    FaultKinds      \* the kinds of fault that may happen

N == Len(Workers)
Nodes == {Workers[i] : i \in 1..N}
Procs == Rotators \cup {"deploy"}

None == 0
Default == 1
Passwords == 1..(MaxPasswords + 1)

\* "kill": a hook dies at some step; "unanswered": an ALTER ROLE is applied and
\* its ssh call fails; "outage": the seed stops serving CQL; "slow": the wait
\* for CQL gives up although one of the two passwords would log in; "rebuild":
\* the ring is created anew from empty disks while no process runs.
AllFaults == {"kill", "unanswered", "outage", "slow", "rebuild"}

ASSUME WorkersAssumption == Workers \in Seq(Nodes) /\ N \in Nat \ {0}
ASSUME RotatorsAssumption == "deploy" \notin Rotators
ASSUME BoundsAssumption ==
    /\ MaxPasswords \in Nat \ {0} /\ MaxFaults \in Nat
    /\ FaultKinds \subseteq AllFaults

VARIABLES
    role,       \* the password of the admin role in the ring
    kv,         \* the secret admin_password
    env,        \* of a worker: CASSANDRA_PASSWORD in its .env, None if no file
    cql,        \* whether the seed serves CQL: "up" or "down"
    pc,         \* of a process: its next step, or "idle"
    old,        \* of a process: the admin_password it read from KV
    new,        \* of a process: the password it sets
    idx,        \* of a process: the worker its loop is at
    made,       \* the last password generated
    faults,     \* how many faults happened
    orphaned    \* passwords a rotation gave the role and died before storing

dataVars == <<role, kv, env, cql, made>>
locals == <<pc, old, new, idx>>
vars == <<role, kv, env, cql, pc, old, new, idx, made, faults, orphaned>>

Labels == {"idle", "render", "read", "probe", "probe_default", "alter",
           "confirm", "put", "env"}

TypeOK ==
    /\ role \in Passwords
    /\ kv \in Passwords \cup {None}
    /\ env \in [Nodes -> Passwords \cup {None}]
    /\ cql \in {"up", "down"}
    /\ pc \in [Procs -> Labels]
    /\ old \in [Procs -> Passwords \cup {None}]
    /\ new \in [Procs -> Passwords \cup {None}]
    /\ idx \in [Procs -> 1..N]
    /\ made \in Passwords
    /\ faults \in 0..MaxFaults
    /\ orphaned \in SUBSET Passwords

Init ==
    /\ role = Default /\ kv = None
    /\ env = [w \in Nodes |-> None]
    /\ cql = "down"
    /\ pc = [p \in Procs |-> "idle"]
    /\ old = [p \in Procs |-> None]
    /\ new = [p \in Procs |-> None]
    /\ idx = [p \in Procs |-> 1]
    /\ made = Default /\ faults = 0 /\ orphaned = {}

-----------------------------------------------------------------------------
\* cqlsh with a password: it gets in if CQL is up and the role has it.
LogsIn(password) == cql = "up" /\ role = password

Spend(kind) ==
    /\ kind \in FaultKinds
    /\ faults < MaxFaults
    /\ faults' = faults + 1

Goto(p, l) ==
    /\ pc' = [pc EXCEPT ![p] = l]
    /\ UNCHANGED <<old, new, idx>>

\* The rotation r has changed the role and not yet stored what it changed it to.
InWindow(r) == pc[r] \in {"confirm", "put"} /\ r \in Rotators

\* The locals of process p are gone, and it is idle.
Forget(p) ==
    /\ pc' = [pc EXCEPT ![p] = "idle"]
    /\ old' = [old EXCEPT ![p] = None]
    /\ new' = [new EXCEPT ![p] = None]
    /\ idx' = [idx EXCEPT ![p] = 1]

\* Process p ends: if it was a rotation in its window, nobody knows the
\* password of the role any more.
End(p) ==
    /\ Forget(p)
    /\ orphaned' = IF InWindow(p) THEN orphaned \cup {new[p]} ELSE orphaned

-----------------------------------------------------------------------------
\* The build and the rollout.

\* command_ensure_secrets, then the deploy begins.  Its get and its put are one
\* step: no other process writes the secret while there is none.
EnsureSecrets ==
    /\ pc["deploy"] = "idle"
    /\ \/ /\ kv = None /\ made < MaxPasswords + 1
          /\ made' = made + 1 /\ kv' = made + 1
       \/ /\ kv # None
          /\ UNCHANGED <<kv, made>>
    /\ Goto("deploy", "render")
    /\ UNCHANGED <<role, env, cql, faults, orphaned>>

\* Worker idx gets its .env and its container is started, or recreated; the
\* hook command_y_init_admin acts on the seed only (ALLOCATION_INDEX 0).
Render ==
    /\ pc["deploy"] = "render"
    /\ LET i == idx["deploy"] IN
        /\ env' = [env EXCEPT ![Workers[i]] = kv]
        /\ IF i = 1
           THEN Goto("deploy", "read") /\ cql' \in {cql, "down"} /\ UNCHANGED orphaned
           ELSE /\ IF i < N
                   THEN /\ idx' = [idx EXCEPT !["deploy"] = i + 1]
                        /\ UNCHANGED <<pc, old, new, orphaned>>
                   ELSE End("deploy")
                /\ UNCHANGED cql
    /\ UNCHANGED <<role, kv, made, faults>>

\* command_y_init_admin returned 0: the deploy goes on with the next worker.
InitReturns ==
    IF N = 1 THEN End("deploy")
    ELSE /\ pc' = [pc EXCEPT !["deploy"] = "render"]
         /\ idx' = [idx EXCEPT !["deploy"] = 2]
         /\ old' = [old EXCEPT !["deploy"] = None]
         /\ new' = [new EXCEPT !["deploy"] = None]
         /\ UNCHANGED orphaned

\* command_y_init_admin: the password is the one in the KV store.
InitRead ==
    /\ pc["deploy"] = "read"
    /\ old' = [old EXCEPT !["deploy"] = kv]
    /\ new' = [new EXCEPT !["deploy"] = kv]
    /\ pc' = [pc EXCEPT !["deploy"] = "probe"]
    /\ UNCHANGED <<dataVars, idx, faults, orphaned>>

\* wait_for_cql_auth: is the password configured already?
ProbeConfigured ==
    /\ pc["deploy"] = "probe"
    /\ \/ LogsIn(old["deploy"]) /\ InitReturns
       \/ ~LogsIn(old["deploy"]) /\ Goto("deploy", "probe_default") /\ UNCHANGED orphaned
    /\ UNCHANGED <<dataVars, faults>>

\* wait_for_cql_auth: does the default log in?  If not, wait and start again.
ProbeDefault ==
    /\ pc["deploy"] = "probe_default"
    /\ IF old["deploy"] # Default /\ LogsIn(Default)
       THEN Goto("deploy", "alter")
       ELSE Goto("deploy", "probe")
    /\ UNCHANGED <<dataVars, faults, orphaned>>

\* wait_for_cql_auth: WAIT_TIMEOUT passes.
InitTimeout ==
    /\ pc["deploy"] = "probe"
    /\ IF role \in {old["deploy"], Default} THEN Spend("slow") ELSE UNCHANGED faults
    /\ End("deploy")
    /\ UNCHANGED dataVars

-----------------------------------------------------------------------------
\* command_update_admin_password.

StartRotation(r) ==
    /\ pc[r] = "idle"
    /\ made < MaxPasswords + 1
    /\ Goto(r, "read")
    /\ UNCHANGED <<dataVars, faults, orphaned>>

RotateRead(r) ==
    /\ pc[r] = "read"
    /\ \/ /\ kv # None
          /\ old' = [old EXCEPT ![r] = kv]
          /\ pc' = [pc EXCEPT ![r] = "probe"]
          /\ UNCHANGED <<new, idx, orphaned>>
       \/ kv = None /\ End(r)
    /\ UNCHANGED <<dataVars, faults>>

\* Mutant: the KV store gets the new password before the ring.
RotateProbePutsEarly(r) ==
    /\ pc[r] = "probe"
    /\ LogsIn(old[r]) /\ made < MaxPasswords + 1
    /\ made' = made + 1
    /\ new' = [new EXCEPT ![r] = made + 1]
    /\ kv' = made + 1
    /\ pc' = [pc EXCEPT ![r] = "alter"]
    /\ UNCHANGED <<role, env, cql, old, idx, faults, orphaned>>

\* credentials_ready with the password from KV, and a new password.
RotateProbe(r) ==
    /\ pc[r] = "probe"
    /\ \/ /\ LogsIn(old[r]) /\ made < MaxPasswords + 1
          /\ made' = made + 1
          /\ new' = [new EXCEPT ![r] = made + 1]
          /\ pc' = [pc EXCEPT ![r] = "alter"]
          /\ UNCHANGED <<old, idx, orphaned>>
       \/ /\ ~LogsIn(old[r])
          /\ End(r) /\ UNCHANGED made
    /\ UNCHANGED <<role, kv, env, cql, faults>>

\* put_job_secret, then the .env of the workers.
RotatePut(r) ==
    /\ pc[r] = "put"
    /\ kv' = new[r]
    /\ Goto(r, "env")
    /\ UNCHANGED <<role, env, cql, made, faults, orphaned>>

\* Mutant: the .env of the seed alone.
RotateEnvSeedOnly(r) ==
    /\ pc[r] = "env"
    /\ env' = [env EXCEPT ![Workers[1]] = new[r]]
    /\ End(r)
    /\ UNCHANGED <<role, kv, cql, made, faults>>

\* Mutant: the loop runs one worker too far.
RotateEnvTooFar(r) ==
    /\ pc[r] = "env"
    /\ env' = [env EXCEPT ![Workers[idx[r]]] = new[r]]
    /\ idx' = [idx EXCEPT ![r] = idx[r] + 1]
    /\ UNCHANGED <<role, kv, cql, made, faults, pc, old, new, orphaned>>

\* update_worker_env on one worker after another.
RotateEnv(r) ==
    /\ pc[r] = "env"
    /\ LET i == idx[r] IN
        /\ env' = [env EXCEPT ![Workers[i]] = new[r]]
        /\ IF i < N
           THEN /\ idx' = [idx EXCEPT ![r] = i + 1]
                /\ UNCHANGED <<pc, old, new, orphaned>>
           ELSE End(r)
    /\ UNCHANGED <<role, kv, cql, made, faults>>

-----------------------------------------------------------------------------
\* alter_admin_password, which both hooks call.

\* Mutant: ALTER ROLE with a login that does not depend on the password.
CurrentAny(p) == role

\* Mutant: both hooks log in with the password they read from KV.
CurrentRead(p) == old[p]

\* The password the ALTER ROLE of p logs in with.
Current(p) == IF p = "deploy" THEN Default ELSE old[p]

\* ALTER ROLE: the server applies it or refuses the login.  Applied and not
\* answered, the hook ends and the new password of a rotation is gone.
AlterRole(p) ==
    /\ pc[p] = "alter"
    /\ \/ /\ LogsIn(Current(p))
          /\ role' = new[p]
          /\ \/ Goto(p, "confirm") /\ UNCHANGED <<faults, orphaned>>
             \/ /\ Spend("unanswered") /\ Forget(p)
                /\ orphaned' = IF p = "deploy" THEN orphaned ELSE orphaned \cup {new[p]}
       \/ /\ ~LogsIn(Current(p))
          /\ End(p) /\ UNCHANGED <<role, faults>>
    /\ UNCHANGED <<kv, env, cql, made>>

\* credentials_ready with the new password, or the hook fails.
Confirm(p) ==
    /\ pc[p] = "confirm"
    /\ \/ /\ LogsIn(new[p])
          /\ IF p = "deploy" THEN InitReturns ELSE Goto(p, "put") /\ UNCHANGED orphaned
       \/ ~LogsIn(new[p]) /\ End(p)
    /\ UNCHANGED <<dataVars, faults>>

-----------------------------------------------------------------------------
\* The environment.

HookFails(p) ==
    /\ pc[p] # "idle"
    /\ Spend("kill")
    /\ End(p)
    /\ UNCHANGED dataVars

\* The seed's container was started: CQL comes up, or comes back.
ServeCql ==
    /\ cql = "down" /\ env[Workers[1]] # None
    /\ cql' = "up"
    /\ UNCHANGED <<role, kv, env, made, locals, faults, orphaned>>

Outage ==
    /\ cql = "up" /\ Spend("outage")
    /\ cql' = "down"
    /\ UNCHANGED <<role, kv, env, made, locals, orphaned>>

Rebuild ==
    /\ \A p \in Procs : pc[p] = "idle"
    /\ Spend("rebuild")
    /\ role' = Default /\ cql' = "down"
    /\ UNCHANGED <<kv, env, made, locals, orphaned>>

-----------------------------------------------------------------------------
DeployStep ==
    EnsureSecrets \/ Render \/ InitRead \/ ProbeConfigured \/ ProbeDefault \/ InitTimeout

RotateStep(r) == RotateRead(r) \/ RotateProbe(r) \/ RotatePut(r) \/ RotateEnv(r)

HookStep(p) == AlterRole(p) \/ Confirm(p)

Next ==
    \/ DeployStep
    \/ \E r \in Rotators : StartRotation(r) \/ RotateStep(r)
    \/ \E p \in Procs : HookStep(p) \/ HookFails(p)
    \/ ServeCql \/ Outage \/ Rebuild

Spec == Init /\ [][Next]_vars

\* The operator repeats the deploy, hooks run on, a started container serves.
Fairness ==
    /\ WF_vars(DeployStep)
    /\ \A r \in Rotators : WF_vars(RotateStep(r))
    /\ \A p \in Procs : WF_vars(HookStep(p))
    /\ WF_vars(ServeCql)

FairSpec == Spec /\ Fairness

-----------------------------------------------------------------------------
\* Properties.

\* The role never has a password that is written down nowhere, but for a
\* rotation about to store it and for rotations that died before they did:
\* concurrent rotations and an init that read the KV store long ago never
\* leave the ring with a password the KV store has moved on from.
RoleIsRecorded ==
    \/ role \in {Default, kv} \cup orphaned
    \/ \E r \in Rotators : InWindow(r) /\ new[r] = role

\* ALTER ROLE is the lock of the rotations, although nothing says so: it only
\* succeeds with the password the KV store has, so two rotations are never
\* between their ALTER ROLE and their put at once.
RotationsExclude ==
    \A r, q \in Rotators : InWindow(r) /\ InWindow(q) => r = q

\* A password other than the default is only ever replaced while the KV store
\* has it: neither hook destroys credentials it does not own.
ReplacesRecorded ==
    [][role' # role /\ Default \notin {role, role'} => role = kv]_vars

\* "applies it on the seed node via ALTER ROLE, updates secrets/job/cassandra,
\* and refreshes .env on every cassandra worker" (README): a rotation that
\* returns 0 leaves one password in the ring, the KV store and every .env.
RotatedEverywhere ==
    [][\A r \in Rotators : pc[r] = "env" /\ pc'[r] = "idle" /\ faults' = faults =>
            /\ role = kv
            /\ \A w \in Nodes : env'[w] = kv]_vars

\* Deploys that are repeated get the password of the KV store into the ring
\* again and again, unless a rotation died in its window for good.
ConfiguredInTheEnd == []<>(role = kv) \/ <>[](role \in orphaned)

\* What the cqlsh line of the README relies on: when nothing runs, the ring
\* has the default password or the one in the KV store.
KvPasswordLogsIn ==
    (\A p \in Procs : pc[p] = "idle") => role \in {Default, kv}

\* The strengthening under which RoleIsRecorded and RotationsExclude are
\* inductive.  No password is used before it is generated; the one a rotation
\* is about to set is its own until it is stored; an orphaned one is lost for
\* good; and while the ring has the default password, a running init knows the
\* password of the KV store.
Generated ==
    /\ \A x \in {role, kv} \cup orphaned : x <= made
    /\ \A p \in Procs : old[p] <= made /\ new[p] <= made
    /\ kv # Default /\ Default \notin orphaned
    /\ \A p \in Procs : old[p] # Default

OwnPassword ==
    \A r \in Rotators :
        /\ pc[r] \in {"alter", "confirm", "put"} =>
              /\ new[r] \notin {None, Default, kv} \cup orphaned
              /\ \A p \in Procs : old[p] # new[r]
              /\ \A q \in Rotators \ {r} : new[q] # new[r]
              /\ new["deploy"] # new[r]
        /\ pc[r] = "alter" => role # new[r] /\ old[r] # None
        /\ InWindow(r) => role = new[r]

OrphansAreLost ==
    /\ kv \notin orphaned
    /\ \A p \in Procs : old[p] \notin orphaned

InitKnowsKv ==
    /\ pc["deploy"] \in {"probe", "probe_default", "alter"} =>
          /\ new["deploy"] = old["deploy"]
          /\ role = Default => old["deploy"] = kv
    /\ pc["deploy"] \notin {"idle"} => kv # None
    /\ pc["deploy"] \notin {"put", "env"}

Ownership ==
    Generated /\ OwnPassword /\ OrphansAreLost /\ InitKnowsKv /\ RoleIsRecorded

\* However many rotations race each other and the deploys, what they do to the
\* password is what OnePassword says: a rotation in its window owns the ring.
Credential == INSTANCE OnePassword WITH
    ring    <- role,
    record  <- kv,
    pending <- {new[r] : r \in {q \in Rotators : InWindow(q)}},
    lost    <- orphaned

PasswordIsAccounted == Credential!Spec
=============================================================================
