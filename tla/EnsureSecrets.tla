----------------------------- MODULE EnsureSecrets -----------------------------
(***************************************************************************)
(* The credentials of prometheus, postgres and clickhouse.  A build runs   *)
(* command_ensure_secrets on every worker of the job; the one on worker_0  *)
(* gets three secrets one after another and puts those that are missing.   *)
(* The deploy then renders them into the configuration of every worker,    *)
(* and command_health_check of prometheus logs in with the password of the *)
(* KV store at a server that has its bcrypt.                               *)
(*                                                                         *)
(* A step of a hook is one get or one put.  The hooks of one build may     *)
(* overlap; builds and deploys follow one another.  Generated passwords    *)
(* are numbers in the order they were generated, and the bcrypt of a       *)
(* password is that number again: all a server can do with it is compare.  *)
(***************************************************************************)
EXTENDS Naturals, Sequences, FiniteSets

CONSTANTS
    Jobs,           \* the jobs considered
    Workers,        \* the workers of the job
    MaxSecrets,     \* bound: how many secrets can ever be generated
    MaxFaults,      \* bound: how many faults the environment may inject
    FaultKinds      \* the kinds of fault that may happen

N == Len(Workers)
Nodes == {Workers[i] : i \in 1..N}

None == 0
Username == 1       \* "prometheus"; generated secrets are 2, 3, ...
Values == 0..(MaxSecrets + 1)

\* "kill": a hook, or the deploy, dies at some step; "delete": the operator
\* takes a secret out of the KV store, to have it generated anew.
AllFaults == {"kill", "delete"}

ASSUME JobsAssumption == Jobs \subseteq {"prometheus", "postgres", "clickhouse"}
ASSUME WorkersAssumption == Workers \in Seq(Nodes) /\ N \in Nat \ {0}
ASSUME BoundsAssumption ==
    /\ MaxSecrets \in Nat \ {0} /\ MaxFaults \in Nat
    /\ FaultKinds \subseteq AllFaults

VARIABLES
    job,        \* the job that is built and deployed
    store,      \* secrets/job/<job>: of a key, its value or None
    made,       \* the last secret generated
    primary,    \* the worker that is worker_0 in the catalog
    pc,         \* of a worker: the next step of its hook
    idx,        \* of a worker: the position in Keys its hook is at
    password,   \* of a worker: the variable `password' of prometheus' hook
    fresh,      \* of a worker: the variable `password_created'
    stage,      \* what the operator is at
    at,         \* the worker the deploy is at
    config,     \* of a worker: the secrets its configuration was rendered with
    torn,       \* a build died between a new password and its bcrypt, and the
                \* bcrypt of an older password is still there
    faults      \* how many faults happened

locals == <<pc, idx, password, fresh>>
deploy == <<at, config>>
vars == <<job, store, made, primary, pc, idx, password, fresh, stage, at, config,
          torn, faults>>

\* The secrets of the job by their position in its hook: admin_username,
\* admin_password and admin_password_bcrypt of prometheus, superuser_, replication_
\* and restapi_password of postgres, default_, interserver_ and
\* readonly_password of clickhouse.
Positions == 1..3
PasswordAt == 2
BcryptAt == 3

IsUsername(k) == job = "prometheus" /\ k = 1
IsPassword(k) == job = "prometheus" /\ k = PasswordAt
IsBcrypt(k) == job = "prometheus" /\ k = BcryptAt

TypeOK ==
    /\ job \in Jobs
    /\ store \in [Positions -> Values]
    /\ made \in 1..(MaxSecrets + 1)
    /\ primary \in Nodes
    /\ pc \in [Nodes -> {"idle", "start", "get", "put", "done", "failed"}]
    /\ idx \in [Nodes -> Positions]
    /\ password \in [Nodes -> Values]
    /\ fresh \in [Nodes -> BOOLEAN]
    /\ stage \in {"idle", "build", "render", "check"}
    /\ at \in 1..N
    /\ config \in [Nodes -> [Positions -> Values]]
    /\ torn \in BOOLEAN
    /\ faults \in 0..MaxFaults

Init ==
    /\ job \in Jobs
    /\ store = [k \in Positions |-> None]
    /\ made = Username
    /\ primary \in Nodes
    /\ pc = [w \in Nodes |-> "idle"]
    /\ idx = [w \in Nodes |-> 1]
    /\ password = [w \in Nodes |-> None]
    /\ fresh = [w \in Nodes |-> FALSE]
    /\ stage = "idle" /\ at = 1
    /\ config = [w \in Nodes |-> [k \in Positions |-> None]]
    /\ torn = FALSE /\ faults = 0

-----------------------------------------------------------------------------
Spend(kind) ==
    /\ kind \in FaultKinds
    /\ faults < MaxFaults
    /\ faults' = faults + 1

\* The hook of worker w is between its first get and its last put.
Running(w) == pc[w] \in {"get", "put"}

\* Every hook of the build has its locals forgotten.
ForgetHooks ==
    /\ pc' = [w \in Nodes |-> "idle"]
    /\ idx' = [w \in Nodes |-> 1]
    /\ password' = [w \in Nodes |-> None]
    /\ fresh' = [w \in Nodes |-> FALSE]

-----------------------------------------------------------------------------
\* The build.

\* maand build: the catalog may have changed since the last one, and with it
\* worker_0; then the post_build hook runs on every worker.
StartBuild ==
    /\ stage = "idle"
    /\ stage' = "build"
    /\ primary' \in Nodes
    /\ pc' = [w \in Nodes |-> "start"]
    /\ UNCHANGED <<job, store, made, idx, password, fresh, deploy, torn, faults>>

\* Mutant: every worker makes secrets.
EnterOnEveryWorker(w) ==
    /\ pc[w] = "start"
    /\ pc' = [pc EXCEPT ![w] = "get"]
    /\ UNCHANGED <<job, store, made, primary, idx, password, fresh, stage, deploy,
                   torn, faults>>

\* The hook on any other worker than worker_0 returns at once.
Enter(w) ==
    /\ pc[w] = "start"
    /\ pc' = [pc EXCEPT ![w] = IF w = primary THEN "get" ELSE "done"]
    /\ UNCHANGED <<job, store, made, primary, idx, password, fresh, stage, deploy,
                   torn, faults>>

\* Mutant: the hook does not stop after the last secret.
NextSecretTooFar(w) ==
    /\ pc' = [pc EXCEPT ![w] = "get"]
    /\ idx' = [idx EXCEPT ![w] = idx[w] + 1]

\* The hook goes on with the next secret, or returns 0.
NextSecret(w) ==
    IF idx[w] < 3
    THEN /\ pc' = [pc EXCEPT ![w] = "get"]
         /\ idx' = [idx EXCEPT ![w] = idx[w] + 1]
    ELSE /\ pc' = [pc EXCEPT ![w] = "done"]
         /\ UNCHANGED idx

\* Mutant: the bcrypt is put only if there is none.
NeedsPutIfMissing(w) == store[idx[w]] = None

\* Mutant: the bcrypt is put only along with a new password.
NeedsPutIfFresh(w) ==
    IF IsBcrypt(idx[w]) THEN fresh[w] ELSE store[idx[w]] = None

\* A secret is put if it is missing, and the bcrypt also if this hook made the
\* password.
NeedsPut(w) ==
    \/ store[idx[w]] = None
    \/ IsBcrypt(idx[w]) /\ fresh[w]

Get(w) ==
    /\ pc[w] = "get"
    /\ IF NeedsPut(w)
       THEN pc' = [pc EXCEPT ![w] = "put"] /\ UNCHANGED idx
       ELSE NextSecret(w)
    /\ password' = IF IsPassword(idx[w])
                   THEN [password EXCEPT ![w] = store[PasswordAt]] ELSE password
    /\ UNCHANGED <<job, store, made, primary, fresh, stage, deploy, torn, faults>>

PutUsername(w) ==
    /\ pc[w] = "put" /\ IsUsername(idx[w])
    /\ store' = [store EXCEPT ![idx[w]] = Username]
    /\ NextSecret(w)
    /\ UNCHANGED <<job, made, primary, password, fresh, stage, deploy, torn, faults>>

\* secrets.token_urlsafe, and a put.
PutToken(w) ==
    /\ pc[w] = "put" /\ ~IsUsername(idx[w]) /\ ~IsBcrypt(idx[w])
    /\ made < MaxSecrets + 1
    /\ made' = made + 1
    /\ store' = [store EXCEPT ![idx[w]] = made + 1]
    /\ password' = IF IsPassword(idx[w])
                   THEN [password EXCEPT ![w] = made + 1] ELSE password
    /\ fresh' = [fresh EXCEPT ![w] = IsPassword(idx[w])]
    /\ NextSecret(w)
    /\ UNCHANGED <<job, primary, stage, deploy, torn, faults>>

\* bcrypt_hash of the variable password, and a put.
PutBcrypt(w) ==
    /\ pc[w] = "put" /\ IsBcrypt(idx[w])
    /\ store' = [store EXCEPT ![BcryptAt] = password[w]]
    /\ torn' = FALSE
    /\ NextSecret(w)
    /\ UNCHANGED <<job, made, primary, password, fresh, stage, deploy, faults>>

\* A get or a put that fails, no htpasswd on the host, or a kill: the hook
\* returns 1 with what it has put left behind.
HookFails(w) ==
    /\ Running(w) \/ pc[w] = "start"
    /\ Spend("kill")
    /\ pc' = [pc EXCEPT ![w] = "failed"]
    /\ torn' = (torn \/ (fresh[w] /\ store[BcryptAt] # None))
    /\ UNCHANGED <<job, store, made, primary, idx, password, fresh, stage, deploy>>

\* The deploy follows if every hook returned 0.
EndBuild ==
    /\ stage = "build"
    /\ \A w \in Nodes : pc[w] \in {"done", "failed"}
    /\ stage' = IF \A w \in Nodes : pc[w] = "done" THEN "render" ELSE "idle"
    /\ ForgetHooks
    /\ UNCHANGED <<job, store, made, primary, deploy, torn, faults>>

-----------------------------------------------------------------------------
\* The deploy.

\* getSecret of every secret; a template with a missing one is not rendered.
\* The container is started with the configuration.
Render ==
    /\ stage = "render"
    /\ IF \A k \in Positions : store[k] # None
       THEN /\ config' = [config EXCEPT ![Workers[at]] = store]
            /\ stage' = "check" /\ UNCHANGED at
       ELSE stage' = "idle" /\ at' = 1 /\ UNCHANGED config
    /\ UNCHANGED <<job, store, made, primary, locals, torn, faults>>

\* Basic auth with the stored password at the server of worker w: it has the
\* bcrypt its web.config.yml was rendered with.
LogsIn(w) ==
    /\ store[PasswordAt] # None
    /\ config[w][BcryptAt] = store[PasswordAt]

\* The health check of worker at, then the next worker.  The checks of the
\* other jobs use no secret.
HealthCheck ==
    /\ stage = "check"
    /\ IF job = "prometheus" => LogsIn(Workers[at])
       THEN IF at < N THEN stage' = "render" /\ at' = at + 1
                      ELSE stage' = "idle" /\ at' = 1
       ELSE stage' = "idle" /\ at' = 1
    /\ UNCHANGED <<job, store, made, primary, locals, config, torn, faults>>

\* The deploy stops before its end.
DeployFails ==
    /\ stage \in {"render", "check"}
    /\ Spend("kill")
    /\ stage' = "idle" /\ at' = 1
    /\ UNCHANGED <<job, store, made, primary, locals, config, torn>>

-----------------------------------------------------------------------------
\* The operator removes a secret from the KV store.
Delete(k) ==
    /\ store[k] # None
    /\ Spend("delete")
    /\ store' = [store EXCEPT ![k] = None]
    /\ torn' = (torn /\ k # BcryptAt)
    /\ UNCHANGED <<job, made, primary, locals, stage, deploy>>

-----------------------------------------------------------------------------
HookStep(w) ==
    Enter(w) \/ Get(w) \/ PutUsername(w) \/ PutToken(w) \/ PutBcrypt(w)

OperatorStep == StartBuild \/ EndBuild \/ Render \/ HealthCheck

Next ==
    \/ OperatorStep
    \/ \E w \in Nodes : HookStep(w) \/ HookFails(w)
    \/ DeployFails
    \/ \E k \in Positions : Delete(k)

Spec == Init /\ [][Next]_vars

\* The operator repeats the build and the deploy, and hooks run on.
Fairness ==
    /\ WF_vars(OperatorStep)
    /\ \A w \in Nodes : WF_vars(HookStep(w))

FairSpec == Spec /\ Fairness

-----------------------------------------------------------------------------
\* Properties.

\* "Secrets are idempotent -- existing values are not rotated on rebuild"
\* (clickhouse README): whatever the hooks of the workers do at the same time,
\* and wherever earlier ones stopped, a stored secret is never replaced by
\* another, but for the bcrypt of a password that was replaced after it was
\* deleted.
SecretsKept ==
    [][\A k \in Positions :
          None \notin {store[k], store'[k]} /\ store'[k] # store[k] =>
              IsBcrypt(k) /\ store[PasswordAt] \in {store'[k], None}]_vars

\* The bcrypt that is stored is the one of the password that is stored: a hook
\* that dies anywhere leaves a pair that the next build completes, unless it
\* died with the bcrypt of an older password still there.
BcryptFollowsPassword ==
    job = "prometheus" /\ None \notin {store[PasswordAt], store[BcryptAt]} =>
        \/ store[BcryptAt] = store[PasswordAt]
        \/ torn
        \/ \E w \in Nodes : Running(w) /\ fresh[w]

\* Every worker has the secrets that are stored, and prometheus lets in who
\* knows the stored password.
Served ==
    \A w \in Nodes : config[w] = store /\ (job = "prometheus" => LogsIn(w))

\* Builds and deploys that are repeated get there whatever was deleted and
\* wherever hooks stopped, unless a build left the bcrypt of an older password.
ServedUnlessTorn == []<>Served \/ <>[]torn

\* What "Use credentials from secrets/job/prometheus" (README) relies on.
ServedInTheEnd == []<>Served

\* The strengthening under which BcryptFollowsPassword is inductive, and which
\* gives SecretsKept: one hook of a build makes secrets, it is about to put what
\* nothing has put since it looked, and it hashes the password that is stored.
Exclusive ==
    /\ stage # "build" => \A w \in Nodes : pc[w] = "idle"
    /\ \A w \in Nodes : Running(w) => w = primary

Wanted == \A w \in Nodes : pc[w] = "put" => NeedsPut(w)

Fresh ==
    \A w \in Nodes :
        /\ fresh[w] => job = "prometheus" /\ idx[w] = BcryptAt
        /\ pc[w] \in {"idle", "start"} => idx[w] = 1 /\ ~fresh[w]

Known ==
    \A w \in Nodes :
        Running(w) /\ IsBcrypt(idx[w]) => store[PasswordAt] \in {None, password[w]}

Pairing == Exclusive /\ Wanted /\ Fresh /\ Known /\ BcryptFollowsPassword
=============================================================================
