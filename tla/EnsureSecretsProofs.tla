-------------------------- MODULE EnsureSecretsProofs --------------------------
(***************************************************************************)
(* Proofs about EnsureSecrets, for every number of workers and secrets and *)
(* every budget of faults.                                                 *)
(***************************************************************************)
EXTENDS EnsureSecrets, TLAPS

\* The constants in the form the proofs use.
LEMMA ConstantFacts ==
    /\ N \in Nat /\ 1 \in 1..N /\ MaxFaults \in Nat /\ 0 \in 0..MaxFaults
    /\ MaxSecrets \in Nat /\ None \in Values /\ Username \in Values
    /\ Username \in 1..(MaxSecrets + 1) /\ None # Username
    /\ 1 \in Positions /\ PasswordAt \in Positions /\ BcryptAt \in Positions
    /\ \A i \in 1..N : Workers[i] \in Nodes
BY WorkersAssumption, BoundsAssumption
   DEF Nodes, Values, None, Username, Positions, PasswordAt, BcryptAt

\* The positions of a job's secrets are told apart by what is kept there.
LEMMA PositionFacts ==
    \A k \in Positions :
        /\ IsUsername(k) => ~IsPassword(k) /\ ~IsBcrypt(k) /\ k # BcryptAt
        /\ IsPassword(k) => ~IsBcrypt(k) /\ k < 3 /\ k = PasswordAt
        /\ IsBcrypt(k) => k = BcryptAt /\ ~(k < 3) /\ job = "prometheus"
        /\ job = "prometheus" => IsUsername(k) \/ IsPassword(k) \/ IsBcrypt(k)
        /\ k < 3 => k + 1 \in Positions
        /\ PasswordAt # BcryptAt
BY DEF IsUsername, IsPassword, IsBcrypt, Positions, PasswordAt, BcryptAt

\* The next secret, or the end of the hook, leaves typed locals.
LEMMA NextSecretType ==
    ASSUME TypeOK, NEW w \in Nodes, NextSecret(w)
    PROVE  /\ pc' \in [Nodes -> {"idle", "start", "get", "put", "done", "failed"}]
           /\ idx' \in [Nodes -> Positions]
           /\ pc'[w] \in {"get", "done"}
           /\ pc'[w] = "get" => idx[w] < 3 /\ idx'[w] = idx[w] + 1
           /\ pc'[w] = "done" => ~(idx[w] < 3) /\ idx'[w] = idx[w]
           /\ \A v \in Nodes \ {w} : pc'[v] = pc[v] /\ idx'[v] = idx[v]
<1>1. CASE idx[w] < 3
  <2>1. idx[w] + 1 \in Positions
    BY <1>1, PositionFacts DEF TypeOK
  <2> QED BY <1>1, <2>1 DEF NextSecret, TypeOK
<1>2. CASE ~(idx[w] < 3)
  BY <1>2 DEF NextSecret, TypeOK
<1> QED BY <1>1, <1>2

\* The initial state is well typed.
LEMMA InitType == Init => TypeOK
<1> SUFFICES ASSUME Init PROVE TypeOK
  OBVIOUS
<1>1. store \in [Positions -> Values] /\ config \in [Nodes -> [Positions -> Values]]
  BY ConstantFacts DEF Init
<1>2. /\ pc \in [Nodes -> {"idle", "start", "get", "put", "done", "failed"}]
      /\ idx \in [Nodes -> Positions] /\ password \in [Nodes -> Values]
      /\ fresh \in [Nodes -> BOOLEAN]
  BY ConstantFacts DEF Init
<1> QED BY <1>1, <1>2, ConstantFacts DEF Init, TypeOK

\* Every action keeps the types.
LEMMA NextType == TypeOK /\ [Next]_vars => TypeOK'
<1> SUFFICES ASSUME TypeOK, [Next]_vars PROVE TypeOK'
  OBVIOUS
<1>1. CASE UNCHANGED vars
  BY <1>1 DEF TypeOK, vars
<1>2. CASE StartBuild
  BY <1>2 DEF TypeOK, StartBuild, deploy
<1>3. CASE EndBuild
  BY <1>3, ConstantFacts DEF TypeOK, EndBuild, ForgetHooks, deploy
<1>4. CASE Render
  BY <1>4, ConstantFacts DEF TypeOK, Render, locals
<1>5. CASE HealthCheck
  BY <1>5, ConstantFacts DEF TypeOK, HealthCheck, locals
<1>6. ASSUME NEW w \in Nodes, Enter(w) PROVE TypeOK'
  BY <1>6 DEF TypeOK, Enter, deploy
<1>7. ASSUME NEW w \in Nodes, Get(w) PROVE TypeOK'
  <2>1. password' \in [Nodes -> Values]
    BY <1>7, ConstantFacts DEF Get, TypeOK
  <2>2. CASE NeedsPut(w)
    BY <1>7, <2>1, <2>2 DEF Get, TypeOK, deploy
  <2>3. CASE ~NeedsPut(w)
    BY <1>7, <2>1, <2>3, NextSecretType DEF Get, TypeOK, deploy
  <2> QED BY <2>2, <2>3
<1>8. ASSUME NEW w \in Nodes, PutUsername(w) PROVE TypeOK'
  BY <1>8, NextSecretType, ConstantFacts DEF PutUsername, TypeOK, deploy
<1>9. ASSUME NEW w \in Nodes, PutToken(w) PROVE TypeOK'
  <2>1. made + 1 \in Values /\ made + 1 \in 1..(MaxSecrets + 1)
    BY <1>9, ConstantFacts DEF PutToken, TypeOK, Values
  <2>2. IsPassword(idx[w]) \in BOOLEAN
    BY DEF IsPassword
  <2> QED BY <1>9, <2>1, <2>2, NextSecretType DEF PutToken, TypeOK, deploy
<1>10. ASSUME NEW w \in Nodes, PutBcrypt(w) PROVE TypeOK'
  BY <1>10, NextSecretType, ConstantFacts DEF PutBcrypt, TypeOK, deploy
<1>11. ASSUME NEW w \in Nodes, HookFails(w) PROVE TypeOK'
  BY <1>11, ConstantFacts DEF HookFails, Spend, TypeOK, deploy
<1>12. CASE DeployFails
  BY <1>12, ConstantFacts DEF DeployFails, Spend, TypeOK, locals
<1>13. ASSUME NEW k \in Positions, Delete(k) PROVE TypeOK'
  BY <1>13, ConstantFacts DEF Delete, Spend, TypeOK, locals, deploy
<1> QED BY <1>1, <1>2, <1>3, <1>4, <1>5, <1>6, <1>7, <1>8, <1>9, <1>10, <1>11, <1>12, <1>13
        DEF Next, OperatorStep, HookStep

\* The types of the secrets' hooks hold in every reachable state.
THEOREM SecretsTypeCorrect == Spec => []TypeOK
<1> QED BY InitType, NextType, PTL DEF Spec

-----------------------------------------------------------------------------
\* The inductive invariant.
Inv == TypeOK /\ Pairing

\* In the initial state nothing is stored and no hook runs.
LEMMA InitInv == Init => Inv
BY InitType, ConstantFacts DEF Init, Inv, Pairing, Exclusive, Wanted, Fresh, Known,
                               BcryptFollowsPassword, Running

\* A hook that has not ended belongs to the build, and the one that makes
\* secrets is alone.
LEMMA Alone ==
    ASSUME Inv, NEW w \in Nodes, pc[w] # "idle"
    PROVE  /\ stage = "build"
           /\ Running(w) => w = primary /\ \A v \in Nodes \ {w} : ~Running(v)
BY DEF Inv, Pairing, Exclusive

\* A step outside the hooks that leaves the store alone keeps the invariant.
LEMMA NoHookStep ==
    ASSUME Inv, UNCHANGED <<job, store, made, torn>>, TypeOK',
           \A w \in Nodes : pc[w] \notin {"get", "put"},
           \A w \in Nodes : pc'[w] \in {"idle", "start"} /\ idx'[w] = 1 /\ ~fresh'[w],
           stage' # "build" => \A w \in Nodes : pc'[w] = "idle"
    PROVE  Inv'
BY DEF Inv, Pairing, Exclusive, Wanted, Fresh, Known, BcryptFollowsPassword, Running, IsBcrypt

\* A step of the deploy keeps the invariant.
LEMMA DeployInv ==
    ASSUME Inv, TypeOK', stage \in {"render", "check"}, stage' # "build",
           UNCHANGED <<job, store, made, primary, locals, torn>>
    PROVE  Inv'
<1>1. \A w \in Nodes : pc[w] = "idle" /\ idx[w] = 1 /\ ~fresh[w]
  BY DEF Inv, Pairing, Exclusive, Fresh
<1> QED BY <1>1, NoHookStep DEF locals

\* Every step of a hook keeps the invariant.
LEMMA HookInv ==
    ASSUME Inv, TypeOK', NEW w \in Nodes, HookStep(w) \/ HookFails(w)
    PROVE  Inv'
<1>1. /\ TypeOK /\ Exclusive /\ Wanted /\ Fresh /\ Known /\ BcryptFollowsPassword
      /\ stage = "build" /\ pc[w] # "idle" /\ idx[w] \in Positions
  BY Alone DEF Inv, Pairing, HookStep, HookFails, Enter, Get, PutUsername, PutToken,
               PutBcrypt, Running, TypeOK
<1> DEFINE Advances == IF idx[w] < 3 THEN pc'[w] = "get" /\ idx'[w] = idx[w] + 1
                                    ELSE pc'[w] = "done" /\ idx'[w] = idx[w]
<1>2. CASE Enter(w)
  <2>1. /\ UNCHANGED <<job, store, primary, idx, password, fresh, stage, torn>>
        /\ pc'[w] = IF w = primary THEN "get" ELSE "done"
        /\ \A v \in Nodes \ {w} : pc'[v] = pc[v]
        /\ pc[w] = "start" /\ idx[w] = 1 /\ ~fresh[w]
    BY <1>1, <1>2 DEF Enter, TypeOK, Fresh
  <2>2. Exclusive'
    BY <1>1, <2>1 DEF Exclusive, Running
  <2>3. Wanted'
    BY <1>1, <2>1 DEF Wanted, NeedsPut, IsBcrypt
  <2>4. Fresh'
    BY <1>1, <2>1 DEF Fresh
  <2>5. Known'
    BY <1>1, <2>1 DEF Known, Running, IsBcrypt, BcryptAt
  <2>6. BcryptFollowsPassword'
    BY <1>1, <2>1 DEF BcryptFollowsPassword, Running
  <2> QED BY <2>2, <2>3, <2>4, <2>5, <2>6 DEF Inv, Pairing
<1>3. CASE Get(w)
  <2>1. /\ UNCHANGED <<job, store, primary, fresh, stage, torn>>
        /\ pc[w] = "get" /\ Running(w)
        /\ \A v \in Nodes \ {w} : ~Running(v) /\ pc'[v] = pc[v] /\ idx'[v] = idx[v]
        /\ pc'[w] \in {"get", "put", "done"}
    BY <1>1, <1>3, Alone, NextSecretType DEF Get, TypeOK, Running
  <2>2. /\ pc'[w] = "put" => NeedsPut(w) /\ idx'[w] = idx[w]
        /\ pc'[w] = "get" => idx[w] < 3 /\ idx'[w] = idx[w] + 1
        /\ pc'[w] = "done" => ~NeedsPut(w) /\ idx'[w] = idx[w]
    BY <1>1, <1>3, NextSecretType DEF Get, TypeOK
  <2>3. Exclusive'
    BY <1>1, <2>1 DEF Exclusive, Running
  <2>4. Wanted'
    BY <1>1, <2>1, <2>2 DEF Wanted, NeedsPut, IsBcrypt, Running
  <2>5. Fresh'
    BY <1>1, <2>1, <2>2 DEF Fresh, BcryptAt
  <2>6. Known'
    <3>1. ASSUME Running(w)', IsBcrypt(idx[w])' PROVE store[PasswordAt] \in {None, password'[w]}
      <4>1. CASE pc'[w] = "put"
        <5>1. IsBcrypt(idx[w]) /\ password'[w] = password[w]
          BY <1>1, <1>3, <2>1, <2>2, <3>1, <4>1, PositionFacts DEF Get, IsBcrypt
        <5> QED BY <1>1, <2>1, <5>1 DEF Known
      <4>2. CASE pc'[w] = "get"
        <5>1. IsPassword(idx[w])
          BY <1>1, <2>1, <2>2, <3>1, <4>2 DEF IsBcrypt, IsPassword, BcryptAt, PasswordAt, Positions
        <5> QED BY <1>1, <1>3, <5>1 DEF Get, TypeOK
      <4> QED BY <2>1, <3>1, <4>1, <4>2 DEF Running
    <3> QED BY <2>1, <3>1 DEF Known, Running
  <2>7. BcryptFollowsPassword'
    <3>1. fresh[w] => pc'[w] = "put"
      BY <1>1, <1>3, <2>1 DEF Get, Fresh, NeedsPut, IsBcrypt, TypeOK
    <3> QED BY <1>1, <2>1, <3>1 DEF BcryptFollowsPassword, Running
  <2> QED BY <2>3, <2>4, <2>5, <2>6, <2>7 DEF Inv, Pairing
<1>4. ASSUME pc[w] = "put", NextSecret(w), UNCHANGED <<job, primary, stage>>
      PROVE  /\ Running(w) /\ Exclusive' /\ Wanted'
             /\ \A v \in Nodes \ {w} : ~Running(v) /\ ~Running(v)' /\ pc'[v] = pc[v] /\ idx'[v] = idx[v]
             /\ Advances
  <2>1. Running(w)
    BY <1>4 DEF Running
  <2>2. /\ w = primary
        /\ \A v \in Nodes \ {w} : ~Running(v) /\ pc'[v] = pc[v] /\ idx'[v] = idx[v]
        /\ Advances
    BY <1>1, <1>4, <2>1, Alone, NextSecretType
  <2>3. \A v \in Nodes : pc'[v] # "put"
    BY <2>2 DEF Running
  <2> QED BY <1>1, <1>4, <2>1, <2>2, <2>3 DEF Exclusive, Wanted, Running
<1>5. CASE PutUsername(w)
  <2>1. /\ Running(w) /\ Exclusive' /\ Wanted'
        /\ \A v \in Nodes \ {w} : ~Running(v) /\ ~Running(v)' /\ pc'[v] = pc[v] /\ idx'[v] = idx[v]
        /\ pc'[w] = "get" /\ idx'[w] = 2
    BY <1>1, <1>4, <1>5 DEF PutUsername, IsUsername
  <2>2. /\ UNCHANGED <<job, password, fresh, torn>> /\ ~fresh[w]
        /\ store'[PasswordAt] = store[PasswordAt] /\ store'[BcryptAt] = store[BcryptAt]
    BY <1>1, <1>5 DEF PutUsername, IsUsername, Fresh, TypeOK, Positions, PasswordAt, BcryptAt
  <2>3. Fresh' /\ Known'
    BY <1>1, <2>1, <2>2 DEF Fresh, Known, IsBcrypt, BcryptAt
  <2>4. BcryptFollowsPassword'
    BY <1>1, <2>1, <2>2 DEF BcryptFollowsPassword, Running
  <2> QED BY <2>1, <2>3, <2>4 DEF Inv, Pairing
<1>6. CASE PutToken(w)
  <2>1. /\ Running(w) /\ Exclusive' /\ Wanted'
        /\ \A v \in Nodes \ {w} : ~Running(v) /\ ~Running(v)' /\ pc'[v] = pc[v] /\ idx'[v] = idx[v]
        /\ Advances
        /\ UNCHANGED <<job, torn>>
    BY <1>1, <1>4, <1>6 DEF PutToken
  <2>2. /\ fresh'[w] = IsPassword(idx[w])
        /\ \A v \in Nodes \ {w} : fresh'[v] = fresh[v]
    BY <1>1, <1>6 DEF PutToken, TypeOK
  <2>3. CASE job = "prometheus"
    <3>1. IsPassword(idx[w]) /\ idx'[w] = 3 /\ pc'[w] = "get"
      BY <1>1, <1>6, <2>1, <2>3, PositionFacts DEF PutToken, PasswordAt
    <3>2. store'[PasswordAt] = made + 1 /\ password'[w] = made + 1
      BY <1>1, <1>6, <3>1, ConstantFacts, PositionFacts DEF PutToken, TypeOK
    <3>3. Fresh'
      BY <1>1, <2>1, <2>2, <2>3, <3>1 DEF Fresh, BcryptAt
    <3>4. Known'
      BY <2>1, <3>2 DEF Known
    <3>5. BcryptFollowsPassword'
      BY <2>2, <3>1 DEF BcryptFollowsPassword, Running
    <3> QED BY <2>1, <3>3, <3>4, <3>5 DEF Inv, Pairing
  <2>4. CASE job # "prometheus"
    <3>1. Fresh'
      BY <1>1, <2>1, <2>2, <2>4 DEF Fresh, IsPassword
    <3> QED BY <2>1, <2>4, <3>1 DEF Inv, Pairing, Known, BcryptFollowsPassword, IsBcrypt
  <2> QED BY <2>3, <2>4
<1>7. CASE PutBcrypt(w)
  <2>1. /\ Running(w) /\ Exclusive' /\ Wanted'
        /\ \A v \in Nodes \ {w} : ~Running(v) /\ ~Running(v)' /\ pc'[v] = pc[v] /\ idx'[v] = idx[v]
        /\ pc'[w] = "done" /\ idx'[w] = idx[w]
        /\ UNCHANGED <<job, password, fresh>>
    BY <1>1, <1>4, <1>7, PositionFacts DEF PutBcrypt
  <2>2. Fresh' /\ Known'
    BY <1>1, <2>1 DEF Fresh, Known, Running
  <2>3. /\ store'[BcryptAt] = password[w] /\ store'[PasswordAt] = store[PasswordAt]
        /\ store[PasswordAt] \in {None, password[w]}
    BY <1>1, <1>7, <2>1, ConstantFacts, PositionFacts DEF PutBcrypt, TypeOK, Known
  <2>4. BcryptFollowsPassword'
    BY <2>3 DEF BcryptFollowsPassword
  <2> QED BY <2>1, <2>2, <2>4 DEF Inv, Pairing
<1>8. CASE HookFails(w)
  <2>1. /\ UNCHANGED <<job, store, primary, idx, password, fresh, stage>>
        /\ pc'[w] = "failed" /\ \A v \in Nodes \ {w} : pc'[v] = pc[v]
        /\ torn' = (torn \/ (fresh[w] /\ store[BcryptAt] # None))
    BY <1>1, <1>8 DEF HookFails, TypeOK
  <2>2. Exclusive'
    BY <1>1, <2>1 DEF Exclusive, Running
  <2>3. Wanted'
    BY <1>1, <2>1 DEF Wanted, NeedsPut, IsBcrypt
  <2>4. Fresh' /\ Known'
    BY <1>1, <2>1 DEF Fresh, Known, Running, IsBcrypt
  <2>5. BcryptFollowsPassword'
    BY <1>1, <2>1 DEF BcryptFollowsPassword, Running
  <2> QED BY <2>2, <2>3, <2>4, <2>5 DEF Inv, Pairing
<1> QED BY <1>2, <1>3, <1>5, <1>6, <1>7, <1>8 DEF HookStep

\* Every step keeps the invariant.
LEMMA NextInv == Inv /\ [Next]_vars => Inv'
<1> SUFFICES ASSUME Inv, [Next]_vars PROVE Inv'
  OBVIOUS
<1>1. TypeOK'
  BY NextType DEF Inv
<1>2. CASE UNCHANGED vars
  BY <1>1, <1>2 DEF vars, Inv, Pairing, Exclusive, Wanted, NeedsPut, Fresh, Known,
                    BcryptFollowsPassword, Running, IsBcrypt
<1>3. CASE StartBuild
  <2>1. \A w \in Nodes : pc[w] = "idle" /\ idx[w] = 1 /\ ~fresh[w]
    BY <1>3 DEF StartBuild, Inv, Pairing, Exclusive, Fresh
  <2> QED BY <1>1, <1>3, <2>1, NoHookStep DEF StartBuild
<1>4. CASE EndBuild
  BY <1>1, <1>4, NoHookStep DEF EndBuild, ForgetHooks
<1>5. CASE Render \/ HealthCheck \/ DeployFails
  BY <1>1, <1>5, DeployInv DEF Render, HealthCheck, DeployFails
<1>6. ASSUME NEW w \in Nodes, HookStep(w) \/ HookFails(w) PROVE Inv'
  BY <1>1, <1>6, HookInv
<1>7. ASSUME NEW k \in Positions, Delete(k) PROVE Inv'
  <2>1. /\ UNCHANGED <<job, primary, pc, idx, password, fresh, stage>>
        /\ \A j \in Positions : store'[j] \in {store[j], None}
        /\ store'[k] = None /\ torn' = (torn /\ k # BcryptAt)
        /\ \A w \in Nodes : idx[w] \in Positions
    BY <1>7 DEF Delete, locals, Inv, TypeOK
  <2>2. Exclusive' /\ Fresh'
    BY <2>1 DEF Inv, Pairing, Exclusive, Fresh, Running
  <2>3. Wanted'
    BY <2>1 DEF Inv, Pairing, Wanted, NeedsPut, IsBcrypt
  <2>4. Known'
    BY <2>1, ConstantFacts DEF Inv, Pairing, Known, Running, IsBcrypt
  <2>5. BcryptFollowsPassword'
    BY <2>1, ConstantFacts DEF Inv, Pairing, BcryptFollowsPassword, Running
  <2> QED BY <1>1, <2>2, <2>3, <2>4, <2>5 DEF Inv, Pairing
<1> QED BY <1>2, <1>3, <1>4, <1>5, <1>6, <1>7 DEF Next, OperatorStep

\* The inductive invariant holds in every reachable state.
THEOREM PairingCorrect == Spec => []Pairing
<1>1. Inv => Pairing
  BY DEF Inv
<1> QED BY InitInv, NextInv, <1>1, PTL DEF Spec

\* The stored bcrypt is that of the stored password, unless a build that made a
\* new password died before it put the bcrypt of it.
THEOREM BcryptPaired == Spec => []BcryptFollowsPassword
<1>1. Inv => BcryptFollowsPassword
  BY DEF Inv, Pairing
<1> QED BY InitInv, NextInv, <1>1, PTL DEF Spec

\* What SecretsKept says of one step.
Keeps ==
    \A k \in Positions :
        None \notin {store[k], store'[k]} /\ store'[k] # store[k] =>
            IsBcrypt(k) /\ store[PasswordAt] \in {store'[k], None}

\* A put never replaces a secret, but for the bcrypt of a new password.
LEMMA KeepsStep == Inv /\ [Next]_vars => Keeps
<1> SUFFICES ASSUME Inv, [Next]_vars PROVE Keeps
  OBVIOUS
<1>1. TypeOK /\ Wanted /\ Known
  BY DEF Inv, Pairing
<1>2. CASE store' = store
  BY <1>2 DEF Keeps
<1>3. ASSUME NEW w \in Nodes, PutUsername(w) \/ PutToken(w) PROVE Keeps
  <2>1. store[idx[w]] = None
    BY <1>1, <1>3, PositionFacts DEF PutUsername, PutToken, Wanted, NeedsPut, TypeOK
  <2>2. \A k \in Positions : k # idx[w] => store'[k] = store[k]
    BY <1>1, <1>3 DEF PutUsername, PutToken, TypeOK
  <2> QED BY <2>1, <2>2 DEF Keeps
<1>4. ASSUME NEW w \in Nodes, PutBcrypt(w) PROVE Keeps
  <2>1. store[PasswordAt] \in {None, password[w]}
    BY <1>1, <1>4 DEF PutBcrypt, Known, Running
  <2>2. \A k \in Positions : IF k = BcryptAt THEN store'[k] = password[w] ELSE store'[k] = store[k]
    BY <1>1, <1>4 DEF PutBcrypt, TypeOK
  <2>3. IsBcrypt(BcryptAt)
    BY <1>4 DEF PutBcrypt, IsBcrypt
  <2> QED BY <2>1, <2>2, <2>3 DEF Keeps
<1>5. ASSUME NEW k \in Positions, Delete(k) PROVE Keeps
  BY <1>1, <1>5 DEF Delete, TypeOK, Keeps
<1>6. store' = store \/ (\E w \in Nodes : PutUsername(w) \/ PutToken(w) \/ PutBcrypt(w))
        \/ \E k \in Positions : Delete(k)
  BY DEF Next, OperatorStep, HookStep, StartBuild, EndBuild, Render, HealthCheck, Enter, Get,
         HookFails, DeployFails, vars
<1> QED BY <1>2, <1>3, <1>4, <1>5, <1>6

\* No step of any hook replaces a stored secret, but for the bcrypt of a password
\* that was replaced.
THEOREM SecretsAreKept == Spec => SecretsKept
<1>1. Inv /\ [Next]_vars => [Keeps]_vars
  BY KeepsStep
<1> QED BY InitInv, NextInv, <1>1, PTL DEF Spec, SecretsKept, Keeps
-----------------------------------------------------------------------------
\* What a build that died between a new password and its bcrypt leaves.

\* Secrets are told apart by the order they were generated in.
Numbered ==
    /\ \A k \in Positions : store[k] <= made
    /\ \A w \in Nodes : password[w] <= made /\ \A k \in Positions : config[w][k] <= made

\* No server has, or can be given, the bcrypt of the stored password.
Locked ==
    store[PasswordAt] # None =>
        /\ store[BcryptAt] # store[PasswordAt]
        /\ \A w \in Nodes : config[w][BcryptAt] # store[PasswordAt]

\* Between a new password and its bcrypt, and for as long as the bcrypt of an
\* older one stays, the password is of no use.
Outdated ==
    /\ torn => job = "prometheus" /\ store[BcryptAt] # None
    /\ torn \/ (\E w \in Nodes : Running(w) /\ fresh[w]) => Locked

LInv == Inv /\ Numbered /\ Outdated

\* Nothing is stored, and nothing is torn, in the initial state.
LEMMA InitLInv == Init => LInv
<1> SUFFICES ASSUME Init PROVE LInv
  OBVIOUS
<1>1. Inv
  BY InitInv
<1>2. Numbered
  BY ConstantFacts DEF Init, Numbered, None, Username
<1>3. Outdated
  BY ConstantFacts DEF Init, Outdated, Running
<1> QED BY <1>1, <1>2, <1>3 DEF LInv

\* A step that changes neither the store nor a configuration, and starts no
\* hook with a new password.
LEMMA QuietLInv ==
    ASSUME LInv, Inv', UNCHANGED <<job, store, made, config>>, torn' => torn,
           \A w \in Nodes : password'[w] \in {password[w], store[PasswordAt], None},
           \A w \in Nodes : (Running(w) /\ fresh[w])' => Running(w) /\ fresh[w]
    PROVE  LInv'
<1>1. Numbered'
  BY ConstantFacts DEF LInv, Numbered, Inv, TypeOK, None
<1>2. Outdated'
  BY DEF LInv, Outdated, Locked
<1> QED BY <1>1, <1>2 DEF LInv

\* A put of a hook keeps the invariant.
LEMMA PutLInv ==
    ASSUME LInv, Inv', NEW w \in Nodes, PutUsername(w) \/ PutToken(w) \/ PutBcrypt(w)
    PROVE  LInv'
<1>0. Inv /\ pc[w] = "put"
  BY DEF LInv, PutUsername, PutToken, PutBcrypt
<1>1. /\ TypeOK /\ Fresh /\ Known /\ Numbered /\ Outdated /\ idx[w] \in Positions
      /\ Running(w) /\ \A v \in Nodes \ {w} : ~Running(v)
      /\ made \in Nat /\ \A k \in Positions : store[k] \in Nat
      /\ \A v \in Nodes : password[v] \in Nat /\ \A k \in Positions : config[v][k] \in Nat
      /\ UNCHANGED <<job, config>>
  <2>1. Running(w) /\ \A v \in Nodes \ {w} : ~Running(v)
    BY <1>0, Alone DEF Running
  <2>2. TypeOK /\ Fresh /\ Known /\ Numbered /\ Outdated /\ idx[w] \in Positions
    BY <1>0 DEF LInv, Inv, Pairing, TypeOK
  <2>3. /\ made \in Nat /\ \A k \in Positions : store[k] \in Nat
        /\ \A v \in Nodes : password[v] \in Nat /\ \A k \in Positions : config[v][k] \in Nat
    BY <2>2, ConstantFacts DEF TypeOK, Values
  <2>4. UNCHANGED <<job, config>>
    BY DEF PutUsername, PutToken, PutBcrypt, deploy
  <2> QED BY <2>1, <2>2, <2>3, <2>4
<1>2. NextSecret(w)
  BY DEF PutUsername, PutToken, PutBcrypt
<1>3. /\ pc'[w] \in {"get", "done"} /\ (pc'[w] = "done" => ~(idx[w] < 3))
      /\ \A v \in Nodes \ {w} : ~Running(v)'
  BY <1>0, <1>1, <1>2, NextSecretType DEF Running
<1>4. CASE PutUsername(w)
  <2>1. /\ ~fresh[w] /\ fresh' = fresh /\ torn' = torn /\ made' = made
        /\ store'[PasswordAt] = store[PasswordAt] /\ store'[BcryptAt] = store[BcryptAt]
        /\ \A k \in Positions : store'[k] \in {store[k], Username}
        /\ password' = password
    BY <1>1, <1>4 DEF PutUsername, IsUsername, Fresh, TypeOK, Positions, PasswordAt, BcryptAt
  <2>2. Numbered'
    BY <1>1, <2>1, ConstantFacts DEF Numbered, Username, TypeOK
  <2>3. Outdated'
    BY <1>1, <1>3, <2>1 DEF Outdated, Locked
  <2> QED BY <2>2, <2>3 DEF LInv
<1>5. CASE PutToken(w)
  <2>1. /\ made' = made + 1 /\ torn' = torn /\ store'[idx[w]] = made + 1
        /\ \A k \in Positions : k # idx[w] => store'[k] = store[k]
        /\ fresh'[w] = IsPassword(idx[w])
        /\ \A v \in Nodes : password'[v] \in {password[v], made + 1}
    BY <1>1, <1>5 DEF PutToken, TypeOK
  <2>2. Numbered'
    BY <1>1, <2>1 DEF Numbered
  <2>3. CASE job = "prometheus"
    <3>1. idx[w] = PasswordAt /\ PasswordAt # BcryptAt
      BY <1>1, <1>5, <2>3, PositionFacts DEF PutToken
    <3>2. Locked'
      BY <1>1, <2>1, <3>1, ConstantFacts DEF Locked, Numbered
    <3> QED BY <1>1, <2>1, <2>2, <3>1, <3>2, ConstantFacts DEF LInv, Outdated
  <2>4. CASE job # "prometheus"
    BY <1>1, <1>3, <2>1, <2>2, <2>4 DEF LInv, Outdated, IsPassword
  <2> QED BY <2>3, <2>4
<1>6. CASE PutBcrypt(w)
  <2>1. /\ ~torn' /\ made' = made /\ idx[w] = 3
        /\ \A k \in Positions : store'[k] \in {store[k], password[w]}
        /\ password' = password
    BY <1>1, <1>6 DEF PutBcrypt, TypeOK, IsBcrypt, BcryptAt
  <2>2. ~Running(w)'
    BY <1>2, <2>1, <1>1, NextSecretType DEF Running
  <2>3. password[w] \in Nat /\ password[w] <= made
    BY <1>1 DEF Numbered
  <2>4. Numbered'
    BY <1>1, <2>1, <2>3 DEF Numbered
  <2> QED BY <1>1, <1>3, <2>1, <2>2, <2>4 DEF LInv, Outdated
<1> QED BY <1>4, <1>5, <1>6

\* Every step keeps the invariant.
LEMMA NextLInv == LInv /\ [Next]_vars => LInv'
<1> SUFFICES ASSUME LInv, [Next]_vars PROVE LInv'
  OBVIOUS
<1>0. /\ Inv' /\ TypeOK /\ Fresh /\ Exclusive /\ Numbered /\ Outdated
  BY NextInv DEF LInv, Inv, Pairing
<1>1. CASE UNCHANGED vars
  BY <1>0, <1>1, QuietLInv DEF vars, Running
<1>2. CASE StartBuild
  BY <1>0, <1>2, QuietLInv DEF StartBuild, deploy, Running, TypeOK
<1>3. CASE EndBuild
  BY <1>0, <1>3, QuietLInv DEF EndBuild, ForgetHooks, deploy
<1>4. CASE HealthCheck \/ DeployFails
  BY <1>0, <1>4, QuietLInv DEF HealthCheck, DeployFails, locals, Running
<1>5. CASE Render
  <2>1. /\ UNCHANGED <<job, store, made, locals, torn>>
        /\ \A w \in Nodes : config'[w] \in {config[w], store}
        /\ \A w \in Nodes : ~Running(w)
    BY <1>0, <1>5, ConstantFacts DEF Render, Exclusive, Running, TypeOK
  <2>2. Numbered'
    BY <1>0, <2>1 DEF Numbered, locals
  <2>3. Outdated'
    BY <1>0, <2>1, ConstantFacts DEF Outdated, Locked, locals, Running
  <2> QED BY <1>0, <2>2, <2>3 DEF LInv
<1>6. ASSUME NEW w \in Nodes, Enter(w) PROVE LInv'
  BY <1>0, <1>6, QuietLInv DEF Enter, deploy, Running, Fresh, TypeOK
<1>7. ASSUME NEW w \in Nodes, Get(w) PROVE LInv'
  <2>1. \A v \in Nodes : Running(v)' => Running(v)
    BY <1>0, <1>7, NextSecretType DEF Get, Running, TypeOK
  <2>2. \A v \in Nodes : password'[v] \in {password[v], store[PasswordAt]}
    BY <1>0, <1>7 DEF Get, TypeOK
  <2>3. UNCHANGED <<job, store, made, config, fresh, torn>>
    BY <1>7 DEF Get, deploy
  <2> QED BY <1>0, <2>1, <2>2, <2>3, QuietLInv
<1>8. ASSUME NEW w \in Nodes, PutUsername(w) \/ PutToken(w) \/ PutBcrypt(w) PROVE LInv'
  BY <1>0, <1>8, PutLInv
<1>9. ASSUME NEW w \in Nodes, HookFails(w) PROVE LInv'
  <2>1. /\ UNCHANGED <<job, store, made, password, config, fresh>>
        /\ torn' = (torn \/ (fresh[w] /\ store[BcryptAt] # None))
        /\ \A v \in Nodes : Running(v)' => Running(v)
    BY <1>0, <1>9 DEF HookFails, deploy, Running, TypeOK
  <2>2. fresh[w] => job = "prometheus" /\ Running(w)
    BY <1>0, <1>9 DEF HookFails, Fresh, Running
  <2>3. Numbered'
    BY <1>0, <2>1 DEF Numbered
  <2>4. Outdated'
    BY <1>0, <2>1, <2>2 DEF Outdated, Locked
  <2> QED BY <1>0, <2>3, <2>4 DEF LInv
<1>10. ASSUME NEW k \in Positions, Delete(k) PROVE LInv'
  <2>1. /\ UNCHANGED <<job, made, password, config, fresh, pc>>
        /\ \A j \in Positions : store'[j] = IF j = k THEN None ELSE store[j]
        /\ torn' = (torn /\ k # BcryptAt)
    BY <1>0, <1>10 DEF Delete, deploy, locals, TypeOK
  <2>2. Numbered'
    BY <1>0, <2>1, ConstantFacts DEF Numbered, None, TypeOK
  <2>3. Locked => Locked'
    BY <2>1, ConstantFacts DEF Locked
  <2>4. Outdated'
    BY <1>0, <2>1, <2>3, ConstantFacts DEF Outdated, Running
  <2> QED BY <1>0, <2>2, <2>4 DEF LInv
<1> QED BY <1>1, <1>2, <1>3, <1>4, <1>5, <1>6, <1>7, <1>8, <1>9, <1>10
        DEF Next, OperatorStep, HookStep

\* Where a build left the bcrypt of an older password, no server lets in who
\* knows the stored one: not those that run, and not those a deploy starts.
THEOREM TornLocksOut == Spec => [](torn => \A w \in Nodes : ~LogsIn(w))
<1>1. LInv => (torn => \A w \in Nodes : ~LogsIn(w))
  BY DEF LInv, Outdated, Locked, LogsIn
<1> QED BY InitLInv, NextLInv, <1>1, PTL DEF Spec

\* A pair is torn by the failure of a hook that just made a password over the
\* bcrypt of an older one, and by nothing else.
THEOREM TornHasACause ==
    Spec => [][~torn /\ torn' => /\ faults' = faults + 1
                                 /\ store[BcryptAt] # None
                                 /\ \E w \in Nodes : Running(w) /\ fresh[w]]_vars
<1> DEFINE Cause == ~torn /\ torn' => /\ faults' = faults + 1
                                     /\ store[BcryptAt] # None
                                     /\ \E w \in Nodes : Running(w) /\ fresh[w]
<1>1. LInv /\ [Next]_vars => [Cause]_vars
  <2> SUFFICES ASSUME LInv, Next, ~torn, torn'
               PROVE  /\ faults' = faults + 1 /\ store[BcryptAt] # None
                      /\ \E w \in Nodes : Running(w) /\ fresh[w]
    OBVIOUS
  <2>1. PICK w \in Nodes : HookFails(w)
    BY DEF Next, OperatorStep, HookStep, StartBuild, EndBuild, Render, HealthCheck, Enter, Get,
           PutUsername, PutToken, PutBcrypt, DeployFails, Delete
  <2>2. fresh[w] /\ store[BcryptAt] # None /\ faults' = faults + 1
    BY <2>1 DEF HookFails, Spend
  <2>3. Running(w)
    BY <2>1, <2>2 DEF HookFails, LInv, Inv, Pairing, Fresh
  <2> QED BY <2>2, <2>3
<1> QED BY InitLInv, NextLInv, <1>1, PTL DEF Spec

\* The pair a dead build left: a password is stored, so no build makes another.
TornPair ==
    /\ torn /\ store[PasswordAt] # None
    /\ \A w \in Nodes : ~(Running(w) /\ fresh[w])

\* No build and no deploy mends such a pair: it stays until somebody takes the
\* password or its bcrypt out of the store.
THEOREM TornStaysTorn ==
    Spec => [][TornPair => \/ TornPair'
                           \/ \E k \in {PasswordAt, BcryptAt} : store'[k] = None]_vars
<1> DEFINE Stays == TornPair => \/ TornPair'
                                \/ \E k \in {PasswordAt, BcryptAt} : store'[k] = None
<1>1. LInv /\ [Next]_vars => [Stays]_vars
  <2> SUFFICES ASSUME LInv, Next, TornPair, \A k \in {PasswordAt, BcryptAt} : store'[k] # None
               PROVE  TornPair'
    OBVIOUS
  <2>1. /\ TypeOK /\ Wanted /\ Fresh /\ Outdated /\ torn /\ job = "prometheus"
        /\ store[PasswordAt] # None /\ store[BcryptAt] # None
        /\ \A w \in Nodes : ~(Running(w) /\ fresh[w])
    BY DEF LInv, Inv, Pairing, Outdated, TornPair
  <2>2. ASSUME NEW w \in Nodes, pc[w] = "put" PROVE IsUsername(idx[w])
    <3>1. NeedsPut(w) /\ ~fresh[w] /\ idx[w] \in Positions
      BY <2>1, <2>2 DEF Wanted, Running, TypeOK
    <3> QED BY <2>1, <3>1, PositionFacts DEF NeedsPut
  <2>3. \A w \in Nodes : ~PutToken(w) /\ ~PutBcrypt(w)
    BY <2>1, <2>2, PositionFacts DEF PutToken, PutBcrypt, TypeOK
  <2>4. torn'
    BY <2>1, <2>3, ConstantFacts DEF Next, OperatorStep, HookStep, StartBuild, EndBuild, Render,
       HealthCheck, Enter, Get, PutUsername, HookFails, DeployFails, Delete, TypeOK
  <2>5. \A w \in Nodes : (Running(w) /\ fresh[w])' => Running(w) /\ fresh[w]
    <3>1. ASSUME NEW v \in Nodes, Get(v)
          PROVE  fresh' = fresh /\ \A w \in Nodes : Running(w)' => Running(w)
      BY <2>1, <3>1, NextSecretType DEF Get, Running, TypeOK
    <3>2. ASSUME NEW v \in Nodes, PutUsername(v)
          PROVE  fresh' = fresh /\ \A w \in Nodes : Running(w)' => Running(w)
      BY <2>1, <3>2, NextSecretType DEF PutUsername, Running, TypeOK
    <3>3. ASSUME NEW v \in Nodes, Enter(v)
          PROVE  fresh' = fresh /\ \A w \in Nodes : Running(w)' => Running(w) \/ ~fresh[w]
      BY <2>1, <3>3 DEF Enter, Running, Fresh, TypeOK
    <3>4. ASSUME NEW v \in Nodes, HookFails(v)
          PROVE  fresh' = fresh /\ \A w \in Nodes : Running(w)' => Running(w)
      BY <2>1, <3>4 DEF HookFails, Running, TypeOK
    <3>5. CASE StartBuild \/ EndBuild
      BY <3>5 DEF StartBuild, EndBuild, ForgetHooks, Running
    <3>6. CASE Render \/ HealthCheck \/ DeployFails \/ \E k \in Positions : Delete(k)
      BY <3>6 DEF Render, HealthCheck, DeployFails, Delete, locals, Running
    <3> QED BY <2>3, <3>1, <3>2, <3>3, <3>4, <3>5, <3>6 DEF Next, OperatorStep, HookStep
  <2> QED BY <2>1, <2>4, <2>5 DEF TornPair
<1> QED BY InitLInv, NextLInv, <1>1, PTL DEF Spec

\* As long as nobody deletes a secret, a bcrypt is only stored along with its
\* password, so that no hook makes a password over a bcrypt.
Whole ==
    /\ ~torn
    /\ job = "prometheus" =>
          /\ store[BcryptAt] # None => store[PasswordAt] # None
          /\ \A w \in Nodes : Running(w) =>
                /\ IsBcrypt(idx[w]) => store[PasswordAt] # None
                /\ fresh[w] => store[BcryptAt] = None

\* Without deletions every step of a hook keeps the pair whole.
LEMMA HookWhole ==
    ASSUME Inv, Whole, NEW w \in Nodes, HookStep(w) \/ HookFails(w)
    PROVE  Whole'
<1>0. /\ TypeOK /\ Wanted /\ Fresh /\ Known /\ idx[w] \in Positions
  BY DEF Inv, Pairing, TypeOK
<1>1. CASE Enter(w)
  <2>1. /\ ~fresh[w] /\ ~IsBcrypt(idx[w]) /\ UNCHANGED <<job, store, idx, fresh, torn>>
        /\ \A v \in Nodes \ {w} : pc'[v] = pc[v]
    BY <1>0, <1>1 DEF Enter, Fresh, IsBcrypt, BcryptAt, TypeOK
  <2> QED BY <2>1 DEF Whole, Running, IsBcrypt
<1>2. CASE Get(w)
  <2>1. /\ Running(w) /\ UNCHANGED <<job, store, fresh, torn>>
        /\ \A v \in Nodes \ {w} : pc'[v] = pc[v] /\ idx'[v] = idx[v]
        /\ IF NeedsPut(w) THEN idx'[w] = idx[w] ELSE NextSecret(w)
    BY <1>0, <1>2, NextSecretType DEF Get, Running, TypeOK
  <2>2. idx'[w] = idx[w] \/ (~NeedsPut(w) /\ idx'[w] = idx[w] + 1)
    BY <1>0, <2>1, NextSecretType
  <2>3. ASSUME job = "prometheus", IsBcrypt(idx[w])' PROVE store[PasswordAt] # None
    <3>1. CASE idx'[w] = idx[w]
      BY <2>1, <2>3, <3>1 DEF Whole, IsBcrypt
    <3>2. CASE ~NeedsPut(w) /\ idx'[w] = idx[w] + 1
      BY <1>0, <2>3, <3>2 DEF NeedsPut, IsBcrypt, BcryptAt, PasswordAt, Positions
    <3> QED BY <2>2, <3>1, <3>2
  <2> QED BY <2>1, <2>3 DEF Whole, Running, IsBcrypt
<1>3. CASE PutUsername(w) \/ PutToken(w) \/ PutBcrypt(w)
  <2>1. pc[w] = "put" /\ Running(w) /\ NextSecret(w) /\ UNCHANGED job /\ ~torn'
    BY <1>3 DEF PutUsername, PutToken, PutBcrypt, Running, Whole
  <2>2. /\ \A v \in Nodes \ {w} : ~Running(v)'
        /\ pc'[w] = "get" => idx[w] < 3 /\ idx'[w] = idx[w] + 1
        /\ pc'[w] \in {"get", "done"} /\ (pc'[w] = "done" => ~(idx[w] < 3))
    BY <1>0, <2>1, Alone, NextSecretType DEF Running
  <2>3. CASE job # "prometheus"
    BY <2>1, <2>3 DEF Whole
  <2>4. CASE PutUsername(w) /\ job = "prometheus"
    <3>1. /\ idx[w] = 1 /\ fresh' = fresh
          /\ store'[PasswordAt] = store[PasswordAt] /\ store'[BcryptAt] = store[BcryptAt]
      BY <1>0, <2>4 DEF PutUsername, IsUsername, TypeOK, Positions, PasswordAt, BcryptAt
    <3> QED BY <2>1, <2>2, <3>1 DEF Whole, Running, IsBcrypt, BcryptAt
  <2>5. CASE PutToken(w) /\ job = "prometheus"
    <3>1. idx[w] = PasswordAt /\ ~IsBcrypt(idx[w]) /\ store[PasswordAt] = None
      BY <1>0, <2>1, <2>5, PositionFacts DEF PutToken, Wanted, NeedsPut
    <3>2. store'[PasswordAt] = made + 1 /\ store'[BcryptAt] = store[BcryptAt] /\ made + 1 # None
      BY <1>0, <2>5, <3>1, ConstantFacts, PositionFacts DEF PutToken, TypeOK, None
    <3>3. store[BcryptAt] = None
      BY <2>5, <3>1 DEF Whole
    <3> QED BY <2>1, <2>2, <3>2, <3>3 DEF Whole, Running
  <2>6. CASE PutBcrypt(w) /\ job = "prometheus"
    <3>1. /\ ~(idx[w] < 3) /\ store[PasswordAt] # None
          /\ store'[PasswordAt] = store[PasswordAt]
      BY <1>0, <2>1, <2>6, PositionFacts DEF PutBcrypt, TypeOK, Whole
    <3> QED BY <2>1, <2>2, <3>1 DEF Whole, Running
  <2> QED BY <1>3, <2>3, <2>4, <2>5, <2>6
<1>4. CASE HookFails(w)
  <2>1. /\ UNCHANGED <<job, store, idx, fresh>>
        /\ \A v \in Nodes : Running(v)' => Running(v)
        /\ torn' = (torn \/ (fresh[w] /\ store[BcryptAt] # None))
        /\ fresh[w] => Running(w) /\ job = "prometheus"
    BY <1>0, <1>4 DEF HookFails, Running, Fresh, TypeOK
  <2> QED BY <2>1 DEF Whole, IsBcrypt
<1> QED BY <1>1, <1>2, <1>3, <1>4 DEF HookStep

\* It takes a dead build and a deleted password to tear a pair: where hooks
\* only die, or where secrets are only deleted, every build leaves the bcrypt of
\* the stored password.
THEOREM TornNeedsBoth ==
    ASSUME ~(AllFaults \subseteq FaultKinds)
    PROVE  Spec => []~torn
<1>1. CASE "kill" \notin FaultKinds
  <2>1. Init => ~torn
    BY DEF Init
  <2>2. ~torn /\ [Next]_vars => ~torn'
    BY <1>1 DEF Next, OperatorStep, HookStep, StartBuild, EndBuild, Render, HealthCheck, Enter,
       Get, PutUsername, PutToken, PutBcrypt, HookFails, DeployFails, Delete, Spend, vars
  <2> QED BY <2>1, <2>2, PTL DEF Spec
<1>2. CASE "delete" \notin FaultKinds
  <2>1. Init => Inv /\ Whole
    <3>1. ASSUME Init PROVE Whole
      BY <3>1, ConstantFacts DEF Init, Whole, Running
    <3> QED BY <3>1, InitInv
  <2>2. Inv /\ Whole /\ [Next]_vars => (Inv /\ Whole)'
    <3> SUFFICES ASSUME Inv, Whole, [Next]_vars PROVE Whole'
      BY NextInv
    <3>1. CASE UNCHANGED vars
      BY <3>1 DEF vars, Whole, Running, IsBcrypt
    <3>2. CASE StartBuild \/ EndBuild
      BY <3>2 DEF StartBuild, EndBuild, ForgetHooks, Whole, Running
    <3>3. CASE Render \/ HealthCheck \/ DeployFails
      BY <3>3 DEF Render, HealthCheck, DeployFails, locals, Whole, Running, IsBcrypt
    <3>4. ASSUME NEW w \in Nodes, HookStep(w) \/ HookFails(w) PROVE Whole'
      BY <3>4, HookWhole
    <3>5. ASSUME NEW k \in Positions, Delete(k) PROVE FALSE
      BY <1>2, <3>5 DEF Delete, Spend
    <3> QED BY <3>1, <3>2, <3>3, <3>4, <3>5 DEF Next, OperatorStep
  <2>3. Inv /\ Whole => ~torn
    BY DEF Whole
  <2> QED BY <2>1, <2>2, <2>3, PTL DEF Spec
<1> QED BY <1>1, <1>2 DEF AllFaults
=============================================================================
