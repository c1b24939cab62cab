------------------------- MODULE CassandraAdminProofs -------------------------
(***************************************************************************)
(* Proofs about CassandraAdmin, for every set of rotations, every number   *)
(* of workers and passwords and every budget of faults.                    *)
(***************************************************************************)
EXTENDS CassandraAdmin, TLAPS

\* The constants in the form the proofs use.
LEMMA ConstantFacts ==
    /\ N \in Nat /\ 1 \in 1..N /\ MaxFaults \in Nat /\ 0 \in 0..MaxFaults
    /\ MaxPasswords \in Nat /\ Default \in Passwords /\ None \notin Passwords
    /\ "deploy" \in Procs /\ "deploy" \notin Rotators
BY WorkersAssumption, RotatorsAssumption, BoundsAssumption
   DEF Nodes, Passwords, Default, None, Procs

\* A rotation is a process, every other process is the deploy.
LEMMA ProcFacts ==
    /\ \A r \in Rotators : r \in Procs /\ r # "deploy"
    /\ \A p \in Procs : p \in Rotators \/ p = "deploy"
BY RotatorsAssumption DEF Procs

\* The inductive invariant.
Inv == TypeOK /\ Ownership

\* In the initial state every password is the default or absent.
LEMMA InitInv == Init => Inv
<1> SUFFICES ASSUME Init PROVE Inv
  OBVIOUS
<1>1. TypeOK
  BY ConstantFacts DEF Init, TypeOK, Labels
<1>2. Generated
  BY DEF Init, Generated, Default, None
<1>3. OwnPassword
  BY ProcFacts DEF Init, OwnPassword, InWindow
<1>4. OrphansAreLost /\ InitKnowsKv /\ RoleIsRecorded
  BY ConstantFacts DEF Init, OrphansAreLost, InitKnowsKv, RoleIsRecorded
<1> QED BY <1>1, <1>2, <1>3, <1>4 DEF Inv, Ownership

\* The passwords the hooks set are passwords.
LEMMA NewIsPassword ==
    Inv =>
        /\ \A r \in Rotators : pc[r] \in {"alter", "confirm", "put"} => new[r] \in Passwords
        /\ pc["deploy"] = "alter" /\ role = Default => new["deploy"] \in Passwords
        /\ pc["deploy"] # "idle" => kv \in Passwords
<1> SUFFICES ASSUME Inv
             PROVE  /\ \A r \in Rotators : pc[r] \in {"alter", "confirm", "put"} => new[r] \in Passwords
                    /\ pc["deploy"] = "alter" /\ role = Default => new["deploy"] \in Passwords
                    /\ pc["deploy"] # "idle" => kv \in Passwords
  OBVIOUS
<1>1. TypeOK /\ OwnPassword /\ InitKnowsKv
  BY DEF Inv, Ownership
<1>2. ASSUME NEW r \in Rotators, pc[r] \in {"alter", "confirm", "put"} PROVE new[r] \in Passwords
  BY <1>1, <1>2, ProcFacts DEF OwnPassword, TypeOK
<1>3. pc["deploy"] # "idle" => kv \in Passwords
  BY <1>1 DEF InitKnowsKv, TypeOK
<1>4. pc["deploy"] = "alter" /\ role = Default => new["deploy"] \in Passwords
  BY <1>1, <1>3 DEF InitKnowsKv
<1> QED BY <1>2, <1>3, <1>4

\* The password generated next is a password.
LEMMA NextPassword ==
    ASSUME made \in Passwords, made < MaxPasswords + 1
    PROVE  made + 1 \in Passwords
BY BoundsAssumption DEF Passwords

\* A process that ends leaves typed locals.
LEMMA EndType ==
    ASSUME TypeOK, NEW p \in Procs, End(p), InWindow(p) => new[p] \in Passwords
    PROVE  /\ pc' \in [Procs -> Labels]
           /\ old' \in [Procs -> Passwords \cup {None}]
           /\ new' \in [Procs -> Passwords \cup {None}]
           /\ idx' \in [Procs -> 1..N]
           /\ orphaned' \in SUBSET Passwords
BY ConstantFacts DEF TypeOK, End, Forget, Labels

\* Every action keeps the types.
LEMMA NextType == Inv /\ [Next]_vars => TypeOK'
<1> SUFFICES ASSUME Inv, [Next]_vars PROVE TypeOK'
  OBVIOUS
<1>1. CASE UNCHANGED vars
  BY <1>1, ConstantFacts, NewIsPassword DEF Inv, TypeOK, Labels, vars
<1>2. CASE EnsureSecrets
  <2>1. TypeOK
    BY DEF Inv
  <2>2. CASE made < MaxPasswords + 1 /\ made' = made + 1 /\ kv' = made + 1
    <3>1. made + 1 \in Passwords
      BY <2>1, <2>2, NextPassword DEF TypeOK
    <3> QED BY <1>2, <2>1, <2>2, <3>1 DEF EnsureSecrets, TypeOK, Goto, Labels
  <2>3. CASE UNCHANGED <<kv, made>>
    BY <1>2, <2>1, <2>3 DEF EnsureSecrets, TypeOK, Goto, Labels
  <2> QED BY <1>2, <2>2, <2>3 DEF EnsureSecrets
<1>3. CASE Render
  <2>1. TypeOK /\ kv \in Passwords /\ ~InWindow("deploy")
    BY <1>3, NewIsPassword DEF Inv, Render, InWindow
  <2>2. CASE idx["deploy"] = 1
    BY <1>3, <2>1, <2>2, ConstantFacts DEF Render, TypeOK, Goto, Labels
  <2>3. CASE idx["deploy"] # 1 /\ idx["deploy"] < N
    <3>1. idx["deploy"] + 1 \in 1..N
      BY <2>1, <2>3, ConstantFacts DEF TypeOK
    <3> QED BY <1>3, <2>1, <2>3, <3>1, ConstantFacts DEF Render, TypeOK
  <2>4. CASE idx["deploy"] # 1 /\ ~(idx["deploy"] < N)
    <3>1. End("deploy") /\ env' = [env EXCEPT ![Workers[idx["deploy"]]] = kv]
          /\ UNCHANGED <<role, kv, cql, made, faults>>
      BY <1>3, <2>4 DEF Render
    <3> QED BY <2>1, <3>1, EndType, ConstantFacts DEF TypeOK
  <2> QED BY <2>2, <2>3, <2>4
<1>4. CASE InitRead
  BY <1>4, ConstantFacts, NewIsPassword DEF Inv, TypeOK, Labels, InitRead, dataVars
<1>5. CASE ProbeConfigured
  BY <1>5, ConstantFacts, NewIsPassword, EndType DEF Inv, TypeOK, Labels, ProbeConfigured, InitReturns, Goto, InWindow, dataVars
<1>6. CASE ProbeDefault
  BY <1>6, ConstantFacts, NewIsPassword DEF Inv, TypeOK, Labels, ProbeDefault, Goto, dataVars
<1>7. CASE InitTimeout
  BY <1>7, ConstantFacts, NewIsPassword, EndType DEF Inv, TypeOK, Labels, InitTimeout, Spend, InWindow, dataVars
<1>8. ASSUME NEW r \in Rotators, StartRotation(r) PROVE TypeOK'
  BY <1>8, ConstantFacts, NewIsPassword DEF Inv, TypeOK, Labels, StartRotation, Goto, dataVars
<1>9. ASSUME NEW r \in Rotators, RotateRead(r) PROVE TypeOK'
  <2>1. TypeOK /\ r \in Procs /\ ~InWindow(r)
    BY <1>9, ProcFacts DEF Inv, RotateRead, InWindow
  <2>2. CASE End(r)
    BY <1>9, <2>1, <2>2, EndType DEF RotateRead, TypeOK, dataVars
  <2>3. CASE ~End(r)
    BY <1>9, <2>1, <2>3 DEF RotateRead, TypeOK, Labels, dataVars
  <2> QED BY <2>2, <2>3
<1>10. ASSUME NEW r \in Rotators, RotateProbe(r) PROVE TypeOK'
  <2>1. TypeOK /\ r \in Procs /\ ~InWindow(r)
    BY <1>10, ProcFacts DEF Inv, RotateProbe, InWindow
  <2>2. CASE End(r) /\ UNCHANGED made
    BY <1>10, <2>1, <2>2, EndType DEF RotateProbe, TypeOK
  <2>3. CASE ~(End(r) /\ UNCHANGED made)
    <3>1. made + 1 \in Passwords
      BY <1>10, <2>1, <2>3, NextPassword DEF RotateProbe, TypeOK
    <3> QED BY <1>10, <2>1, <2>3, <3>1 DEF RotateProbe, TypeOK, Labels
  <2> QED BY <2>2, <2>3
<1>11. ASSUME NEW r \in Rotators, RotatePut(r) PROVE TypeOK'
  BY <1>11, ConstantFacts, NewIsPassword DEF Inv, TypeOK, Labels, RotatePut, Goto, InWindow
<1>12. ASSUME NEW r \in Rotators, RotateEnv(r) PROVE TypeOK'
  <2>1. TypeOK /\ r \in Procs /\ ~InWindow(r)
    BY <1>12, ProcFacts DEF Inv, RotateEnv, InWindow
  <2>2. CASE idx[r] < N
    <3>1. idx[r] + 1 \in 1..N
      BY <2>1, <2>2, ConstantFacts DEF TypeOK
    <3> QED BY <1>12, <2>1, <2>2, <3>1 DEF RotateEnv, TypeOK
  <2>3. CASE ~(idx[r] < N)
    BY <1>12, <2>1, <2>3, EndType DEF RotateEnv, TypeOK
  <2> QED BY <2>2, <2>3
<1>13. ASSUME NEW p \in Procs, AlterRole(p) PROVE TypeOK'
  <2>1. TypeOK /\ p \in Procs
    BY <1>13 DEF Inv
  <2>2. CASE LogsIn(Current(p)) /\ role' = new[p] /\ Goto(p, "confirm") /\ UNCHANGED <<faults, orphaned>>
    <3>1. new[p] \in Passwords
      BY <1>13, <2>2, NewIsPassword, ProcFacts DEF AlterRole, LogsIn, Current
    <3> QED BY <1>13, <2>1, <2>2, <3>1 DEF AlterRole, TypeOK, Goto, Labels
  <2>3. CASE LogsIn(Current(p)) /\ role' = new[p] /\ Spend("unanswered") /\ Forget(p)
             /\ orphaned' = IF p = "deploy" THEN orphaned ELSE orphaned \cup {new[p]}
    <3>1. new[p] \in Passwords
      BY <1>13, <2>3, NewIsPassword, ProcFacts DEF AlterRole, LogsIn, Current
    <3> QED BY <1>13, <2>1, <2>3, <3>1, ConstantFacts DEF AlterRole, TypeOK, Forget, Spend, Labels
  <2>4. CASE End(p) /\ UNCHANGED <<role, faults>>
    BY <1>13, <2>1, <2>4, EndType DEF AlterRole, InWindow, TypeOK
  <2> QED BY <1>13, <2>2, <2>3, <2>4 DEF AlterRole
<1>14. ASSUME NEW p \in Procs, Confirm(p) PROVE TypeOK'
  BY <1>14, ConstantFacts, NewIsPassword, EndType DEF Inv, TypeOK, Labels, Confirm, LogsIn, InitReturns, Goto, InWindow, dataVars
<1>15. ASSUME NEW p \in Procs, HookFails(p) PROVE TypeOK'
  BY <1>15, ConstantFacts, NewIsPassword, EndType DEF Inv, TypeOK, Labels, HookFails, Spend, InWindow, dataVars
<1>16. CASE ServeCql
  BY <1>16, ConstantFacts, NewIsPassword DEF Inv, TypeOK, Labels, ServeCql, locals
<1>17. CASE Outage
  BY <1>17, ConstantFacts DEF Inv, TypeOK, Outage, Spend, locals
<1>18. CASE Rebuild
  BY <1>18, ConstantFacts DEF Inv, TypeOK, Rebuild, Spend, locals
<1> QED BY <1>1, <1>2, <1>3, <1>4, <1>5, <1>6, <1>7, <1>8, <1>9, <1>10, <1>11, <1>12, <1>13, <1>14, <1>15, <1>16, <1>17, <1>18
       DEF Next, DeployStep, RotateStep, HookStep

\* Passwords are numbers, so the next one differs from those in use.
LEMMA NumberFacts ==
    /\ None = 0 /\ Default = 1
    /\ \A x \in Passwords \cup {None} : x \in Nat
BY BoundsAssumption DEF Passwords, Default, None

\* A process that ends keeps the ownership of passwords: a rotation in its
\* window orphans its own.
LEMMA EndOwnership ==
    ASSUME TypeOK, Ownership, NEW p \in Procs, End(p), UNCHANGED <<role, kv, made>>
    PROVE  Ownership'
<1>0. Generated /\ OwnPassword /\ OrphansAreLost /\ InitKnowsKv /\ RoleIsRecorded
  BY DEF Ownership
<1>1. /\ old'[p] = None /\ new'[p] = None /\ pc'[p] = "idle"
      /\ \A q \in Procs \ {p} : old'[q] = old[q] /\ new'[q] = new[q] /\ pc'[q] = pc[q]
      /\ \A q \in Procs : (old'[q] = old[q] \/ old'[q] = None) /\ (new'[q] = new[q] \/ new'[q] = None)
      /\ UNCHANGED <<role, kv, made>>
      /\ orphaned' = IF InWindow(p) THEN orphaned \cup {new[p]} ELSE orphaned
  BY DEF End, Forget, TypeOK
<1>2. ASSUME InWindow(p)
      PROVE  /\ new[p] \notin {None, Default, kv} /\ new[p] <= made /\ role = new[p]
             /\ \A q \in Procs : old[q] # new[p]
             /\ \A q \in Rotators \ {p} : new[q] # new[p]
  BY <1>0, <1>2 DEF OwnPassword, Generated, InWindow
<1>3. Generated'
  <2>1. CASE InWindow(p)
    BY <1>0, <1>1, <1>2, <2>1, NumberFacts DEF Generated, TypeOK
  <2>2. CASE ~InWindow(p)
    BY <1>0, <1>1, <2>2, NumberFacts DEF Generated, TypeOK
  <2> QED BY <2>1, <2>2
<1>4. OrphansAreLost'
  <2>1. CASE InWindow(p)
    BY <1>0, <1>1, <1>2, <2>1, ConstantFacts DEF OrphansAreLost, TypeOK
  <2>2. CASE ~InWindow(p)
    BY <1>0, <1>1, <2>2, ConstantFacts DEF OrphansAreLost, TypeOK
  <2> QED BY <2>1, <2>2
<1>5. OwnPassword'
  <2> SUFFICES ASSUME NEW r \in Rotators, pc'[r] \in {"alter", "confirm", "put"}
               PROVE  /\ new'[r] \notin {None, Default, kv} \cup orphaned'
                      /\ \A q \in Procs : old'[q] # new'[r]
                      /\ \A q \in Rotators \ {r} : new'[q] # new'[r]
                      /\ new'["deploy"] # new'[r]
                      /\ pc'[r] = "alter" => role # new'[r] /\ old'[r] # None
                      /\ pc'[r] \in {"confirm", "put"} => role = new'[r]
    BY <1>1 DEF OwnPassword, InWindow
  <2>1. r \in Procs /\ r # p /\ new'[r] = new[r] /\ old'[r] = old[r] /\ pc'[r] = pc[r]
    BY <1>1, ProcFacts
  <2>2. new[r] \notin {None, Default, kv} \cup orphaned /\ new[r] # new[p]
    BY <1>0, <2>1, ProcFacts DEF OwnPassword
  <2>3. new'[r] \notin {None, Default, kv} \cup orphaned'
    BY <1>1, <2>1, <2>2
  <2>4. /\ \A q \in Procs : old[q] # new[r]
        /\ \A q \in Rotators \ {r} : new[q] # new[r]
        /\ new["deploy"] # new[r]
        /\ pc[r] = "alter" => role # new[r] /\ old[r] # None
        /\ pc[r] \in {"confirm", "put"} => role = new[r]
    BY <1>0, <2>1 DEF OwnPassword, InWindow
  <2>5. /\ \A q \in Procs : old'[q] # new'[r]
        /\ \A q \in Rotators \ {r} : new'[q] # new'[r]
        /\ new'["deploy"] # new'[r]
    BY <1>1, <2>1, <2>2, <2>4, ProcFacts, ConstantFacts
  <2> QED BY <2>1, <2>3, <2>4, <2>5
<1>6. InitKnowsKv'
  <2>1. CASE p = "deploy"
    BY <1>1, <2>1 DEF InitKnowsKv
  <2>2. CASE p # "deploy"
    BY <1>0, <1>1, <2>2, ConstantFacts DEF InitKnowsKv
  <2> QED BY <2>1, <2>2
<1>7. RoleIsRecorded'
  <2>1. CASE role \in {Default, kv} \cup orphaned
    BY <1>1, <2>1 DEF RoleIsRecorded
  <2>2. ASSUME NEW r \in Rotators, InWindow(r), new[r] = role PROVE RoleIsRecorded'
    <3>1. CASE r = p
      BY <1>1, <2>2, <3>1 DEF RoleIsRecorded
    <3>2. CASE r # p
      BY <1>1, <2>2, <3>2, ProcFacts DEF RoleIsRecorded, InWindow
    <3> QED BY <3>1, <3>2
  <2> QED BY <1>0, <2>1, <2>2 DEF RoleIsRecorded
<1> QED BY <1>3, <1>4, <1>5, <1>6, <1>7 DEF Ownership

\* command_y_init_admin that returns to the rollout keeps it too.
LEMMA ReturnOwnership ==
    ASSUME TypeOK, Ownership, pc["deploy"] \in {"probe", "confirm"},
           pc' = [pc EXCEPT !["deploy"] = "render"],
           old' = [old EXCEPT !["deploy"] = None], new' = [new EXCEPT !["deploy"] = None],
           UNCHANGED <<role, kv, made, orphaned>>
    PROVE  Ownership'
<1>0. Generated /\ OwnPassword /\ OrphansAreLost /\ InitKnowsKv /\ RoleIsRecorded
  BY DEF Ownership
<1>1. /\ pc'["deploy"] = "render" /\ old'["deploy"] = None /\ new'["deploy"] = None
      /\ \A r \in Rotators : pc'[r] = pc[r] /\ old'[r] = old[r] /\ new'[r] = new[r]
      /\ \A q \in Procs : (old'[q] = old[q] \/ old'[q] = None) /\ (new'[q] = new[q] \/ new'[q] = None)
  BY ProcFacts, ConstantFacts DEF TypeOK
<1>2. Generated'
  BY <1>0, <1>1, NumberFacts DEF Generated, TypeOK
<1>3. OrphansAreLost' /\ RoleIsRecorded'
  BY <1>0, <1>1, ConstantFacts DEF OrphansAreLost, RoleIsRecorded, InWindow, TypeOK
<1>4. OwnPassword'
  BY <1>0, <1>1, ProcFacts DEF OwnPassword, InWindow
<1>5. InitKnowsKv'
  BY <1>0, <1>1 DEF InitKnowsKv
<1> QED BY <1>2, <1>3, <1>4, <1>5 DEF Ownership

\* Every action keeps the ownership of passwords.
LEMMA NextOwnership == Inv /\ [Next]_vars => Ownership'
<1> SUFFICES ASSUME Inv, [Next]_vars PROVE Ownership'
  OBVIOUS
<1>0. TypeOK /\ Generated /\ OwnPassword /\ OrphansAreLost /\ InitKnowsKv /\ RoleIsRecorded
      /\ Ownership
  BY DEF Inv, Ownership
<1>1. CASE UNCHANGED vars
  BY <1>0, <1>1 DEF vars, Ownership, Generated, OwnPassword, OrphansAreLost, InitKnowsKv, RoleIsRecorded, InWindow
<1>2. CASE EnsureSecrets
  <2>1. Generated'
    <3>1. CASE made' = made + 1 /\ kv' = made + 1
      <4>1. made \in Nat /\ role \in Nat /\ made >= 1 /\ \A p \in Procs : old[p] \in Nat /\ new[p] \in Nat
        BY <1>0, NumberFacts, ConstantFacts DEF TypeOK, Passwords
      <4>2. \A x \in orphaned : x \in Nat /\ x <= made
        BY <1>0, NumberFacts DEF TypeOK, Generated
      <4> QED BY <1>0, <1>2, <3>1, <4>1, <4>2, NumberFacts DEF EnsureSecrets, Goto, Generated
    <3>2. CASE UNCHANGED <<kv, made>>
      BY <1>0, <1>2, <3>2 DEF EnsureSecrets, Goto, Generated
    <3> QED BY <1>2, <3>1, <3>2 DEF EnsureSecrets
  <2>2. OwnPassword'
    <3>1. CASE made' = made + 1 /\ kv' = made + 1
      BY <1>0, <1>2, <3>1, NumberFacts, ProcFacts DEF EnsureSecrets, Goto, Generated, OwnPassword, InWindow, TypeOK
    <3>2. CASE UNCHANGED <<kv, made>>
      BY <1>0, <1>2, <3>2, ProcFacts DEF EnsureSecrets, Goto, OwnPassword, InWindow, TypeOK
    <3> QED BY <1>2, <3>1, <3>2 DEF EnsureSecrets
  <2>3. OrphansAreLost'
    <3>1. CASE made' = made + 1 /\ kv' = made + 1
      <4>1. made + 1 \notin orphaned
        BY <1>0, NumberFacts DEF Generated, TypeOK
      <4> QED BY <1>0, <1>2, <3>1, <4>1 DEF EnsureSecrets, Goto, OrphansAreLost
    <3>2. CASE UNCHANGED <<kv, made>>
      BY <1>0, <1>2, <3>2 DEF EnsureSecrets, Goto, OrphansAreLost
    <3> QED BY <1>2, <3>1, <3>2 DEF EnsureSecrets
  <2>4. InitKnowsKv'
    <3>1. pc'["deploy"] = "render" /\ kv' # None
      BY <1>0, <1>2, ConstantFacts, NumberFacts DEF EnsureSecrets, Goto, TypeOK, None
    <3> QED BY <3>1 DEF InitKnowsKv
  <2>5. RoleIsRecorded'
    <3>1. role # None
      BY <1>0, ConstantFacts DEF TypeOK
    <3>2. role \in {Default, kv'} \cup orphaned \/ \E r \in Rotators : InWindow(r) /\ new[r] = role
      BY <1>0, <1>2, <3>1 DEF RoleIsRecorded, EnsureSecrets
    <3> QED BY <1>0, <1>2, <3>2, ProcFacts DEF RoleIsRecorded, EnsureSecrets, Goto, InWindow, TypeOK
  <2> QED BY <2>1, <2>2, <2>3, <2>4, <2>5 DEF Ownership
<1>3. CASE Render
  <2>1. pc["deploy"] = "render" /\ UNCHANGED <<role, kv, made>>
    BY <1>3 DEF Render
  <2>2. CASE End("deploy")
    BY <1>0, <2>1, <2>2, ConstantFacts, EndOwnership
  <2>3. CASE UNCHANGED <<old, new, orphaned>> /\ pc' \in {pc, [pc EXCEPT !["deploy"] = "read"]}
    BY <1>0, <2>1, <2>3, ProcFacts, ConstantFacts DEF Ownership, Generated, OwnPassword, OrphansAreLost,
       InitKnowsKv, RoleIsRecorded, InWindow, TypeOK
  <2> QED BY <1>3, <2>2, <2>3 DEF Render, Goto
<1>4. CASE InitRead
  <2>1. Generated'
    BY <1>0, <1>4, ProcFacts DEF TypeOK, Generated, InitRead, dataVars
  <2>2. OwnPassword'
    BY <1>0, <1>4, ProcFacts DEF TypeOK, OwnPassword, InitRead, dataVars, InWindow
  <2>3. OrphansAreLost'
    BY <1>0, <1>4, ProcFacts DEF TypeOK, OrphansAreLost, InitRead, dataVars
  <2>4. InitKnowsKv'
    BY <1>0, <1>4, ProcFacts DEF TypeOK, InitKnowsKv, InitRead, dataVars
  <2>5. RoleIsRecorded'
    BY <1>0, <1>4, ProcFacts DEF TypeOK, RoleIsRecorded, InitRead, dataVars, InWindow
  <2> QED BY <2>1, <2>2, <2>3, <2>4, <2>5 DEF Ownership
<1>5. CASE ProbeConfigured
  <2>1. UNCHANGED <<role, kv, made>> /\ pc["deploy"] = "probe"
    BY <1>5 DEF ProbeConfigured, dataVars
  <2>2. CASE End("deploy")
    BY <1>0, <2>1, <2>2, ConstantFacts, EndOwnership
  <2>3. CASE /\ pc["deploy"] \in {"probe", "confirm"} /\ pc' = [pc EXCEPT !["deploy"] = "render"]
             /\ old' = [old EXCEPT !["deploy"] = None] /\ new' = [new EXCEPT !["deploy"] = None]
             /\ UNCHANGED <<role, kv, made, orphaned>>
    BY <1>0, <2>3, ReturnOwnership
  <2>4. CASE UNCHANGED <<old, new, orphaned>> /\ pc' = [pc EXCEPT !["deploy"] = "probe_default"]
    BY <1>0, <2>1, <2>4, ProcFacts, ConstantFacts DEF Ownership, Generated, OwnPassword, OrphansAreLost,
       InitKnowsKv, RoleIsRecorded, InWindow, TypeOK
  <2> QED BY <1>5, <2>1, <2>2, <2>3, <2>4 DEF ProbeConfigured, InitReturns, Goto
<1>6. CASE ProbeDefault
  <2>1. Generated'
    BY <1>0, <1>6, ProcFacts DEF TypeOK, Generated, ProbeDefault, Goto, dataVars
  <2>2. OwnPassword'
    BY <1>0, <1>6, ProcFacts DEF TypeOK, OwnPassword, ProbeDefault, Goto, dataVars, InWindow
  <2>3. OrphansAreLost'
    BY <1>0, <1>6, ProcFacts DEF TypeOK, OrphansAreLost, ProbeDefault, Goto, dataVars
  <2>4. InitKnowsKv'
    BY <1>0, <1>6, ProcFacts DEF TypeOK, InitKnowsKv, ProbeDefault, Goto, dataVars
  <2>5. RoleIsRecorded'
    BY <1>0, <1>6, ProcFacts DEF TypeOK, RoleIsRecorded, ProbeDefault, Goto, dataVars, InWindow
  <2> QED BY <2>1, <2>2, <2>3, <2>4, <2>5 DEF Ownership
<1>7. CASE InitTimeout
  BY <1>0, <1>7, ConstantFacts, EndOwnership DEF InitTimeout, dataVars
<1>8. ASSUME NEW r \in Rotators, StartRotation(r) PROVE Ownership'
  <2>1. Generated'
    BY <1>0, <1>8, ProcFacts DEF TypeOK, Generated, StartRotation, Goto, dataVars
  <2>2. OwnPassword'
    BY <1>0, <1>8, ProcFacts DEF TypeOK, OwnPassword, StartRotation, Goto, dataVars, InWindow
  <2>3. OrphansAreLost'
    BY <1>0, <1>8, ProcFacts DEF TypeOK, OrphansAreLost, StartRotation, Goto, dataVars
  <2>4. InitKnowsKv'
    BY <1>0, <1>8, ProcFacts DEF TypeOK, InitKnowsKv, StartRotation, Goto, dataVars
  <2>5. RoleIsRecorded'
    BY <1>0, <1>8, ProcFacts DEF TypeOK, RoleIsRecorded, StartRotation, Goto, dataVars, InWindow
  <2> QED BY <2>1, <2>2, <2>3, <2>4, <2>5 DEF Ownership
<1>9. ASSUME NEW r \in Rotators, RotateRead(r) PROVE Ownership'
  <2>1. Generated'
    BY <1>0, <1>9, ProcFacts DEF TypeOK, Generated, RotateRead, End, Forget, InWindow, dataVars
  <2>2. OwnPassword'
    <3>1. r \in Procs /\ r # "deploy" /\ ~InWindow(r)
      BY <1>9, ProcFacts DEF RotateRead, InWindow
    <3>2. CASE End(r)
      BY <1>0, <1>9, <3>1, <3>2, ProcFacts DEF RotateRead, End, Forget, OwnPassword, InWindow, dataVars, TypeOK
    <3>3. CASE ~End(r)
      BY <1>0, <1>9, <3>1, <3>3, ProcFacts DEF RotateRead, OwnPassword, InWindow, dataVars, TypeOK
    <3> QED BY <3>2, <3>3
  <2>3. OrphansAreLost'
    BY <1>0, <1>9, ProcFacts DEF TypeOK, OrphansAreLost, RotateRead, End, Forget, InWindow, dataVars
  <2>4. InitKnowsKv'
    <3>1. r \in Procs /\ r # "deploy"
      BY ProcFacts
    <3>2. /\ pc'["deploy"] = pc["deploy"] /\ old'["deploy"] = old["deploy"]
          /\ new'["deploy"] = new["deploy"] /\ UNCHANGED <<role, kv>>
      BY <1>0, <1>9, <3>1, ConstantFacts DEF RotateRead, End, Forget, TypeOK, dataVars
    <3> QED BY <1>0, <3>2 DEF InitKnowsKv
  <2>5. RoleIsRecorded'
    BY <1>0, <1>9, ProcFacts DEF TypeOK, RoleIsRecorded, RotateRead, End, Forget, InWindow, dataVars
  <2> QED BY <2>1, <2>2, <2>3, <2>4, <2>5 DEF Ownership
<1>10. ASSUME NEW r \in Rotators, RotateProbe(r) PROVE Ownership'
  <2>1. Generated'
    <3>1. r \in Procs
      BY ProcFacts
    <3>2. CASE End(r) /\ UNCHANGED made
      BY <1>0, <1>10, <3>1, <3>2, EndOwnership DEF RotateProbe, Ownership
    <3>3. CASE made' = made + 1 /\ new' = [new EXCEPT ![r] = made + 1] /\ UNCHANGED <<old, orphaned>>
      BY <1>0, <1>10, <3>1, <3>3, NumberFacts DEF RotateProbe, Generated, TypeOK
    <3> QED BY <1>10, <3>2, <3>3 DEF RotateProbe
  <2>2. OwnPassword'
    <3>1. r \in Procs /\ r # "deploy" /\ ~InWindow(r)
      BY <1>10, ProcFacts DEF RotateProbe, InWindow
    <3>2. CASE End(r) /\ UNCHANGED made
      BY <1>0, <1>10, <3>1, <3>2, ProcFacts DEF RotateProbe, End, Forget, OwnPassword, InWindow, TypeOK
    <3>3. CASE /\ LogsIn(old[r]) /\ new' = [new EXCEPT ![r] = made + 1]
               /\ pc' = [pc EXCEPT ![r] = "alter"] /\ UNCHANGED <<old, orphaned>>
      <4>1. /\ made + 1 \notin {None, Default, kv, role} \cup orphaned
            /\ \A p \in Procs : old[p] # made + 1 /\ new[p] # made + 1
            /\ old[r] # None
        BY <1>0, <3>1, <3>3, NumberFacts, ConstantFacts DEF Generated, TypeOK, LogsIn
      <4>2. /\ new'[r] = made + 1 /\ pc'[r] = "alter"
            /\ \A q \in Procs \ {r} : new'[q] = new[q] /\ pc'[q] = pc[q]
            /\ UNCHANGED <<role, kv, old, orphaned>>
        BY <1>0, <1>10, <3>1, <3>3 DEF RotateProbe, TypeOK
      <4>3. ASSUME NEW q \in Rotators \ {r}, pc'[q] \in {"alter", "confirm", "put"}
            PROVE  /\ new'[q] \notin {None, Default, kv} \cup orphaned
                   /\ \A p \in Procs : old[p] # new'[q]
                   /\ \A s \in Rotators \ {q} : new'[s] # new'[q]
                   /\ new'["deploy"] # new'[q]
        <5>1. /\ q \in Procs /\ new'[q] = new[q] /\ pc[q] \in {"alter", "confirm", "put"}
          BY <4>2, <4>3, ProcFacts
        <5>2. /\ new[q] \notin {None, Default, kv} \cup orphaned
              /\ \A p \in Procs : old[p] # new[q]
              /\ \A s \in Rotators \ {q} : new[s] # new[q]
              /\ new["deploy"] # new[q]
          BY <1>0, <5>1 DEF OwnPassword
        <5>3. new'["deploy"] = new["deploy"] /\ \A s \in Rotators \ {q} : new'[s] \in {new[s], made + 1}
          BY <3>1, <4>2, ProcFacts, ConstantFacts
        <5> QED BY <4>1, <5>1, <5>2, <5>3
      <4>4. ASSUME NEW q \in Rotators \ {r}
            PROVE  /\ pc'[q] = "alter" => role # new'[q] /\ old[q] # None
                   /\ InWindow(q)' => role = new'[q]
        BY <1>0, <3>1, <4>2, ProcFacts DEF OwnPassword, InWindow
      <4>5. /\ new'[r] \notin {None, Default, kv} \cup orphaned
            /\ \A p \in Procs : old[p] # new'[r]
            /\ \A s \in Rotators \ {r} : new'[s] # new'[r]
            /\ new'["deploy"] # new'[r]
            /\ role # new'[r] /\ old[r] # None /\ ~InWindow(r)'
        BY <3>1, <4>1, <4>2, ProcFacts, ConstantFacts DEF InWindow
      <4> QED BY <4>2, <4>3, <4>4, <4>5 DEF OwnPassword
    <3> QED BY <1>10, <3>2, <3>3 DEF RotateProbe
  <2>3. OrphansAreLost'
    <3>1. r \in Procs
      BY ProcFacts
    <3>2. CASE End(r) /\ UNCHANGED made
      BY <1>0, <1>10, <3>1, <3>2, EndOwnership DEF RotateProbe, Ownership
    <3>3. CASE UNCHANGED <<old, orphaned>>
      BY <1>0, <1>10, <3>3 DEF RotateProbe, OrphansAreLost
    <3> QED BY <1>10, <3>2, <3>3 DEF RotateProbe
  <2>4. InitKnowsKv'
    <3>1. r \in Procs /\ r # "deploy"
      BY ProcFacts
    <3>2. /\ pc'["deploy"] = pc["deploy"] /\ old'["deploy"] = old["deploy"]
          /\ new'["deploy"] = new["deploy"] /\ UNCHANGED <<role, kv>>
      BY <1>0, <1>10, <3>1, ConstantFacts DEF RotateProbe, End, Forget, TypeOK
    <3> QED BY <1>0, <3>2 DEF InitKnowsKv
  <2>5. RoleIsRecorded'
    BY <1>0, <1>10, ProcFacts DEF TypeOK, RoleIsRecorded, RotateProbe, End, Forget, InWindow
  <2> QED BY <2>1, <2>2, <2>3, <2>4, <2>5 DEF Ownership
<1>11. ASSUME NEW r \in Rotators, RotatePut(r) PROVE Ownership'
  <2>1. Generated'
    BY <1>0, <1>11, ProcFacts, NumberFacts DEF RotatePut, Goto, Generated, OwnPassword, TypeOK
  <2>2. OwnPassword'
    BY <1>0, <1>11, ProcFacts DEF TypeOK, OwnPassword, RotatePut, Goto, InWindow
  <2>3. OrphansAreLost'
    BY <1>0, <1>11 DEF RotatePut, Goto, OrphansAreLost, OwnPassword
  <2>4. InitKnowsKv'
    <3>1. role # Default /\ new[r] # None
      BY <1>0, <1>11 DEF RotatePut, OwnPassword, InWindow
    <3>2. pc'["deploy"] = pc["deploy"] /\ UNCHANGED <<role, old, new>> /\ kv' # None
      BY <1>0, <1>11, <3>1, ProcFacts DEF RotatePut, Goto, TypeOK
    <3> QED BY <1>0, <3>1, <3>2 DEF InitKnowsKv
  <2>5. RoleIsRecorded'
    BY <1>0, <1>11 DEF RotatePut, RoleIsRecorded, OwnPassword, InWindow
  <2> QED BY <2>1, <2>2, <2>3, <2>4, <2>5 DEF Ownership
<1>12. ASSUME NEW r \in Rotators, RotateEnv(r) PROVE Ownership'
  <2>1. r \in Procs /\ ~InWindow(r) /\ pc[r] = "env" /\ UNCHANGED <<role, kv, made>>
    BY <1>12, ProcFacts DEF RotateEnv, InWindow
  <2>2. CASE End(r)
    BY <1>0, <2>1, <2>2, EndOwnership
  <2>3. CASE UNCHANGED <<pc, old, new, orphaned>>
    BY <1>0, <2>1, <2>3 DEF Ownership, Generated, OwnPassword, OrphansAreLost, InitKnowsKv,
       RoleIsRecorded, InWindow
  <2> QED BY <1>12, <2>2, <2>3 DEF RotateEnv
<1>13. ASSUME NEW p \in Procs, AlterRole(p) PROVE Ownership'
  <2>1. UNCHANGED <<kv, made>> /\ pc[p] = "alter"
    BY <1>13 DEF AlterRole
  <2>2. CASE End(p) /\ UNCHANGED role
    BY <1>0, <2>1, <2>2, EndOwnership
  <2>3. CASE LogsIn(Current(p)) /\ role' = new[p] /\ p # "deploy"
    <3>1. /\ p \in Rotators /\ role = old[p] /\ new[p] \notin {None, Default, kv} \cup orphaned
          /\ new[p] <= made /\ \A q \in Procs : old[q] # new[p]
          /\ \A q \in Rotators \ {p} : new[q] # new[p]
          /\ new["deploy"] # new[p]
      BY <1>0, <2>1, <2>3, ProcFacts DEF LogsIn, Current, OwnPassword, Generated
    <3>2. \A q \in Rotators : ~InWindow(q)
      BY <1>0, <2>1, <2>3, <3>1 DEF OwnPassword, InWindow
    <3>3. CASE Goto(p, "confirm") /\ UNCHANGED orphaned
      <4>1. /\ pc'[p] = "confirm" /\ \A q \in Procs \ {p} : pc'[q] = pc[q]
            /\ UNCHANGED <<old, new, orphaned, kv, made>> /\ role' = new[p]
        BY <1>0, <2>1, <2>3, <3>3 DEF Goto, TypeOK
      <4>2. Generated' /\ OrphansAreLost' /\ RoleIsRecorded'
        BY <1>0, <3>1, <4>1 DEF Generated, OrphansAreLost, RoleIsRecorded, InWindow
      <4>3. OwnPassword'
        BY <1>0, <3>1, <3>2, <4>1, ProcFacts DEF OwnPassword, InWindow
      <4>4. InitKnowsKv'
        BY <1>0, <2>3, <3>1, <4>1, ConstantFacts DEF InitKnowsKv
      <4> QED BY <4>2, <4>3, <4>4 DEF Ownership
    <3>4. CASE Forget(p) /\ orphaned' = orphaned \cup {new[p]}
      <4>1. /\ pc'[p] = "idle" /\ old'[p] = None /\ new'[p] = None
            /\ \A q \in Procs \ {p} : pc'[q] = pc[q] /\ old'[q] = old[q] /\ new'[q] = new[q]
            /\ UNCHANGED <<kv, made>> /\ role' = new[p] /\ orphaned' = orphaned \cup {new[p]}
        BY <1>0, <2>1, <2>3, <3>4 DEF Forget, TypeOK
      <4>2. Generated'
        BY <1>0, <3>1, <4>1, NumberFacts DEF Generated, TypeOK
      <4>3. OrphansAreLost'
        BY <1>0, <3>1, <4>1, ConstantFacts DEF OrphansAreLost, TypeOK
      <4>4. RoleIsRecorded'
        BY <4>1 DEF RoleIsRecorded
      <4>5. OwnPassword'
        BY <1>0, <3>1, <3>2, <4>1, ProcFacts, ConstantFacts DEF OwnPassword, InWindow
      <4>6. InitKnowsKv'
        BY <1>0, <2>3, <3>1, <4>1, ConstantFacts DEF InitKnowsKv
      <4> QED BY <4>2, <4>3, <4>4, <4>5, <4>6 DEF Ownership
    <3> QED BY <1>0, <1>13, <2>1, <2>3, <3>3, <3>4 DEF AlterRole, End, InWindow
  <2>4. CASE LogsIn(Current(p)) /\ role' = new[p] /\ p = "deploy"
    <3>1. role = Default /\ new[p] = kv /\ old[p] = kv /\ kv # None
      BY <1>0, <2>1, <2>4 DEF LogsIn, Current, InitKnowsKv
    <3>2. \A q \in Rotators : ~InWindow(q)
      BY <1>0, <3>1 DEF OwnPassword, InWindow
    <3>3. /\ \A q \in Rotators : pc'[q] = pc[q] /\ old'[q] = old[q] /\ new'[q] = new[q]
          /\ \A q \in Procs : (old'[q] = old[q] \/ old'[q] = None) /\ (new'[q] = new[q] \/ new'[q] = None)
          /\ UNCHANGED <<kv, made, orphaned>> /\ role' = kv
          /\ pc'["deploy"] \in {"confirm", "idle"}
      BY <1>0, <1>13, <2>1, <2>4, <3>1, ProcFacts, ConstantFacts DEF AlterRole, End, Forget, Goto, InWindow, TypeOK
    <3>4. Generated'
      BY <1>0, <3>3, NumberFacts DEF Generated, TypeOK
    <3>5. OrphansAreLost' /\ RoleIsRecorded'
      BY <1>0, <3>3, ConstantFacts DEF OrphansAreLost, RoleIsRecorded, TypeOK
    <3>6. OwnPassword'
      BY <1>0, <3>2, <3>3, ProcFacts, ConstantFacts DEF OwnPassword, InWindow
    <3>7. InitKnowsKv'
      BY <1>0, <2>1, <2>4, <3>1, <3>3 DEF InitKnowsKv
    <3> QED BY <3>4, <3>5, <3>6, <3>7 DEF Ownership
  <2> QED BY <1>13, <2>2, <2>3, <2>4 DEF AlterRole
<1>14. ASSUME NEW p \in Procs, Confirm(p) PROVE Ownership'
  <2>1. UNCHANGED <<role, kv, made>> /\ pc[p] = "confirm"
    BY <1>14 DEF Confirm, dataVars
  <2>2. CASE End(p)
    BY <1>0, <2>1, <2>2, EndOwnership
  <2>3. CASE /\ pc["deploy"] \in {"probe", "confirm"} /\ pc' = [pc EXCEPT !["deploy"] = "render"]
             /\ old' = [old EXCEPT !["deploy"] = None] /\ new' = [new EXCEPT !["deploy"] = None]
             /\ UNCHANGED <<role, kv, made, orphaned>>
    BY <1>0, <2>3, ReturnOwnership
  <2>4. CASE p # "deploy" /\ UNCHANGED <<old, new, orphaned>> /\ pc' = [pc EXCEPT ![p] = "put"]
    <3>1. /\ p \in Rotators /\ pc'[p] = "put" /\ \A q \in Procs \ {p} : pc'[q] = pc[q]
          /\ \A r \in Rotators : InWindow(r)' <=> InWindow(r)
          /\ \A r \in Rotators : pc'[r] \in {"alter", "confirm", "put"} <=> pc[r] \in {"alter", "confirm", "put"}
          /\ \A r \in Rotators : pc'[r] = "alter" <=> pc[r] = "alter"
      BY <1>0, <2>1, <2>4, ProcFacts DEF TypeOK, InWindow
    <3>2. Generated' /\ OrphansAreLost' /\ RoleIsRecorded'
      BY <1>0, <2>1, <2>4, <3>1 DEF Generated, OrphansAreLost, RoleIsRecorded
    <3>3. OwnPassword'
      BY <1>0, <2>1, <2>4, <3>1 DEF OwnPassword
    <3>4. InitKnowsKv'
      BY <1>0, <2>1, <2>4, <3>1, ConstantFacts DEF InitKnowsKv
    <3> QED BY <3>2, <3>3, <3>4 DEF Ownership
  <2> QED BY <1>14, <2>1, <2>2, <2>3, <2>4 DEF Confirm, InitReturns, Goto
<1>15. ASSUME NEW p \in Procs, HookFails(p) PROVE Ownership'
  BY <1>0, <1>15, EndOwnership DEF HookFails, dataVars
<1>16. CASE ServeCql
  <2>1. Generated'
    BY <1>0, <1>16, ProcFacts DEF TypeOK, Generated, ServeCql, locals
  <2>2. OwnPassword'
    BY <1>0, <1>16, ProcFacts DEF TypeOK, OwnPassword, ServeCql, locals, InWindow
  <2>3. OrphansAreLost'
    BY <1>0, <1>16, ProcFacts DEF TypeOK, OrphansAreLost, ServeCql, locals
  <2>4. InitKnowsKv'
    BY <1>0, <1>16, ProcFacts DEF TypeOK, InitKnowsKv, ServeCql, locals
  <2>5. RoleIsRecorded'
    BY <1>0, <1>16, ProcFacts DEF TypeOK, RoleIsRecorded, ServeCql, locals, InWindow
  <2> QED BY <2>1, <2>2, <2>3, <2>4, <2>5 DEF Ownership
<1>17. CASE Outage
  <2>1. Generated'
    BY <1>0, <1>17, ProcFacts DEF TypeOK, Generated, Outage, Spend, locals
  <2>2. OwnPassword'
    BY <1>0, <1>17, ProcFacts DEF TypeOK, OwnPassword, Outage, Spend, locals, InWindow
  <2>3. OrphansAreLost'
    BY <1>0, <1>17, ProcFacts DEF TypeOK, OrphansAreLost, Outage, Spend, locals
  <2>4. InitKnowsKv'
    BY <1>0, <1>17, ProcFacts DEF TypeOK, InitKnowsKv, Outage, Spend, locals
  <2>5. RoleIsRecorded'
    BY <1>0, <1>17, ProcFacts DEF TypeOK, RoleIsRecorded, Outage, Spend, locals, InWindow
  <2> QED BY <2>1, <2>2, <2>3, <2>4, <2>5 DEF Ownership
<1>18. CASE Rebuild
  <2>1. Generated'
    <3>1. made \in Nat /\ made >= 1
      BY <1>0, BoundsAssumption DEF TypeOK, Passwords
    <3> QED BY <1>0, <1>18, <3>1, NumberFacts DEF Rebuild, locals, Generated
  <2>2. OwnPassword'
    BY <1>0, <1>18, ProcFacts DEF TypeOK, OwnPassword, Rebuild, Spend, locals, InWindow
  <2>3. OrphansAreLost'
    BY <1>0, <1>18, ProcFacts DEF TypeOK, OrphansAreLost, Rebuild, Spend, locals
  <2>4. InitKnowsKv'
    BY <1>0, <1>18, ConstantFacts DEF Rebuild, locals, InitKnowsKv
  <2>5. RoleIsRecorded'
    BY <1>0, <1>18, ProcFacts DEF TypeOK, RoleIsRecorded, Rebuild, Spend, locals, InWindow
  <2> QED BY <2>1, <2>2, <2>3, <2>4, <2>5 DEF Ownership
<1> QED BY <1>1, <1>2, <1>3, <1>4, <1>5, <1>6, <1>7, <1>8, <1>9, <1>10, <1>11, <1>12, <1>13, <1>14, <1>15, <1>16, <1>17, <1>18
       DEF Next, DeployStep, RotateStep, HookStep

-----------------------------------------------------------------------------
\* The invariant holds of every reachable state.
THEOREM InvCorrect == Spec => []Inv
<1>1. Inv /\ [Next]_vars => Inv'
  BY NextType, NextOwnership DEF Inv
<1> QED BY InitInv, <1>1, PTL DEF Spec

\* Every variable keeps its type, for all constants.
THEOREM AdminTypeCorrect == Spec => []TypeOK
<1>1. Inv => TypeOK
  BY DEF Inv
<1> QED BY InvCorrect, <1>1, PTL

\* The passwords are owned as the hooks believe they are.
THEOREM OwnershipCorrect == Spec => []Ownership
<1>1. Inv => Ownership
  BY DEF Inv
<1> QED BY InvCorrect, <1>1, PTL

\* The role never has a password written down nowhere but for the rotations in
\* their window and those that died in it.
THEOREM RoleRecorded == Spec => []RoleIsRecorded
<1>1. Inv => RoleIsRecorded
  BY DEF Inv, Ownership
<1> QED BY InvCorrect, <1>1, PTL

\* However many rotations run, at most one is between its ALTER ROLE and its put.
THEOREM RotationsExcluded == Spec => []RotationsExclude
<1>1. Inv => RotationsExclude
  <2> SUFFICES ASSUME Inv, NEW r \in Rotators, NEW q \in Rotators, InWindow(r), InWindow(q), r # q
               PROVE  FALSE
    BY DEF RotationsExclude
  <2>1. OwnPassword
    BY DEF Inv, Ownership
  <2>2. role = new[r] /\ role = new[q] /\ new[q] # new[r]
    BY <2>1 DEF OwnPassword, InWindow
  <2> QED BY <2>2
<1> QED BY InvCorrect, <1>1, PTL

\* Only a password the KV store has is ever replaced.
THEOREM RecordedReplaced == Spec => ReplacesRecorded
<1>1. Inv /\ [Next]_vars => [role' # role /\ Default \notin {role, role'} => role = kv]_vars
  <2> SUFFICES ASSUME Inv, [Next]_vars, role' # role, role # Default, role' # Default
               PROVE  role = kv
    OBVIOUS
  <2>1. PICK p \in Procs : AlterRole(p)
    BY DEF Next, vars, DeployStep, RotateStep, HookStep, EnsureSecrets, Render, InitRead,
       ProbeConfigured, ProbeDefault, InitTimeout, StartRotation, RotateRead, RotateProbe,
       RotatePut, RotateEnv, Confirm, HookFails, ServeCql, Outage, Rebuild, dataVars
  <2>2. role = Current(p)
    BY <2>1 DEF AlterRole, LogsIn
  <2>3. p \in Rotators /\ role = old[p]
    BY <2>2, ProcFacts DEF Current
  <2>4. OwnPassword /\ OrphansAreLost /\ RoleIsRecorded
    BY DEF Inv, Ownership
  <2>5. role \notin orphaned
    BY <2>3, <2>4, ProcFacts DEF OrphansAreLost
  <2>6. ASSUME NEW r \in Rotators, InWindow(r), new[r] = role PROVE FALSE
    BY <2>3, <2>4, <2>6, ProcFacts DEF OwnPassword, InWindow
  <2> QED BY <2>4, <2>5, <2>6 DEF RoleIsRecorded
<1> QED BY InvCorrect, <1>1, PTL DEF Spec, ReplacesRecorded

-----------------------------------------------------------------------------
\* What a rotation that returns 0 leaves.

\* The strengthening of RotatedEverywhere, for one rotation: while its loop
\* runs, ring and KV store have its password, and so has every .env behind it.
Settled ==
    \A r \in Rotators :
        /\ pc[r] = "env" =>
              /\ role = kv /\ new[r] = kv /\ kv \notin {None, Default}
              /\ \A j \in 1..(idx[r] - 1) : env[Workers[j]] = kv
        /\ pc[r] # "env" => idx[r] = 1

OneRotation == \A r, q \in Rotators : r = q

\* No worker of the catalog is outside Nodes.
LEMMA WorkerFacts == \A i \in 1..N : Workers[i] \in Nodes
BY DEF Nodes

\* Who changes the role: an ALTER ROLE, or a ring that is built anew.
LEMMA RoleMoves ==
    ASSUME [Next]_vars, role' # role
    PROVE  (\E p \in Procs : AlterRole(p)) \/ Rebuild
BY DEF Next, vars, DeployStep, RotateStep, HookStep, EnsureSecrets, Render, InitRead,
   ProbeConfigured, ProbeDefault, InitTimeout, StartRotation, RotateRead, RotateProbe,
   RotatePut, RotateEnv, Confirm, HookFails, ServeCql, Outage, dataVars

\* Who changes the secret: the first build, and the put of a rotation.
LEMMA KvMoves ==
    ASSUME [Next]_vars, kv' # kv
    PROVE  (EnsureSecrets /\ kv = None) \/ \E r \in Rotators : RotatePut(r)
BY DEF Next, vars, DeployStep, RotateStep, HookStep, EnsureSecrets, Render, InitRead,
   ProbeConfigured, ProbeDefault, InitTimeout, StartRotation, RotateRead, RotateProbe,
   AlterRole, RotateEnv, Confirm, HookFails, ServeCql, Outage, Rebuild, dataVars

\* Who changes an .env: the rollout and the loop of a rotation.
LEMMA EnvMoves ==
    ASSUME [Next]_vars, env' # env
    PROVE  Render \/ \E r \in Rotators : RotateEnv(r)
BY DEF Next, vars, DeployStep, RotateStep, HookStep, EnsureSecrets, InitRead,
   ProbeConfigured, ProbeDefault, InitTimeout, StartRotation, RotateRead, RotateProbe,
   AlterRole, RotatePut, Confirm, HookFails, ServeCql, Outage, Rebuild, dataVars

\* What a step does to a rotation in its loop: nothing, one worker, or its end
\* by a fault.
LEMMA LoopMoves ==
    ASSUME TypeOK, [Next]_vars, NEW r \in Rotators, pc[r] = "env"
    PROVE  \/ pc'[r] = "env" /\ new'[r] = new[r] /\ idx'[r] = idx[r]
           \/ /\ env' = [env EXCEPT ![Workers[idx[r]]] = new[r]]
              /\ UNCHANGED <<role, kv>>
              /\ IF idx[r] < N THEN pc'[r] = "env" /\ new'[r] = new[r] /\ idx'[r] = idx[r] + 1
                               ELSE pc'[r] = "idle" /\ idx'[r] = 1
           \/ pc'[r] = "idle" /\ idx'[r] = 1 /\ faults' = faults + 1
<1> USE ProcFacts, ConstantFacts
<1> r \in Procs /\ r # "deploy"
  OBVIOUS
<1>1. CASE UNCHANGED vars
  BY <1>1 DEF vars
<1>2. CASE DeployStep
  BY <1>2 DEF TypeOK, DeployStep, EnsureSecrets, Render, InitRead, ProbeConfigured, InitReturns,
     ProbeDefault, InitTimeout, Goto, End, Forget
<1>3. ASSUME NEW q \in Rotators, StartRotation(q) \/ RotateStep(q)
      PROVE  \/ pc'[r] = "env" /\ new'[r] = new[r] /\ idx'[r] = idx[r]
             \/ /\ env' = [env EXCEPT ![Workers[idx[r]]] = new[r]]
                /\ UNCHANGED <<role, kv>>
                /\ IF idx[r] < N THEN pc'[r] = "env" /\ new'[r] = new[r] /\ idx'[r] = idx[r] + 1
                                 ELSE pc'[r] = "idle" /\ idx'[r] = 1
  <2>1. CASE q = r
    BY <1>3, <2>1 DEF TypeOK, StartRotation, RotateStep, RotateRead, RotateProbe, RotatePut,
       RotateEnv, End, Forget
  <2>2. CASE q # r
    BY <1>3, <2>2 DEF TypeOK, StartRotation, RotateStep, RotateRead, RotateProbe, RotatePut,
       RotateEnv, Goto, End, Forget
  <2> QED BY <2>1, <2>2
<1>4. ASSUME NEW p \in Procs, HookStep(p)
      PROVE  pc'[r] = "env" /\ new'[r] = new[r] /\ idx'[r] = idx[r]
  BY <1>4 DEF TypeOK, HookStep, AlterRole, Confirm, InitReturns, Goto, End, Forget
<1>5. ASSUME NEW p \in Procs, HookFails(p)
      PROVE  \/ pc'[r] = "env" /\ new'[r] = new[r] /\ idx'[r] = idx[r]
             \/ pc'[r] = "idle" /\ idx'[r] = 1 /\ faults' = faults + 1
  <2>1. CASE p = r
    BY <1>5, <2>1 DEF TypeOK, HookFails, Spend, End, Forget
  <2>2. CASE p # r
    BY <1>5, <2>2 DEF TypeOK, HookFails, End, Forget
  <2> QED BY <2>1, <2>2
<1>6. CASE ServeCql \/ Outage \/ Rebuild
  BY <1>6 DEF ServeCql, Outage, Rebuild, locals
<1> QED BY <1>1, <1>2, <1>3, <1>4, <1>5, <1>6 DEF Next

\* A rotation enters its loop by the put, at the first worker.
LEMMA LoopEntry ==
    ASSUME TypeOK, [Next]_vars, NEW r \in Rotators, pc[r] # "env", idx[r] = 1
    PROVE  /\ idx'[r] = 1
           /\ pc'[r] = "env" =>
                 InWindow(r) /\ kv' = new[r] /\ new'[r] = new[r] /\ role' = role
<1> USE ProcFacts, ConstantFacts
<1> r \in Procs /\ r # "deploy"
  OBVIOUS
<1>1. CASE UNCHANGED vars
  BY <1>1 DEF vars
<1>2. CASE DeployStep
  BY <1>2 DEF TypeOK, DeployStep, EnsureSecrets, Render, InitRead, ProbeConfigured, InitReturns,
     ProbeDefault, InitTimeout, Goto, End, Forget
<1>3. ASSUME NEW q \in Rotators, StartRotation(q) \/ RotateStep(q)
      PROVE  /\ idx'[r] = 1
             /\ pc'[r] = "env" =>
                   InWindow(r) /\ kv' = new[r] /\ new'[r] = new[r] /\ role' = role
  <2>1. CASE q = r
    BY <1>3, <2>1 DEF TypeOK, StartRotation, RotateStep, RotateRead, RotateProbe, RotatePut,
       RotateEnv, Goto, End, Forget, InWindow
  <2>2. CASE q # r
    BY <1>3, <2>2 DEF TypeOK, StartRotation, RotateStep, RotateRead, RotateProbe, RotatePut,
       RotateEnv, Goto, End, Forget
  <2> QED BY <2>1, <2>2
<1>4. ASSUME NEW p \in Procs, HookStep(p) \/ HookFails(p)
      PROVE  idx'[r] = 1 /\ pc'[r] # "env"
  <2>1. CASE p = r
    BY <1>4, <2>1 DEF TypeOK, HookStep, HookFails, AlterRole, Confirm, Goto, End, Forget
  <2>2. CASE p # r
    BY <1>4, <2>2 DEF TypeOK, HookStep, HookFails, AlterRole, Confirm, InitReturns, Goto, End, Forget
  <2> QED BY <2>1, <2>2
<1>5. CASE ServeCql \/ Outage \/ Rebuild
  BY <1>5 DEF ServeCql, Outage, Rebuild, locals
<1> QED BY <1>1, <1>2, <1>3, <1>4, <1>5 DEF Next

\* Beside the deploys, one rotation keeps what its loop has done.
LEMMA NextSettled ==
    ASSUME OneRotation, Inv, Settled, [Next]_vars
    PROVE  Settled'
<1>0. TypeOK /\ Generated /\ OwnPassword /\ InitKnowsKv
  BY DEF Inv, Ownership
<1> SUFFICES ASSUME NEW r \in Rotators
             PROVE  /\ pc'[r] = "env" =>
                          /\ role' = kv' /\ new'[r] = kv' /\ kv' \notin {None, Default}
                          /\ \A j \in 1..(idx'[r] - 1) : env'[Workers[j]] = kv'
                    /\ pc'[r] # "env" => idx'[r] = 1
  BY DEF Settled
<1>1. r \in Procs /\ \A q \in Rotators : q = r
  BY ProcFacts DEF OneRotation
<1>2. CASE pc[r] # "env"
  <2>1. idx[r] = 1 /\ idx'[r] = 1
    BY <1>0, <1>2, LoopEntry DEF Settled
  <2>2. CASE pc'[r] = "env"
    <3>1. InWindow(r) /\ kv' = new[r] /\ new'[r] = new[r] /\ role' = role
      BY <1>0, <1>2, <2>1, <2>2, LoopEntry
    <3>2. role = new[r] /\ new[r] \notin {None, Default}
      BY <1>0, <3>1 DEF OwnPassword, InWindow
    <3> QED BY <2>1, <3>1, <3>2
  <2> QED BY <2>1, <2>2
<1>3. CASE pc[r] = "env"
  <2>1. /\ role = kv /\ new[r] = kv /\ kv \notin {None, Default}
        /\ \A j \in 1..(idx[r] - 1) : env[Workers[j]] = kv
    BY <1>3 DEF Settled
  <2>2. role' = role
    <3>1. ASSUME NEW p \in Procs, AlterRole(p) PROVE role' = role
      <4>1. p = "deploy"
        BY <1>1, <1>3, <3>1, ProcFacts DEF AlterRole
      <4> QED BY <2>1, <3>1, <4>1 DEF AlterRole, LogsIn, Current
    <3>2. ~Rebuild
      BY <1>1, <1>3 DEF Rebuild
    <3> QED BY <3>1, <3>2, RoleMoves
  <2>3. kv' = kv
    BY <1>1, <1>3, <2>1, KvMoves DEF RotatePut
  <2>4. ASSUME NEW w \in Nodes, env[w] = kv PROVE env'[w] = kv
    BY <1>0, <1>1, <2>1, <2>4, EnvMoves, WorkerFacts DEF Render, RotateEnv, TypeOK
  <2>5. CASE pc'[r] = "env" /\ new'[r] = new[r] /\ idx'[r] = idx[r]
    <3>1. \A j \in 1..(idx[r] - 1) : Workers[j] \in Nodes
      BY <1>0, <1>1, WorkerFacts, ConstantFacts DEF TypeOK
    <3> QED BY <2>1, <2>2, <2>3, <2>4, <2>5, <3>1
  <2>6. CASE /\ env' = [env EXCEPT ![Workers[idx[r]]] = new[r]]
             /\ idx[r] < N /\ pc'[r] = "env" /\ new'[r] = new[r] /\ idx'[r] = idx[r] + 1
    <3>1. idx[r] \in 1..N /\ \A j \in 1..idx[r] : Workers[j] \in Nodes
      BY <1>0, <1>1, WorkerFacts, ConstantFacts DEF TypeOK
    <3>2. env'[Workers[idx[r]]] = kv
      BY <1>0, <2>1, <2>6, <3>1 DEF TypeOK
    <3>3. \A j \in 1..idx[r] : env'[Workers[j]] = kv
      BY <2>1, <2>4, <3>1, <3>2
    <3> QED BY <2>1, <2>2, <2>3, <2>6, <3>1, <3>3
  <2>7. CASE pc'[r] = "idle" /\ idx'[r] = 1
    BY <2>7
  <2> QED BY <1>0, <1>3, <2>5, <2>6, <2>7, LoopMoves
<1> QED BY <1>2, <1>3

\* A rotation that returns 0 leaves one password in the ring, the KV store and
\* every .env, if no other rotation runs; the deploys beside it may.
THEOREM RotationCompletes == OneRotation => (Spec => RotatedEverywhere)
<1> SUFFICES ASSUME OneRotation PROVE Spec => RotatedEverywhere
  OBVIOUS
<1>1. Init => Settled
  BY ProcFacts DEF Init, Settled
<1>2. Inv /\ Settled /\ [Next]_vars => Settled'
  BY NextSettled
<1>3. Inv /\ Settled /\ [Next]_vars =>
        [\A r \in Rotators : pc[r] = "env" /\ pc'[r] = "idle" /\ faults' = faults =>
            /\ role = kv
            /\ \A w \in Nodes : env'[w] = kv]_vars
  <2> SUFFICES ASSUME Inv, Settled, [Next]_vars,
                      NEW r \in Rotators, pc[r] = "env", pc'[r] = "idle", faults' = faults
               PROVE  role = kv /\ \A w \in Nodes : env'[w] = kv
    OBVIOUS
  <2>0. TypeOK /\ r \in Procs
    BY ProcFacts DEF Inv
  <2>1. /\ role = kv /\ new[r] = kv
        /\ \A j \in 1..(idx[r] - 1) : env[Workers[j]] = kv
    BY DEF Settled
  <2>2. faults' # faults + 1
    BY <2>0, BoundsAssumption DEF TypeOK
  <2>3. env' = [env EXCEPT ![Workers[idx[r]]] = new[r]] /\ ~(idx[r] < N)
    BY <2>0, <2>2, LoopMoves
  <2>4. ASSUME NEW j \in 1..N PROVE env'[Workers[j]] = kv
    BY <2>0, <2>1, <2>3, WorkerFacts, ConstantFacts DEF TypeOK
  <2>5. \A w \in Nodes : env'[w] = kv
    BY <2>4 DEF Nodes
  <2> QED BY <2>1, <2>5
<1> QED BY InvCorrect, <1>1, <1>2, <1>3, PTL DEF Spec, RotatedEverywhere

-----------------------------------------------------------------------------
\* The refinement of OnePassword, step by step.

\* What a rotation in its window owns: the abstract pending.
Held == {new[r] : r \in {q \in Rotators : InWindow(q)}}

\* A rotation in its window has the role, and nobody else is in one.
LEMMA HeldByOne ==
    ASSUME OwnPassword, NEW r \in Rotators, InWindow(r)
    PROVE  Held = {role} /\ new[r] = role /\ \A q \in Rotators : InWindow(q) => q = r
<1>1. \A q \in Rotators : InWindow(q) => new[q] = role /\ q = r
  BY DEF OwnPassword, InWindow
<1> QED BY <1>1 DEF Held

\* Without one, nothing is pending.
LEMMA HeldByNone ==
    ASSUME \A q \in Rotators : ~InWindow(q)
    PROVE  Held = {}
BY DEF Held

\* A step that moves no rotation into or out of its window keeps what is held.
LEMMA HeldKept ==
    ASSUME \A q \in Rotators : (InWindow(q)' <=> InWindow(q)) /\ (InWindow(q) => new'[q] = new[q])
    PROVE  Held' = Held
BY DEF Held

\* The role has the recorded password when a process logs in with one that no
\* rotation in its window owns.
LEMMA LoginOwnsRing ==
    ASSUME Inv, NEW p \in Rotators, pc[p] = "alter", role = old[p]
    PROVE  role = kv /\ (\A q \in Rotators : ~InWindow(q))
<1>1. TypeOK /\ Generated /\ OwnPassword /\ OrphansAreLost /\ RoleIsRecorded /\ p \in Procs
  BY ProcFacts DEF Inv, Ownership
<1>2. \A q \in Rotators : ~InWindow(q)
  BY <1>1 DEF OwnPassword, InWindow
<1>3. role \notin orphaned /\ role # Default
  BY <1>1 DEF OrphansAreLost, Generated
<1> QED BY <1>1, <1>2, <1>3 DEF RoleIsRecorded

\* A process that ends loses the password it holds, or changes nothing.
LEMMA EndMaps ==
    ASSUME Inv, NEW p \in Procs, End(p), UNCHANGED <<role, kv>>
    PROVE  /\ InWindow(p) => Credential!Lose
           /\ ~InWindow(p) => UNCHANGED Credential!vars
<1>0. TypeOK /\ OwnPassword
  BY DEF Inv, Ownership
<1>1. /\ pc'[p] = "idle" /\ \A q \in Procs \ {p} : pc'[q] = pc[q] /\ new'[q] = new[q]
      /\ orphaned' = IF InWindow(p) THEN orphaned \cup {new[p]} ELSE orphaned
  BY <1>0 DEF End, Forget, TypeOK
<1>2. CASE InWindow(p)
  <2>1. p \in Rotators
    BY <1>2 DEF InWindow
  <2>2. Held = {role} /\ new[p] = role /\ \A q \in Rotators : InWindow(q) => q = p
    BY <1>0, <1>2, <2>1, HeldByOne
  <2>3. \A q \in Rotators : ~InWindow(q)'
    BY <1>1, <2>2, ProcFacts DEF InWindow
  <2>4. Held' = {}
    BY <2>3 DEF Held
  <2> QED BY <1>1, <1>2, <2>2, <2>4 DEF Credential!Lose, Held
<1>3. CASE ~InWindow(p)
  <2>1. \A q \in Rotators : (InWindow(q)' <=> InWindow(q)) /\ (InWindow(q) => new'[q] = new[q])
    BY <1>1, <1>3, ProcFacts DEF InWindow
  <2>2. Held' = Held
    BY <2>1, HeldKept
  <2> QED BY <1>1, <1>3, <2>2 DEF Credential!vars, Held
<1> QED BY <1>2, <1>3

\* A step that keeps role, secret and windows is a stutter, however it ends.
LEMMA SilentStep ==
    ASSUME TypeOK, UNCHANGED <<role, kv, orphaned>>,
           \A q \in Rotators : (InWindow(q)' <=> InWindow(q)) /\ (InWindow(q) => new'[q] = new[q])
    PROVE  UNCHANGED Credential!vars
<1>1. Held' = Held
  BY HeldKept
<1> QED BY <1>1 DEF Credential!vars, Held

\* The first build records a password; any other one changes nothing.
LEMMA EnsureMaps ==
    ASSUME Inv, EnsureSecrets
    PROVE  [Credential!Next]_(Credential!vars)
<1>0. TypeOK /\ Generated
  BY DEF Inv, Ownership
<1>1. \A q \in Rotators : (InWindow(q)' <=> InWindow(q)) /\ (InWindow(q) => new'[q] = new[q])
  BY <1>0, ProcFacts DEF EnsureSecrets, Goto, InWindow, TypeOK
<1>2. CASE kv = None /\ made < MaxPasswords + 1 /\ kv' = made + 1
  <2>1. made + 1 \in Passwords
    BY <1>0, <1>2, NextPassword DEF TypeOK
  <2>2. made + 1 \notin {Default, kv} \cup orphaned
    BY <1>0, NumberFacts, BoundsAssumption DEF TypeOK, Generated, Passwords
  <2>3. made + 1 \notin Held
    BY <1>0, NumberFacts, ProcFacts DEF TypeOK, Generated, Held
  <2>4. made + 1 \in Credential!Fresh
    BY <2>1, <2>2, <2>3 DEF Credential!Fresh, Held
  <2>5. Held' = Held
    BY <1>1, HeldKept
  <2>6. Credential!Record(made + 1)
    BY <1>2, <2>5 DEF EnsureSecrets, Credential!Record, Held
  <2> QED BY <2>4, <2>6 DEF Credential!Next
<1>3. CASE UNCHANGED kv
  BY <1>0, <1>1, <1>3, SilentStep DEF EnsureSecrets
<1> QED BY <1>2, <1>3 DEF EnsureSecrets

\* ALTER ROLE configures a new ring, or takes the ring for a rotation, or is
\* refused.
LEMMA AlterMaps ==
    ASSUME Inv, NEW p \in Procs, AlterRole(p)
    PROVE  [Credential!Next]_(Credential!vars)
<1>0. TypeOK /\ Generated /\ OwnPassword /\ InitKnowsKv
  BY DEF Inv, Ownership
<1>1. pc[p] = "alter" /\ UNCHANGED kv /\ ~InWindow(p)
  BY DEF AlterRole, InWindow
<1>2. CASE ~LogsIn(Current(p)) /\ End(p) /\ UNCHANGED role
  BY <1>1, <1>2, EndMaps
<1>3. CASE LogsIn(Current(p)) /\ role' = new[p] /\ p = "deploy"
  <2>1. role = Default /\ new[p] = kv /\ kv # None
    BY <1>0, <1>1, <1>3 DEF LogsIn, Current, InitKnowsKv
  <2>2. \A q \in Rotators : ~InWindow(q)
    BY <1>0, <2>1 DEF OwnPassword, InWindow
  <2>3. UNCHANGED orphaned /\ \A q \in Rotators : pc'[q] = pc[q]
    BY <1>0, <1>1, <1>3, ProcFacts DEF AlterRole, Goto, Forget, End, TypeOK
  <2>4. Held = {} /\ Held' = {}
    BY <2>2, <2>3 DEF Held, InWindow
  <2>5. Credential!Configure
    BY <1>1, <1>3, <2>1, <2>3, <2>4 DEF Credential!Configure, Held
  <2> QED BY <2>5 DEF Credential!Next
<1>4. CASE LogsIn(Current(p)) /\ role' = new[p] /\ p # "deploy"
  <2>1. p \in Rotators /\ role = old[p]
    BY <1>4, ProcFacts DEF LogsIn, Current
  <2>2. role = kv /\ (\A q \in Rotators : ~InWindow(q)) /\ Held = {}
    BY <1>1, <2>1, LoginOwnsRing, HeldByNone
  <2>3. new[p] \in Credential!Fresh
    BY <1>0, <1>1, <2>1, <2>2, NewIsPassword DEF OwnPassword, Credential!Fresh, Held
  <2>4. CASE Goto(p, "confirm") /\ UNCHANGED orphaned
    <3>1. pc'[p] = "confirm" /\ new' = new /\ \A q \in Rotators \ {p} : pc'[q] = pc[q]
      BY <1>0, <2>4, ProcFacts DEF Goto, TypeOK
    <3>2. Held' = {new[p]}
      BY <2>1, <2>2, <3>1 DEF Held, InWindow
    <3>3. PICK x \in Credential!Fresh : x = new[p]
      BY <2>3
    <3>4. Credential!Change(x)
      BY <1>1, <1>4, <2>2, <2>4, <3>2, <3>3 DEF Credential!Change, Held
    <3> QED BY <3>4 DEF Credential!Next
  <2>5. CASE Forget(p) /\ orphaned' = orphaned \cup {new[p]}
    <3>1. pc'[p] = "idle" /\ \A q \in Rotators \ {p} : pc'[q] = pc[q]
      BY <1>0, <2>5, ProcFacts DEF Forget, TypeOK
    <3>2. Held' = {}
      BY <2>1, <2>2, <3>1 DEF Held, InWindow
    <3>3. PICK x \in Credential!Fresh : x = new[p]
      BY <2>3
    <3>4. Credential!ChangeUnawares(x)
      BY <1>1, <1>4, <2>2, <2>5, <3>2, <3>3 DEF Credential!ChangeUnawares, Held
    <3> QED BY <3>4 DEF Credential!Next
  <2>6. LogsIn(Current(p))
    BY <1>4
  <2> QED BY <1>4, <2>4, <2>5, <2>6 DEF AlterRole
<1> QED BY <1>2, <1>3, <1>4 DEF AlterRole

\* The put of a rotation records what the ring has.
LEMMA PutMaps ==
    ASSUME Inv, NEW r \in Rotators, RotatePut(r)
    PROVE  [Credential!Next]_(Credential!vars)
<1>0. TypeOK /\ OwnPassword
  BY DEF Inv, Ownership
<1>1. InWindow(r)
  BY DEF RotatePut, InWindow
<1>2. Held = {role} /\ new[r] = role /\ \A q \in Rotators : InWindow(q) => q = r
  BY <1>0, <1>1, HeldByOne
<1>3. pc'[r] = "env" /\ \A q \in Rotators \ {r} : pc'[q] = pc[q]
  BY <1>0, ProcFacts DEF RotatePut, Goto, TypeOK
<1>4. Held' = {}
  BY <1>2, <1>3 DEF Held, InWindow
<1>5. Credential!Commit
  BY <1>2, <1>4 DEF RotatePut, Credential!Commit, Held
<1> QED BY <1>5 DEF Credential!Next

\* Every other step of a hook changes nothing the abstraction sees, or ends it.
LEMMA QuietMaps ==
    ASSUME Inv, NEW p \in Procs,
           \/ p = "deploy" /\ (Render \/ InitRead \/ ProbeConfigured \/ ProbeDefault \/ InitTimeout)
           \/ p \in Rotators /\ (StartRotation(p) \/ RotateRead(p) \/ RotateProbe(p) \/ RotateEnv(p))
           \/ Confirm(p) \/ HookFails(p)
    PROVE  [Credential!Next]_(Credential!vars)
<1>0. TypeOK
  BY DEF Inv
<1>1. UNCHANGED <<role, kv>>
  BY DEF Render, InitRead, ProbeConfigured, ProbeDefault, InitTimeout, StartRotation, RotateRead,
     RotateProbe, RotateEnv, Confirm, HookFails, dataVars
<1>2. CASE End(p)
  BY <1>1, <1>2, EndMaps DEF Credential!Next
<1>3. CASE ~End(p)
  <2>1. UNCHANGED orphaned
    BY <1>3 DEF Render, InitRead, ProbeConfigured, ProbeDefault, InitTimeout, InitReturns,
       StartRotation, RotateRead, RotateProbe, RotateEnv, Confirm, HookFails
  <2>2. \A q \in Rotators : (InWindow(q)' <=> InWindow(q)) /\ (InWindow(q) => new'[q] = new[q])
    <3>1. CASE p = "deploy"
      BY <1>0, <1>3, <3>1, ProcFacts DEF Render, InitRead, ProbeConfigured, ProbeDefault,
         InitTimeout, InitReturns, Confirm, HookFails, Goto, InWindow, TypeOK
    <3>2. CASE p # "deploy"
      BY <1>0, <1>3, <3>2, ProcFacts DEF StartRotation, RotateRead, RotateProbe, RotateEnv,
         Confirm, HookFails, Goto, InWindow, TypeOK
    <3> QED BY <3>1, <3>2
  <2> QED BY <1>0, <1>1, <2>1, <2>2, SilentStep
<1> QED BY <1>2, <1>3

\* Each step is a step of OnePassword or a stutter.
LEMMA StepMaps == Inv /\ [Next]_vars => [Credential!Next]_(Credential!vars)
<1> SUFFICES ASSUME Inv, [Next]_vars PROVE [Credential!Next]_(Credential!vars)
  OBVIOUS
<1>0. TypeOK
  BY DEF Inv
<1>1. CASE UNCHANGED vars
  BY <1>0, <1>1, SilentStep DEF vars, InWindow
<1>2. CASE EnsureSecrets
  BY <1>2, EnsureMaps
<1>3. CASE Render \/ InitRead \/ ProbeConfigured \/ ProbeDefault \/ InitTimeout
  BY <1>3, QuietMaps, ConstantFacts
<1>4. ASSUME NEW r \in Rotators, StartRotation(r) \/ RotateStep(r)
      PROVE  [Credential!Next]_(Credential!vars)
  BY <1>4, QuietMaps, PutMaps, ProcFacts DEF RotateStep
<1>5. ASSUME NEW p \in Procs, HookStep(p) \/ HookFails(p)
      PROVE  [Credential!Next]_(Credential!vars)
  BY <1>5, AlterMaps, QuietMaps DEF HookStep
<1>6. CASE ServeCql \/ Outage
  BY <1>0, <1>6, SilentStep DEF ServeCql, Outage, locals, InWindow
<1>7. CASE Rebuild
  <2>1. \A q \in Rotators : ~InWindow(q) /\ ~InWindow(q)'
    BY <1>7, ProcFacts DEF Rebuild, locals, InWindow
  <2>2. Held = {} /\ Held' = {}
    BY <2>1 DEF Held
  <2> QED BY <1>7, <2>2 DEF Rebuild, Credential!Next, Credential!Renew, Held
<1> QED BY <1>1, <1>2, <1>3, <1>4, <1>5, <1>6, <1>7 DEF Next, DeployStep

\* The hooks do to the password what OnePassword says, whoever races whom.
THEOREM PasswordAccounted == Spec => PasswordIsAccounted
<1>1. Init => Credential!Init
  BY ProcFacts DEF Init, Credential!Init, InWindow
<1>2. Inv /\ [Next]_vars => [Credential!Next]_(Credential!vars)
  BY StepMaps
<1> QED BY InvCorrect, <1>1, <1>2, PTL DEF Spec, PasswordIsAccounted, Credential!Spec

-----------------------------------------------------------------------------
\* What the run that finds KvPasswordLogsIn violated leaves open: how far it goes.

\* The KV store's password, or the default, is the ring's whenever nothing runs,
\* but for the rotations that died in their window: nothing else locks the
\* operator out.
THEOREM OnlyOrphansLockOut == Spec => [](orphaned = {} => KvPasswordLogsIn)
<1>1. Inv => (orphaned = {} => KvPasswordLogsIn)
  <2> SUFFICES ASSUME Inv, orphaned = {}, \A p \in Procs : pc[p] = "idle"
               PROVE  role \in {Default, kv}
    BY DEF KvPasswordLogsIn
  <2>1. RoleIsRecorded /\ \A r \in Rotators : ~InWindow(r)
    BY ProcFacts DEF Inv, Ownership, InWindow
  <2> QED BY <2>1 DEF RoleIsRecorded
<1> QED BY InvCorrect, <1>1, PTL

\* A rotation dies in its window of a fault, or because the ring stops serving
\* CQL before it was asked for the confirmation, a restart of the seed by a
\* deploy included: nothing any other rotation does makes it lose its password.
THEOREM OrphansHaveCauses ==
    Spec => [][orphaned' # orphaned => cql = "down" \/ faults' = faults + 1]_vars
<1>1. Inv /\ [Next]_vars => [orphaned' # orphaned => cql = "down" \/ faults' = faults + 1]_vars
  <2> SUFFICES ASSUME Inv, [Next]_vars, orphaned' # orphaned
               PROVE  cql = "down" \/ faults' = faults + 1
    OBVIOUS
  <2>1. TypeOK /\ OwnPassword
    BY DEF Inv, Ownership
  <2>2. ASSUME NEW p \in Procs, Confirm(p) PROVE cql = "down"
    <3>1. End(p) /\ InWindow(p) /\ ~LogsIn(new[p])
      BY <2>2, RotatorsAssumption DEF Confirm, InitReturns, End, InWindow
    <3>2. role = new[p]
      BY <2>1, <3>1 DEF OwnPassword, InWindow
    <3> QED BY <2>1, <3>1, <3>2 DEF LogsIn, TypeOK
  <2>3. ASSUME NEW p \in Procs, AlterRole(p) PROVE faults' = faults + 1
    BY <2>3 DEF AlterRole, End, InWindow, Spend
  <2>4. ASSUME NEW p \in Procs, HookFails(p) PROVE faults' = faults + 1
    BY <2>4 DEF HookFails, Spend
  <2>5. (\E p \in Procs : Confirm(p)) \/ (\E p \in Procs : AlterRole(p)) \/ (\E p \in Procs : HookFails(p))
    BY RotatorsAssumption
       DEF Next, vars, DeployStep, RotateStep, HookStep, EnsureSecrets, Render, InitRead,
       ProbeConfigured, ProbeDefault, InitTimeout, InitReturns, StartRotation, RotateRead,
       RotateProbe, RotatePut, RotateEnv, ServeCql, Outage, Rebuild, End, InWindow, dataVars
  <2> QED BY <2>2, <2>3, <2>4, <2>5
<1> QED BY InvCorrect, <1>1, PTL DEF Spec

\* An orphaned password is for good: no hook, deploy or rotation gets the ring
\* open again, only a ring built anew starts with a password somebody knows.
THEOREM OrphansAreFinal == Spec => Credential!LostForGood
<1>1. Inv /\ [Next]_vars =>
        [role' # role /\ role \in orphaned => role' = Default]_(Credential!vars)
  <2> SUFFICES ASSUME Inv, [Next]_vars, role' # role, role \in orphaned PROVE role' = Default
    OBVIOUS
  <2>1. Generated /\ OrphansAreLost
    BY DEF Inv, Ownership
  <2>2. ASSUME NEW p \in Procs, AlterRole(p) PROVE FALSE
    <3>1. role = Current(p)
      BY <2>2 DEF AlterRole, LogsIn
    <3> QED BY <2>1, <3>1, ProcFacts DEF Current, Generated, OrphansAreLost
  <2>3. Rebuild
    BY <2>2, RoleMoves
  <2> QED BY <2>3 DEF Rebuild
<1> QED BY InvCorrect, <1>1, PTL DEF Spec, Credential!LostForGood

-----------------------------------------------------------------------------
\* The theorems about OnePassword, of the cassandra hooks.
Promise == INSTANCE OnePasswordProofs WITH
    ring    <- role,
    record  <- kv,
    pending <- {new[r] : r \in {q \in Rotators : InWindow(q)}},
    lost    <- orphaned

\* What OnePassword promises, the hooks keep: a password somebody was told is in
\* the KV store is never one that a rotation lost, and one rotation owns the ring.
THEOREM PromiseTransfers ==
    Spec => [](Promise!Accounted /\ Promise!OwnedByOne /\ Promise!NeverLost)
<1>1. Promise!Sorts
  BY ConstantFacts DEF Promise!Sorts
<1>2. Promise!Spec => [](Promise!Accounted /\ Promise!OwnedByOne /\ Promise!NeverLost)
  BY <1>1, Promise!PromiseKept
<1>3. Credential!Init => Promise!Init
  BY DEF Promise!Init, Credential!Init
<1>4. [Credential!Next]_(Credential!vars) => [Promise!Next]_(Promise!vars)
  BY DEF Credential!Next, Credential!vars, Credential!Fresh, Credential!Record, Credential!Change,
     Credential!ChangeUnawares, Credential!Configure, Credential!Commit, Credential!Lose,
     Credential!Renew, Promise!Next, Promise!vars, Promise!Fresh, Promise!Record, Promise!Change,
     Promise!ChangeUnawares, Promise!Configure, Promise!Commit, Promise!Lose, Promise!Renew
<1> QED BY PasswordAccounted, <1>2, <1>3, <1>4, PTL
       DEF PasswordIsAccounted, Credential!Spec, Promise!Spec

=============================================================================
