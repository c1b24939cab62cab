---------------------------- MODULE KeyEscrowProofs ----------------------------
(***************************************************************************)
(* What follows from KeyEscrow alone, and so holds of whatever implements  *)
(* it.                                                                     *)
(***************************************************************************)
EXTENDS KeyEscrow, TLAPS

Inv == escrow \subseteq 1..Parts /\ OpenedAgain /\ InOrder

\* Parts come one after another, keys before the first open node.
LEMMA NextInv == Parts \in Nat /\ Inv /\ [Next]_vars => Inv'
<1> SUFFICES ASSUME Parts \in Nat, Inv, [Next]_vars PROVE Inv'
  OBVIOUS
<1> USE DEF Inv, OpenedAgain, InOrder
<1>1. ASSUME NEW p \in 1..Parts, Deposit(p) PROVE Inv'
  <2>1. escrow' = {q \in 1..Parts : q <= p} /\ UNCHANGED <<cluster, open>>
    BY <1>1 DEF Deposit
  <2>2. \A q \in escrow' : 1..q \subseteq escrow'
    BY <1>1, <2>1 DEF Deposit
  <2> QED BY <1>1, <2>1, <2>2 DEF Deposit
<1>2. ASSUME NEW n \in Nodes, Open(n) \/ Close(n) PROVE Inv'
  BY <1>2 DEF Open, Close
<1>3. CASE Mint \/ GiveUp
  BY <1>3 DEF Mint, GiveUp
<1>4. CASE UNCHANGED vars
  BY <1>4 DEF vars
<1> QED BY <1>1, <1>2, <1>3, <1>4 DEF Next

\* A node is open only when the escrow has its keys; parts come in order.
THEOREM EscrowKept == Parts \in Nat => (Spec => [](OpenedAgain /\ InOrder))
<1> SUFFICES ASSUME Parts \in Nat PROVE Spec => [](OpenedAgain /\ InOrder)
  OBVIOUS
<1>1. Init => Inv
  BY DEF Init, Inv, OpenedAgain, InOrder
<1>2. Inv => OpenedAgain /\ InOrder
  BY DEF Inv
<1>3. Inv /\ [Next]_vars => Inv'
  BY NextInv
<1> QED BY <1>1, <1>2, <1>3, PTL DEF Spec

\* The first deposit binds the cluster to its escrow.
THEOREM DepositBinds == Spec => BoundForGood
<1>1. [Next]_vars => [escrow # {} => cluster' = cluster /\ escrow \subseteq escrow']_vars
  BY DEF Next, vars, Mint, Deposit, Open, Close, GiveUp
<1> QED BY <1>1, PTL DEF Spec, BoundForGood
=============================================================================
