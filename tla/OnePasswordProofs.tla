--------------------------- MODULE OnePasswordProofs ---------------------------
(***************************************************************************)
(* What follows from OnePassword alone, and so holds of whatever           *)
(* implements it.                                                          *)
(***************************************************************************)
EXTENDS OnePassword, TLAPS

\* What a password is: the default is one, None is not.
Sorts == Default \in Passwords /\ None \notin Passwords

\* The inductive invariant: no password is in two of the places a change keeps
\* apart, and the default is in none.
Apart ==
    /\ ring \in Passwords /\ lost \subseteq Passwords
    /\ record \in Passwords \cup {None} /\ pending \subseteq Passwords
    /\ Default \notin lost \cup pending \cup {record}
    /\ record \notin pending

Inv == Apart /\ Accounted /\ OwnedByOne /\ NeverLost

\* A new ring has the default and nothing else is anywhere.
LEMMA InitInv == Sorts /\ Init => Inv
BY DEF Sorts, Init, Inv, Apart, Accounted, OwnedByOne, NeverLost

\* Each operation moves a password from one place to the next.
LEMMA NextInv == Sorts /\ Inv /\ [Next]_vars => Inv'
<1> SUFFICES ASSUME Sorts, Inv, [Next]_vars PROVE Inv'
  OBVIOUS
<1> USE DEF Inv, Apart, Accounted, OwnedByOne, NeverLost
<1>1. ASSUME NEW p \in Fresh, Record(p) PROVE Inv'
  <2>1. ring # record
    BY <1>1 DEF Record, Sorts
  <2> QED BY <1>1, <2>1 DEF Record, Fresh
<1>2. ASSUME NEW p \in Fresh, Change(p) \/ ChangeUnawares(p) PROVE Inv'
  BY <1>2 DEF Change, ChangeUnawares, Fresh
<1>3. CASE Configure
  BY <1>3 DEF Configure
<1>4. CASE Commit
  BY <1>4 DEF Commit
<1>5. CASE Lose
  BY <1>5 DEF Lose
<1>6. CASE Renew
  BY <1>6 DEF Renew, Sorts
<1>7. CASE UNCHANGED vars
  BY <1>7 DEF vars
<1> QED BY <1>1, <1>2, <1>3, <1>4, <1>5, <1>6, <1>7 DEF Next

\* The ring's password is accounted for, one change at a time owns it, and no
\* lost password is ever recorded.
THEOREM PromiseKept == Sorts => (Spec => [](Accounted /\ OwnedByOne /\ NeverLost))
<1> SUFFICES ASSUME Sorts PROVE Spec => [](Accounted /\ OwnedByOne /\ NeverLost)
  OBVIOUS
<1>1. Init => Inv
  BY InitInv
<1>2. Inv /\ [Next]_vars => Inv'
  BY NextInv
<1>3. Inv => Accounted /\ OwnedByOne /\ NeverLost
  BY DEF Inv
<1> QED BY <1>1, <1>2, <1>3, PTL DEF Spec

\* A ring whose password is lost gets no other password but by being built anew.
THEOREM LostStaysLost == Sorts => (Spec => LostForGood)
<1> SUFFICES ASSUME Sorts PROVE Spec => LostForGood
  OBVIOUS
<1>1. Init => Inv
  BY InitInv
<1>2. Inv /\ [Next]_vars => Inv'
  BY NextInv
<1>3. Inv /\ [Next]_vars => [ring' # ring /\ ring \in lost => ring' = Default]_vars
  BY DEF Inv, Apart, NeverLost, Next, vars, Record, Change, ChangeUnawares, Configure, Commit,
     Lose, Renew
<1> QED BY <1>1, <1>2, <1>3, PTL DEF Spec, LostForGood
=============================================================================
