------------------------------ MODULE OnePassword ------------------------------
(***************************************************************************)
(* What the cassandra hooks promise about the admin password, however many *)
(* of them run at once and wherever they stop: a ring is given the recorded*)
(* password, or a new one by a change that owns the ring until it has      *)
(* recorded it; and what a change loses before it recorded it is never     *)
(* recorded later.                                                         *)
(***************************************************************************)
EXTENDS Naturals

CONSTANTS
    Passwords,  \* every password there can be
    Default,    \* the one a new ring starts with
    None        \* no password is recorded

VARIABLES
    ring,       \* the password that opens the ring
    record,     \* the password written down for its users, or None
    pending,    \* the passwords the ring has and a change is about to record
    lost        \* the passwords a change gave the ring and nobody knows

vars == <<ring, record, pending, lost>>

Init == ring = Default /\ record = None /\ pending = {} /\ lost = {}

Fresh == Passwords \ ({Default, record} \cup lost \cup pending)

\* The first build generates a password.
Record(p) ==
    /\ record = None
    /\ record' = p
    /\ UNCHANGED <<ring, pending, lost>>

\* The seed of a new ring gets the recorded password.
Configure ==
    /\ ring = Default /\ record # None /\ pending = {}
    /\ ring' = record
    /\ UNCHANGED <<record, pending, lost>>

\* A change takes the ring: it replaces the recorded password and no other.
Change(p) ==
    /\ ring = record /\ pending = {}
    /\ ring' = p /\ pending' = {p}
    /\ UNCHANGED <<record, lost>>

\* It writes down what the ring has.
Commit ==
    /\ pending = {ring}
    /\ record' = ring /\ pending' = {}
    /\ UNCHANGED <<ring, lost>>

\* It ends before it did.
Lose ==
    /\ pending = {ring}
    /\ lost' = lost \cup {ring} /\ pending' = {}
    /\ UNCHANGED <<ring, record>>

\* It ends before it even knew that the ring was changed.
ChangeUnawares(p) ==
    /\ ring = record /\ pending = {}
    /\ ring' = p /\ lost' = lost \cup {p}
    /\ UNCHANGED <<record, pending>>

\* The ring is built anew.
Renew ==
    /\ pending = {}
    /\ ring' = Default
    /\ UNCHANGED <<record, pending, lost>>

Next ==
    \/ \E p \in Fresh : Record(p) \/ Change(p) \/ ChangeUnawares(p)
    \/ Configure \/ Commit \/ Lose \/ Renew

Spec == Init /\ [][Next]_vars

-----------------------------------------------------------------------------
\* The ring's password is the default, the recorded one, one a change is about
\* to record, or lost: it is accounted for.
Accounted == ring \in {Default, record} \cup pending \cup lost

\* One change at a time, and the ring has its password.
OwnedByOne == pending \subseteq {ring}

\* The recorded password was never lost, whatever order the changes end in.
NeverLost == record \notin lost /\ pending \cap lost = {}

\* A ring whose password is lost stays shut: no hook gets it open again, only a
\* ring built anew has a known password.
LostForGood == [][ring' # ring /\ ring \in lost => ring' = Default]_vars
=============================================================================
