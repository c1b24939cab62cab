------------------------------- MODULE KeyEscrow -------------------------------
(***************************************************************************)
(* What the vault hooks promise about the keys of the cluster, whatever    *)
(* they do in between: a cluster is made once; everything its init         *)
(* returned goes into the escrow, the job's KV store, part by part and     *)
(* stays there; a node is opened only when the escrow holds the keys that  *)
(* open it again; and a cluster is given up only while the escrow is still *)
(* empty and so no node was ever open.                                     *)
(***************************************************************************)
EXTENDS Naturals

CONSTANTS
    Nodes,      \* the nodes that may be opened
    Clusters,   \* the clusters that may be made
    None,       \* no cluster
    Parts,      \* how many parts go into the escrow, the keys first
    Required    \* how many keys open a node

VARIABLES
    cluster,    \* the cluster there is, or None
    escrow,     \* the parts that are in the escrow
    open        \* the nodes that are open

vars == <<cluster, escrow, open>>

Init == cluster = None /\ escrow = {} /\ open = {}

\* PUT /sys/init on the designated leader.
Mint ==
    /\ cluster = None /\ escrow = {} /\ open = {}
    /\ cluster' \in Clusters
    /\ UNCHANGED <<escrow, open>>

\* One put: the next part, whatever else happened since the last one.
Deposit(p) ==
    /\ cluster # None
    /\ escrow = {q \in 1..Parts : q < p}
    /\ escrow' = escrow \cup {p}
    /\ UNCHANGED <<cluster, open>>

\* The key that makes the threshold.
Open(n) ==
    /\ cluster # None /\ 1..Required \subseteq escrow
    /\ open' = open \cup {n}
    /\ UNCHANGED <<cluster, escrow>>

\* A restart, or a host that is rebuilt.
Close(n) ==
    /\ open' = open \ {n}
    /\ UNCHANGED <<cluster, escrow>>

\* The documented recovery: the keys were lost before any was stored.
GiveUp ==
    /\ escrow = {} /\ open = {}
    /\ cluster' = None
    /\ UNCHANGED <<escrow, open>>

Next ==
    \/ Mint
    \/ \E p \in 1..Parts : Deposit(p)
    \/ \E n \in Nodes : Open(n) \/ Close(n)
    \/ GiveUp

Spec == Init /\ [][Next]_vars

-----------------------------------------------------------------------------
\* An open node can be opened again: the escrow has the keys.
OpenedAgain == open # {} => 1..Required \subseteq escrow

\* There is no part of nothing, and none is missing before one that is there.
InOrder ==
    /\ escrow # {} => cluster # None
    /\ \A p \in escrow : 1..p \subseteq escrow

\* The first deposit binds: from then on the cluster is never replaced and no
\* part is ever removed.
BoundForGood == [][escrow # {} => cluster' = cluster /\ escrow \subseteq escrow']_vars
=============================================================================
