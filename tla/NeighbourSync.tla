---------------------------- MODULE NeighbourSync ----------------------------
(***************************************************************************)
(* What both communication layers of dgswem-v2 promise to the solver.      *)
(*                                                                         *)
(* Submeshes advance in rounds of data exchange.  In every round a submesh *)
(* publishes its own boundary data once and then takes the data of each of *)
(* its neighbours once.  Nothing orders submeshes that are not neighbours; *)
(* neighbours are only ordered by the data they need.  The promise is that *)
(* the data a submesh computes with in its round k is what its neighbour   *)
(* published in round k, never an older or a newer publication.            *)
(*                                                                         *)
(* RkdgOmpi (MPI persistent requests) and RkdgHpx (HPX channels) are shown *)
(* to implement this module.                                               *)
(***************************************************************************)
EXTENDS SubmeshGraph, Integers

VARIABLES
  posted,    \* posted[u]: how many rounds u has published
  consumed,  \* consumed[u]: how many rounds u has taken from its neighbours
  got        \* got[u]: for every neighbour, the round its data in use is from

vars == <<posted, consumed, got>>

-----------------------------------------------------------------------------
Init ==
  /\ posted = [u \in Unit |-> 0]
  /\ consumed = [u \in Unit |-> 0]
  /\ got = [u \in Unit |-> [v \in Neigh[u] |-> 0]]

(* u publishes its next round once the previous one is taken.              *)
Post(u) ==
  /\ posted[u] = consumed[u]
  /\ posted' = [posted EXCEPT ![u] = @ + 1]
  /\ UNCHANGED <<consumed, got>>

(* u takes the round it has published, when every neighbour has published  *)
(* it too.                                                                 *)
Consume(u) ==
  /\ posted[u] = consumed[u] + 1
  /\ \A v \in Neigh[u] : posted[v] >= posted[u]
  /\ consumed' = [consumed EXCEPT ![u] = @ + 1]
  /\ got' = [got EXCEPT ![u] = [v \in Neigh[u] |-> posted[u]]]
  /\ UNCHANGED posted

Next == \E u \in Unit : Post(u) \/ Consume(u)

Spec == Init /\ [][Next]_vars

-----------------------------------------------------------------------------
TypeOK ==
  /\ posted \in [Unit -> Nat]
  /\ consumed \in [Unit -> Nat]
  /\ got = [u \in Unit |-> got[u]]
  /\ \A u \in Unit : got[u] \in [Neigh[u] -> Nat]

(* The inductive invariant.  A submesh takes what it published before it   *)
(* publishes again, and what it has taken, its neighbours have published.  *)
Inv ==
  /\ TypeOK
  /\ \A u \in Unit : posted[u] \in {consumed[u], consumed[u] + 1}
  /\ \A u \in Unit : \A v \in Neigh[u] : consumed[u] <= posted[v]
  /\ \A u \in Unit : \A v \in Neigh[u] : got[u][v] = consumed[u]

(* A submesh is at most one round ahead of a neighbour, and a neighbour has*)
(* published at most two rounds the submesh has not taken: no third message*)
(* of WaitAllReceives' neighbour, no third value in an HPX channel.        *)
Skew ==
  \A u \in Unit : \A v \in Neigh[u] :
    /\ consumed[u] <= consumed[v] + 1
    /\ posted[v] <= consumed[u] + 2

(* Data once taken is never taken again, and no round of a neighbour is    *)
(* skipped (GetFromReceiveBuffer after WaitAllReceives, get of a channel). *)
EveryRoundOnce ==
  [][\A u \in Unit : \A v \in Neigh[u] : got'[u][v] \in {got[u][v], got[u][v] + 1}]_vars
=============================================================================
