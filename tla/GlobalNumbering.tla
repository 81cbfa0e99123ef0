--------------------------- MODULE GlobalNumbering ---------------------------
(***************************************************************************)
(* How the unknowns on the edges of the mesh skeleton are numbered across  *)
(* submeshes and ranks, for the global systems of the implicit shallow     *)
(* water solver and of the dispersive correction.  Every edge has one      *)
(* unknown; the edges within u are one block of InnerEdges[u].             *)
(***************************************************************************)
EXTENDS OmpiThreads

CONSTANT InnerEdges   \* InnerEdges[u]: interface and boundary edges of u

ASSUME InnerEdgesAssumption == InnerEdges \in [Unit -> Nat]

(* Edges: <<u, u>> is the block of edges within u, <<u, v>> the distributed*)
(* edge of u towards v, which is an edge of v too.                         *)
Edges == {<<u, u>> : u \in Unit} \cup RankBoundaries

(* The side with the smaller locality, then submesh, numbers the edge.     *)
Owns(u, v) ==
  \/ Locality[u] < Locality[v]
  \/ Locality[u] = Locality[v] /\ SubmeshId[u] < SubmeshId[v]

OwnedEdges(u) == {v \in Neigh[u] : Owns(u, v)}

(* The pre_send functions: u numbers its edges from 0, the owned           *)
(* distributed ones last, and counts them.                                 *)
LocalIndex(e) ==
  IF e[1] = e[2] THEN 0
  ELSE IF Owns(e[1], e[2])
       THEN InnerEdges[e[1]] + Cardinality({w \in OwnedEdges(e[1]) : Owns(w, e[2])})
       ELSE -1
LocalCount(u) == InnerEdges[u] + Cardinality(OwnedEdges(u))
LocalCounts == [u \in Unit |-> LocalCount(u)]

(* The sum of the counts f[x] over S: so many pairs there are of an x and a *)
(* number below f[x].                                                      *)
Counted(f, S) == UNION {{x} \X (0 .. f[x] - 1) : x \in S}
SumOf(f, S) == Cardinality(Counted(f, S))

UnitsOn(l) == {u \in Unit : Locality[u] = l}
RankCount(l) == SumOf(LocalCounts, UnitsOn(l))

(* Mutant: an inclusive scan.                                              *)
OffsetInRank_Inclusive(u) ==
  SumOf(LocalCounts, {w \in Unit : Locality[w] = Locality[u] /\ ~Owns(u, w)})

(* Exclusive scans over the submeshes of a rank and over the ranks.        *)
OffsetInRank(u) ==
  SumOf(LocalCounts, {w \in Unit : Locality[w] = Locality[u] /\ Owns(w, u)})
OffsetOfRank(gathered, l) == SumOf(gathered, {r \in Ranks : r < l})

(* Both sides of a distributed edge have the same number, and the numbers  *)
(* of all edges are 0 .. N - 1, none used twice.                           *)
Numbering(indx) ==
  LET Indices(e) == IF e[1] = e[2] THEN indx[e] .. indx[e] + InnerEdges[e[1]] - 1 ELSE {indx[e]}
      Own == {e \in Edges : e[1] = e[2] \/ Owns(e[1], e[2])}
  IN  /\ \A e \in RankBoundaries : indx[e] = indx[<<e[2], e[1]>>]
      /\ UNION {Indices(e) : e \in Own} = 0 .. SumOf(LocalCounts, Unit) - 1
      /\ \A e, f \in Own : e # f => Indices(e) \cap Indices(f) = {}
=============================================================================
