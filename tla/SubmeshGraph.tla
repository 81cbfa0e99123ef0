----------------------------- MODULE SubmeshGraph -----------------------------
(* The partition of the mesh into submeshes, as both communication layers  *)
(* see it: which submeshes share distributed faces.                        *)
CONSTANTS
  Unit,      \* the submeshes (simulation units) of the whole run
  Neigh      \* Neigh[u]: the submeshes u shares a rank boundary with

ASSUME NeighAssumption ==
  /\ Neigh \in [Unit -> SUBSET Unit]
  /\ \A u \in Unit : u \notin Neigh[u]
  /\ \A u, v \in Unit : v \in Neigh[u] => u \in Neigh[v]
=============================================================================
