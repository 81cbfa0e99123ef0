------------------------------ MODULE Partitioner ------------------------------
(***************************************************************************)
(* The partitioner: it cuts the mesh into submeshes, places them on ranks, *)
(* and writes for every submesh its part of the mesh (.meta) and the faces *)
(* it shares with others (.dbmd).  A submesh is named <<rank, number>>.    *)
(***************************************************************************)
EXTENDS AdcircMesh, SequencesExt

(* Pairs of elements with a face or a levee between them.                  *)
edge_weights(mesh) ==
  {{e, mesh[e].neighbor_ID[k]} : <<e, k>> \in
     {x \in (DOMAIN mesh) \X Faces : mesh[x[1]].neighbor_ID[x[2]] # DEFAULT_ID}}

(* Round robin over the ranks of a node, in the order of the partitions.   *)
(* (Any order of the hash map: the partitions have no other name.)         *)
Placement(partition2node, ranks_per_locality) ==
  [p \in DOMAIN partition2node |->
     LET before == Cardinality({q \in DOMAIN partition2node :
                                  q < p /\ partition2node[q] = partition2node[p]})
     IN  <<(before % ranks_per_locality) + (ranks_per_locality * partition2node[p]),
           before \div ranks_per_locality>>]

(* Faces towards another submesh become distributed, in both elements.     *)
SplitElement(mesh, elt2submesh, e) ==
  [mesh[e] EXCEPT !.boundary_type =
     [k \in Faces |->
        LET f == mesh[e].neighbor_ID[k]
        IN  IF {e, f} \in edge_weights(mesh) /\ elt2submesh[f] # elt2submesh[e]
            THEN distributed(mesh[e].boundary_type[k])
            ELSE mesh[e].boundary_type[k]]]

Submeshes(mesh, elt2submesh) ==
  [u \in Range(elt2submesh) |->
     [e \in {x \in DOMAIN mesh : elt2submesh[x] = u} |-> SplitElement(mesh, elt2submesh, e)]]

(* write_distributed_edge_metadata: the inner edges of the mesh that are   *)
(* inner to no submesh.                                                    *)
InnerEdges(mesh) ==
  {{e, mesh[e].neighbor_ID[k]} : <<e, k>> \in
     {x \in (DOMAIN mesh) \X Faces : is_internal(mesh[x[1]].boundary_type[x[2]])}}
CutEdges(mesh, submeshes) ==
  InnerEdges(mesh) \ UNION {InnerEdges(submeshes[u]) : u \in DOMAIN submeshes}

(* Submeshes are compared by rank + number * number of ranks.              *)
Before(num_loc, u, v) == u[1] + (num_loc * u[2]) < v[1] + (num_loc * v[2])

LastFace(mesh, e, f) ==
  CHOOSE k \in Faces : /\ mesh[e].neighbor_ID[k] = f
                       /\ \A l \in Faces : mesh[e].neighbor_ID[l] = f => l <= k

(* The list of the faces u and v share, u first: one list, written to the  *)
(* files of both.                                                          *)
SharedFaces(mesh, submeshes, u, v) ==
  LET pairs == {ef \in (DOMAIN submeshes[u]) \X (DOMAIN submeshes[v]) :
                  {ef[1], ef[2]} \in CutEdges(mesh, submeshes)}
      Shared(ef) == [elements |-> ef,
                     bound_ids |-> <<LastFace(mesh, ef[1], ef[2]), LastFace(mesh, ef[2], ef[1])>>]
      order == SetToSeq(pairs)
  IN  [i \in DOMAIN order |-> Shared(order[i])]

(* Mutant: each file lists the faces from its own side.                    *)
WriteDbmd_OwnOrder(mesh, submeshes, num_loc, u) ==
  {[A |-> u, B |-> v, faces |-> SharedFaces(mesh, submeshes, u, v)] :
     v \in {x \in DOMAIN submeshes : SharedFaces(mesh, submeshes, u, x) # << >>}}

(* The .dbmd file of u: its list with every submesh it shares faces with.  *)
WriteDbmd(mesh, submeshes, num_loc, u) ==
  {[A |-> ab[1], B |-> ab[2], faces |-> SharedFaces(mesh, submeshes, ab[1], ab[2])] :
     ab \in {x \in (DOMAIN submeshes) \X (DOMAIN submeshes) :
               /\ u \in {x[1], x[2]}
               /\ Before(num_loc, x[1], x[2])
               /\ SharedFaces(mesh, submeshes, x[1], x[2]) # << >>}}

(* Everything main of the partitioner writes.                              *)
PartitionFiles(mesh, elt2partition, partition2node, num_nodes, ranks_per_locality) ==
  LET place == Placement(partition2node, ranks_per_locality)
      submeshes == Submeshes(mesh, [e \in DOMAIN mesh |-> place[elt2partition[e]]])
  IN  [u \in DOMAIN submeshes |->
         [meta |-> submeshes[u],
          dbmd |-> WriteDbmd(mesh, submeshes, num_nodes * ranks_per_locality, u)]]
================================================================================
