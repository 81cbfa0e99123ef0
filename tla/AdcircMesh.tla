------------------------------ MODULE AdcircMesh ------------------------------
(***************************************************************************)
(* The ADCIRC mesh reader and MeshMetaData, the description of a mesh the  *)
(* partitioner splits and the programs build their mesh from: the nodes,   *)
(* the neighbours and the boundary types of every element.                 *)
(***************************************************************************)
EXTENDS Integers, Sequences, FiniteSets, Functions

land == 0
tide == 1
flow == 2
function == 3
outflow == 4
internal == 128
levee == 129
NoType == 255      \* an island: read, but without a type
DISTRIBUTED_OFFSET == 64
is_internal(type) == type >= 128 /\ type < 192
distributed(type) == type + DISTRIBUTED_OFFSET

DEFAULT_ID == -1

(* A .meta file has the type of a face as a byte, and the reader skips     *)
(* white space: a byte that is white space is lost, and the rest of the    *)
(* file is read out of step ({}).                                          *)
WhiteSpace == (9 .. 13) \cup {32}
ReadMeta(elements) ==
  IF \E e \in DOMAIN elements : Range(elements[e].boundary_type) \cap WhiteSpace # {} THEN {}
  ELSE {elements}

Faces == 0 .. 2
(* Face k of a triangle lies opposite to its node k.                       *)
FaceNodes(node_ID, k) == <<node_ID[1 + ((k + 1) % 3)], node_ID[1 + ((k + 2) % 3)]>>

(* The reader knows land, island, flow, barrier, function and outflow.     *)
Readable(file) ==
  \A s \in DOMAIN file.IBTYPE :
    file.IBTYPE[s] % 10 \in {0, 1, 2, 4} \/ file.IBTYPE[s] \in {77, 88}
IsBarrier(file, s) == file.IBTYPE[s] % 10 = 4

(* Mutant: only the next node of the list is looked at.                    *)
has_edge_NextOnly(nodes, pair) ==
  \E i \in 1 .. Len(nodes) - 1 : <<nodes[i], nodes[i + 1]>> = pair

has_edge(nodes, pair) ==
  \E i \in 1 .. Len(nodes) - 1 : {nodes[i], nodes[i + 1]} = {pair[1], pair[2]}

(* Islands are read but given no boundary type.                            *)
Typed(file, s) == file.IBTYPE[s] % 10 # 1
TypeOfSegment(file, s) ==
  CASE file.IBTYPE[s] % 10 = 0 -> land
    [] file.IBTYPE[s] % 10 = 2 -> flow
    [] file.IBTYPE[s] % 10 = 4 -> levee
    [] file.IBTYPE[s] = 77 -> function
    [] file.IBTYPE[s] = 88 -> outflow
OnSegment(file, s, pair) ==
  \/ has_edge(file.NBVV[s], pair)
  \/ IsBarrier(file, s) /\ has_edge(file.IBCONN[s], pair)

(* The type of a face with one element: an open boundary, else the first   *)
(* land boundary it is on, else a generic boundary; {} when there is none  *)
(* and the reader throws.                                                  *)
get_ibtype(file, pair) ==
  LET segments == {s \in DOMAIN file.NBVV : Typed(file, s) /\ OnSegment(file, s, pair)}
      first == CHOOSE s \in segments : \A t \in segments : s <= t
  IN  IF \E b \in DOMAIN file.NBDV : has_edge(file.NBDV[b], pair) THEN {tide}
      ELSE IF segments # {} THEN {TypeOfSegment(file, first)}
      ELSE IF \E b \in DOMAIN file.NBGN : has_edge(file.NBGN[b], pair) THEN {land}
      ELSE {}

(* The nodes on the other side of a barrier, in the order a face there     *)
(* runs through them; {} when the reader throws.                           *)
get_internal_node_pair(file, pair) ==
  LET Backs(front, back) ==
        {<<back[ij[2]], back[ij[1]]>> : ij \in
           {x \in (DOMAIN front) \X (DOMAIN front) :
              x[1] - x[2] \in {-1, 1} /\ <<front[x[1]], front[x[2]]>> = pair}}
  IN  UNION {Backs(file.NBVV[s], file.IBCONN[s]) \cup Backs(file.IBCONN[s], file.NBVV[s]) :
               s \in {t \in DOMAIN file.NBVV : IsBarrier(file, t)}}

(* The faces with the nodes of pair: two for an inner edge of the mesh.    *)
edge_dictionary(file) ==
  [pair \in {{a, b} : a, b \in UNION {Range(file.elements[e]) : e \in DOMAIN file.elements}} |->
     {ek \in (DOMAIN file.elements) \X Faces : Range(FaceNodes(file.elements[ek[1]], ek[2])) = pair}]

(* Neighbour and type of face k of element e; {} when the reader throws.   *)
FaceMetaData(file, edges, e, k) ==
  LET pair == FaceNodes(file.elements[e], k)
      others == edges[Range(pair)] \ {<<e, k>>}
      types == get_ibtype(file, pair)
      behind == UNION {edges[Range(back)] : back \in get_internal_node_pair(file, pair)}
      Meta(neighbour, type) == [neighbor_ID |-> neighbour, boundary_type |-> type]
  IN  IF others # {} THEN {Meta(ek[1], internal) : ek \in others}
      ELSE UNION {IF is_internal(type) THEN {Meta(ek[1], type) : ek \in behind}
                  ELSE {Meta(DEFAULT_ID, type)} : type \in types}

(* The MeshMetaData of a file, {} when reading it throws.                  *)
MeshMetaData(file) ==
  LET edges == edge_dictionary(file)
      Of(e) == [k \in Faces |-> FaceMetaData(file, edges, e, k)]
      complete == \A e \in DOMAIN file.elements, k \in Faces : Of(e)[k] # {}
      Elem(e) == LET meta == Of(e)
                     Meta(k) == CHOOSE x \in meta[k] : TRUE
                 IN  [node_ID |-> file.elements[e],
                      neighbor_ID |-> [k \in Faces |-> Meta(k).neighbor_ID],
                      boundary_type |-> [k \in Faces |-> Meta(k).boundary_type]]
  IN  IF Readable(file) /\ complete THEN {[e \in DOMAIN file.elements |-> Elem(e)]} ELSE {}
===============================================================================
