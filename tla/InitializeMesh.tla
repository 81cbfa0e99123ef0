---------------------------- MODULE InitializeMesh ----------------------------
(***************************************************************************)
(* How a simulation unit turns mesh meta data, boundary data and rank      *)
(* boundaries into interfaces, boundaries, distributed boundaries and, for *)
(* the hybridised programs, oriented edges: initialize_mesh,               *)
(* create_interfaces, create_boundaries, create_distributed_boundaries and *)
(* initialize_mesh_skeleton.  A face is <<element, number>>.               *)
(***************************************************************************)
EXTENDS AdcircMesh, SequencesExt

Programs == {"RKDG", "EHDG", "IHDG", "GN"}
Ngp == 2        \* Gauss points of a face: 2p + 1 exactly, p = 1

(* Words a face takes in each message of a program.                        *)
RKDG_comm_buffer == <<2, 3 * Ngp + 1, 4>>
EHDG_comm_buffer == <<2, Ngp, 3 * Ngp, 4>>
IHDG_comm_buffer == <<2, 1 + 4 * Ngp, 4>>
GN_comm_buffer == EHDG_comm_buffer \o <<1, 4 * Ngp, 4 * Ngp>>
WordsOf(program) ==
  CASE program = "RKDG" -> RKDG_comm_buffer
    [] program = "EHDG" -> EHDG_comm_buffer
    [] program = "IHDG" -> IHDG_comm_buffer
    [] program = "GN" -> GN_comm_buffer

(* Function and outflow boundaries are unknown to Green-Naghdi.            *)
GN_boundaries == {land, tide, flow}
SWE_boundaries == {land, tide, flow, function, outflow}
BoundaryTypesOf(program) == IF program = "GN" THEN GN_boundaries ELSE SWE_boundaries

(* The node lists of the tidal and flow blocks of the boundary data file,  *)
(* and the height of every pair of levee nodes, the last one given.        *)
read_bcis(blocks) ==
  LET Lists(type) == {Range(blocks[k].nodes) : k \in {l \in DOMAIN blocks : blocks[l].type = type}}
      Heights == FoldLeft(LAMBDA data, b : IF b.type = "levee" THEN b.heights @@ data ELSE data,
                          << >>, blocks)
  IN  [tide |-> Lists("tide"), flow |-> Lists("flow"), levee |-> Heights]

(* CreateRawBoundaries: inner faces are known by the two elements, others  *)
(* by element and number; a second face with the same key is dropped.      *)
RawBoundaries(elements) ==
  LET RawFaces == (DOMAIN elements) \X Faces
      type(f) == elements[f[1]].boundary_type[f[2]]
      key(f) == IF is_internal(type(f)) THEN <<f[1], elements[f[1]].neighbor_ID[f[2]]>> ELSE f
  IN  {[type |-> type(f), key |-> key(f), face |-> f,
        node_ID |-> FaceNodes(elements[f[1]].node_ID, f[2])] :
          f \in {g \in RawFaces :
                   \A h \in RawFaces :
                     h[1] = g[1] /\ h[2] < g[2] => <<type(h), key(h)>> # <<type(g), key(g)>>}}

(* The levee heights at the nodes of an interface: the pairs of a node and *)
(* the node opposite to it, in either order; {} when one has no data.      *)
LeveeData(data, in, ex) ==
  LET found(i) == {<<in[i], ex[3 - i]>>, <<ex[3 - i], in[i]>>} \cap DOMAIN data
      Of(i) == data[IF <<in[i], ex[3 - i]>> \in found(i) THEN <<in[i], ex[3 - i]>>
                     ELSE <<ex[3 - i], in[i]>>]
  IN  IF found(1) = {} \/ found(2) = {} THEN {} ELSE {<<Of(1), Of(2)>>}

(* An interface for every two faces that name each other, the one with the *)
(* smaller key inside; faces nobody answers are silently dropped.          *)
create_interfaces(raw, levee_data) ==
  LET Interfaces(type) ==
        {p \in {r \in raw : r.type = type} \X {r \in raw : r.type = type} :
           p[1].key = <<p[2].key[2], p[2].key[1]>> /\ p[1].key[1] < p[2].key[1]}
      Made(p, levees) == [in |-> p[1].face, ex |-> p[2].face, nodes |-> <<p[1].node_ID, p[2].node_ID>>,
                          type |-> p[1].type, levee |-> levees]
      Levees(p) == LeveeData(levee_data, p[1].node_ID, p[2].node_ID)
  IN  [made |-> {Made(p, << >>) : p \in Interfaces(internal)} \cup
                UNION {{Made(p, l) : l \in Levees(p)} : p \in Interfaces(levee)},
       throws |-> \E p \in Interfaces(levee) : Levees(p) = {}]

(* get_tide_data, get_flow_data: one of the lists has all nodes.           *)
HasData(lists, r) == \E nodes \in lists : Range(r.node_ID) \subseteq nodes

create_boundaries(raw, bcis, types) ==
  LET mine == {r \in raw : r.type \in types}
  IN  [made |-> {[face |-> r.face, nodes |-> r.node_ID, type |-> r.type] : r \in mine},
       throws |-> \E r \in mine : \/ r.type = tide /\ ~HasData(bcis.tide, r)
                                  \/ r.type = flow /\ ~HasData(bcis.flow, r)]

(* Mutant: the heights are appended in the order of the levee data.        *)
DistributedLevee_AnyNode(data, node_ID) ==
  LET pairs == SetToSeq({p \in DOMAIN data : {p[1], p[2]} \cap Range(node_ID) # {}})
  IN  [i \in DOMAIN pairs |-> data[pairs[i]]]

(* A distributed levee takes the data of every pair each node is in.       *)
DistributedLevee(data, node_ID) ==
  LET Of(n) == LET pairs == SetToSeq({p \in DOMAIN data : n \in {p[1], p[2]}})
               IN  [i \in DOMAIN pairs |-> data[pairs[i]]]
  IN  Of(node_ID[1]) \o Of(node_ID[2])

(* Distributed boundaries in the order of the rank boundary, each at the   *)
(* offsets comm_buffer_offsets gives it in the messages.                   *)
create_distributed_boundaries(raw, levee_data, rank_boundaries, words) ==
  LET Raw(type, face) == {r \in raw : r.type = distributed(type) /\ r.key = face}
      Made(rb, i) ==
        LET face == <<rb.elements_in[i], rb.bound_ids_in[i]>>
            plain == Raw(internal, face)
            raws == IF plain # {} THEN plain ELSE Raw(levee, face)
            r == CHOOSE x \in raws : TRUE
        IN  [face |-> face, type |-> r.type, nodes |-> r.node_ID,
             offset |-> [c \in DOMAIN words |-> (i - 1) * words[c]],
             levee |-> IF plain # {} THEN << >> ELSE DistributedLevee(levee_data, r.node_ID)]
      Protected(r) == \A n \in Range(r.node_ID) : \E p \in DOMAIN levee_data : n \in {p[1], p[2]}
      Known(rb, i) == \E r \in raw : /\ r.type = distributed(internal) \/
                                        (r.type = distributed(levee) /\ Protected(r))
                                     /\ r.key = <<rb.elements_in[i], rb.bound_ids_in[i]>>
      throws == \E rb \in rank_boundaries : \E i \in DOMAIN rb.elements_in : ~Known(rb, i)
  IN  [throws |-> throws,
       made |-> IF throws THEN {} ELSE
                {[in |-> rb.in, ex |-> rb.ex,
                  dbounds |-> [i \in DOMAIN rb.elements_in |-> Made(rb, i)],
                  buffer |-> [c \in DOMAIN words |-> Len(rb.elements_in) * words[c]]] :
                    rb \in rank_boundaries}]

(* The trace basis of a distributed edge runs counterclockwise around the  *)
(* element of the smaller rank, or submesh on the same rank.               *)
ccw(in, ex) == in[1] < ex[1] \/ (in[1] = ex[1] /\ in[2] < ex[2])

create_edge_distributeds(rank_boundaries) ==
  UNION {{[face |-> rb.dbounds[i].face, ccw |-> ccw(rb.in, rb.ex)] : i \in DOMAIN rb.dbounds} :
           rb \in rank_boundaries}

create_edge_boundaries(boundaries) == {[face |-> b.face, ccw |-> TRUE] : b \in boundaries}
create_edge_interfaces(interfaces) == {[face |-> i.in, ccw |-> TRUE] : i \in interfaces}

initialize_mesh_skeleton(mesh, program) ==
  IF program = "RKDG" THEN {}
  ELSE create_edge_boundaries(mesh.boundaries) \cup create_edge_interfaces(mesh.interfaces) \cup
       create_edge_distributeds(mesh.rank_boundaries)

(* The mesh of a unit, {} when the program ends with an exception.         *)
initialize_mesh(elements, bcis, rank_boundaries, program) ==
  LET raw == RawBoundaries(elements)
      interfaces == create_interfaces(raw, bcis.levee)
      boundaries == create_boundaries(raw, bcis, BoundaryTypesOf(program))
      dbounds == create_distributed_boundaries(raw, bcis.levee, rank_boundaries, WordsOf(program))
      used == UNION {{rb.dbounds[i].face : i \in DOMAIN rb.dbounds} : rb \in dbounds.made}
      processed == {internal, levee} \cup BoundaryTypesOf(program)
      unprocessed == {r \in raw : r.type \notin processed /\ r.face \notin used}
      mesh == [interfaces |-> interfaces.made, boundaries |-> boundaries.made,
               rank_boundaries |-> dbounds.made]
  IN  IF interfaces.throws \/ boundaries.throws \/ dbounds.throws \/ unprocessed # {} THEN {}
      ELSE {[mesh |-> mesh, edges |-> initialize_mesh_skeleton(mesh, program)]}
===============================================================================
