------------------------------- MODULE MeshSetup -------------------------------
(***************************************************************************)
(* From a mesh file to running programs: the serial program builds its     *)
(* mesh from the file itself; the partitioner cuts the mesh and writes     *)
(* files, and the ranks of the parallel program build one mesh from each   *)
(* of them, with the parameters of the input file the partitioner wrote.   *)
(***************************************************************************)
EXTENDS Partitioner, InitializeMesh, InputFiles

CONSTANTS
  Inputs,             \* records: program, params (the input file), file (the mesh),
                      \* bcis, and what the user asked for: sides, wellformed
  Partitions,         \* numbers of submeshes asked for
  NumNodes,           \* compute nodes
  RanksPerLocality    \* ranks on each of them

ASSUME MeshSetupAssumption ==
  /\ \A i \in Inputs : i.program \in Programs
  /\ Partitions \subseteq Nat \ {0}
  /\ NumNodes \in Nat \ {0}
  /\ RanksPerLocality \in Nat \ {0}

VARIABLES
  input,      \* the files of the user
  serial,     \* the mesh of the serial program, {} before it is there
  files,      \* the .meta and .dbmd files by submesh
  parallelized, \* the input file for the parallel program, {} before
  units,      \* the meshes of the parallel program by submesh
  aborted     \* a program ended with an exception
vars == <<input, serial, files, parallelized, units, aborted>>

bcis == read_bcis(input.bcis)
NumRanks == NumNodes * RanksPerLocality
Program == input.program
Problem == IF Program = "GN" THEN "GN" ELSE "SWE"

(* Meshes with their parameters: one, or none after an exception.          *)
Built(params, metas, boundaries) ==
  {[params |-> pb[1], mesh |-> pb[2].mesh, edges |-> pb[2].edges] :
     pb \in InputParameters(params, Problem) \X
            UNION {initialize_mesh(meta, bcis, boundaries, Program) : meta \in metas}}

Init ==
  /\ input \in Inputs
  /\ serial = {}
  /\ files = << >>
  /\ parallelized = {}
  /\ units = << >>
  /\ aborted = {}

(* The serial program reads the ADCIRC file and has no rank boundaries.    *)
RunSerial ==
  /\ serial = {} /\ "serial" \notin aborted
  /\ LET built == Built(input.params, MeshMetaData(input.file), {})
     IN  /\ serial' = built
         /\ aborted' = IF built = {} THEN aborted \cup {"serial"} ELSE aborted
  /\ UNCHANGED <<input, files, parallelized, units>>

(* The mesh the input file of the parallel program names.                  *)
Parallelized(params) ==
  [params EXCEPT !.mesh = [@ EXCEPT !["format"] = "Meta", !["file_name"] = "mesh.meta"]]

(* The partitioner, once per run: METIS returns any assignment of elements *)
(* to partitions and of the partitions in use to nodes.                    *)
Partition ==
  /\ files = << >> /\ "partitioner" \notin aborted
  /\ LET params == InputParameters(input.params, "any")
         read == MeshMetaData(input.file)
     IN  IF params = {} \/ read = {}
         THEN aborted' = aborted \cup {"partitioner"} /\ UNCHANGED <<files, parallelized>>
         ELSE \E meta \in read, k \in Partitions :
                \E elt2partition \in [DOMAIN meta -> 0 .. k - 1] :
                  \E partition2node \in [Range(elt2partition) -> 0 .. NumNodes - 1] :
                    /\ files' = PartitionFiles(meta, elt2partition, partition2node,
                                               NumNodes, RanksPerLocality)
                    /\ parallelized' = {write_to(Parallelized(p), p.problem) : p \in params}
                    /\ UNCHANGED aborted
  /\ UNCHANGED <<input, serial, units>>

(* DistributedBoundaryMetaData: the lists of the file seen from u; {} when *)
(* a list is not about u.                                                  *)
ReadDbmd(dbmd, u) ==
  LET Side(list, x) == [i \in DOMAIN list.faces |-> list.faces[i].elements[x]]
      Bound(list, x) == [i \in DOMAIN list.faces |-> list.faces[i].bound_ids[x]]
      Seen(list, in, ex, a, b) ==
        [in |-> in, ex |-> ex, elements_in |-> Side(list, a), elements_ex |-> Side(list, b),
         bound_ids_in |-> Bound(list, a), bound_ids_ex |-> Bound(list, b)]
  IN  IF \E list \in dbmd : u \notin {list.A, list.B} THEN {}
      ELSE {{IF list.A = u THEN Seen(list, list.A, list.B, 1, 2)
             ELSE Seen(list, list.B, list.A, 2, 1) : list \in dbmd}}

(* The ranks take their submeshes in the order of their numbers, as long   *)
(* as there is a file with the next one.                                   *)
NextUnit(r) == <<r, Cardinality({u \in DOMAIN units : u[1] = r})>>
ConstructUnit(r) ==
  LET u == NextUnit(r)
      built == UNION {Built(params, ReadMeta(files[u].meta), boundaries) :
                        params \in parallelized, boundaries \in ReadDbmd(files[u].dbmd, u)}
  IN  /\ "parallel" \notin aborted
      /\ u \in DOMAIN files
      /\ IF built = {}
         THEN aborted' = aborted \cup {"parallel"} /\ UNCHANGED units
         ELSE /\ units' = [w \in DOMAIN units \cup {u} |->
                             IF w = u THEN CHOOSE x \in built : TRUE ELSE units[w]]
              /\ UNCHANGED aborted
      /\ UNCHANGED <<input, serial, files, parallelized>>

Finished ==
  /\ serial # {} \/ "serial" \in aborted
  /\ files # << >> \/ "partitioner" \in aborted
  /\ "parallel" \in aborted \/ DOMAIN units = DOMAIN files
  /\ UNCHANGED vars

Next == RunSerial \/ Partition \/ (\E r \in 0 .. NumRanks - 1 : ConstructUnit(r)) \/ Finished

Spec == Init /\ [][Next]_vars
-------------------------------------------------------------------------------
(***************************************************************************)
(* The geometry a mesh has to reproduce, stated on the nodes of the file.  *)
(***************************************************************************)
FileFaces == (DOMAIN input.file.elements) \X Faces
NodesOfFace(f) == FaceNodes(input.file.elements[f[1]], f[2])
Turned(pair) == <<pair[2], pair[1]>>

(* Two faces meet when they run through the same nodes, or through         *)
(* opposite nodes of a levee, in opposite directions.                      *)
LeveeOf(p, q) ==
  LET data == bcis.levee
      H(a, b) == IF <<a, b>> \in DOMAIN data THEN {data[<<a, b>>]}
                 ELSE IF <<b, a>> \in DOMAIN data THEN {data[<<b, a>>]} ELSE {}
  IN  {<<g, h>> : g \in H(p[1], q[2]), h \in H(p[2], q[1])}

(* Every face of the file is in one interface of two elements or on one    *)
(* boundary; two faces of an interface run in opposite directions along    *)
(* the same nodes, or along the two sides of a levee whose heights are     *)
(* those of the file; and a boundary has the type the user asked for.      *)
(* The program ends with an exception only for boundaries it has not, or   *)
(* for an ill-formed input file (MeshMetaData, create_interfaces,          *)
(* create_boundaries).                                                     *)
SerialMesh ==
  /\ "serial" \in aborted =>
       ~input.wellformed \/ \E t \in Range(input.sides) : t \notin BoundaryTypesOf(Program)
  /\ \A s \in serial :
       LET faces == s.mesh.interfaces
           bounds == s.mesh.boundaries
           Of(f) == {i \in faces : f \in {i.in, i.ex}} \cup {b \in bounds : b.face = f}
       IN  /\ \A f \in FileFaces : Cardinality(Of(f)) = 1
           /\ \A i \in faces :
                LET p == NodesOfFace(i.in)
                    q == NodesOfFace(i.ex)
                IN  \/ i.type = internal /\ p = Turned(q)
                    \/ i.type = levee /\ p # Turned(q) /\ LeveeOf(p, q) = {i.levee}
           /\ \A b \in bounds :
                /\ Range(NodesOfFace(b.face)) \in DOMAIN input.sides
                /\ b.type = input.sides[Range(NodesOfFace(b.face))]
           /\ \A side \in DOMAIN input.sides : \E b \in bounds : Range(NodesOfFace(b.face)) = side

(* However METIS cuts and places the mesh, the submeshes have together the *)
(* interfaces and boundaries of the serial program, with the same types    *)
(* and levee heights: a face is cut into two distributed boundaries with   *)
(* the same nodes, or it is as it was.  The parallel program fails exactly *)
(* when the serial one does (partition, write_distributed_edge_metadata,   *)
(* create_distributed_boundaries).                                         *)
Cut(rb, i, s) ==
  LET d == rb.dbounds[i]
  IN  \E x \in s.mesh.interfaces :
        /\ d.face \in {x.in, x.ex}
        /\ d.type = distributed(x.type)
        /\ d.levee = IF d.face = x.in THEN x.levee ELSE Reverse(x.levee)

SameAsSerial ==
  /\ "serial" \in aborted => files = << >> \/ DOMAIN units # DOMAIN files
  /\ \A s \in serial :
       /\ aborted = {}
       /\ files # << >> /\ DOMAIN units = DOMAIN files =>
            LET Parts == {units[u].mesh : u \in DOMAIN units}
                Dbs == UNION {UNION {{<<rb, i>> : i \in DOMAIN rb.dbounds} : rb \in m.rank_boundaries} : m \in Parts}
                interfaces == UNION {m.interfaces : m \in Parts}
                Halves(x) == {d \in Dbs : d[1].dbounds[d[2]].face \in {x.in, x.ex}}
            IN  /\ UNION {m.boundaries : m \in Parts} = s.mesh.boundaries
                /\ interfaces \subseteq s.mesh.interfaces
                /\ \A x \in s.mesh.interfaces :
                     Cardinality(Halves(x)) = IF x \in interfaces THEN 0 ELSE 2
                /\ \A d \in Dbs : Cut(d[1], d[2], s)

(* Two submeshes agree about the messages between them: each has exactly   *)
(* one rank boundary towards the other or none has, the messages have the  *)
(* same length, and the i-th face of one meets the i-th face of the other  *)
(* at the same offset of every message, in the opposite direction of       *)
(* integration and, in the hybridised programs, of the trace basis         *)
(* (SharedFaces, ReadDbmd, comm_buffer_offsets, create_edge_distributeds). *)
Towards(u, v) == {rb \in units[u].mesh.rank_boundaries : rb.ex = v}
MessagesMatch ==
  \A u, v \in DOMAIN units :
    /\ Cardinality(Towards(u, v)) = Cardinality(Towards(v, u))
    /\ Cardinality(Towards(u, v)) <= 1
    /\ u = v => Towards(u, v) = {}
    /\ \A a \in Towards(u, v), b \in Towards(v, u) :
         /\ a.buffer = b.buffer
         /\ \A i \in DOMAIN a.dbounds :
              LET p == a.dbounds[i]
                  q == b.dbounds[i]
                  EdgesAt(w, face) == {e.ccw : e \in {x \in units[w].edges : x.face = face}}
              IN  /\ p.offset = q.offset
                  /\ \/ p.nodes = Turned(q.nodes)
                     \/ p.levee # << >> /\ LeveeOf(p.nodes, q.nodes) = {p.levee}
                  /\ Program # "RKDG" =>
                       {EdgesAt(u, p.face), EdgesAt(v, q.face)} = {{TRUE}, {FALSE}}

(* Every rank runs with the parameters of the serial program: what the     *)
(* partitioner writes down is read back as it was, whatever sections the   *)
(* user left out or got wrong, except for the mesh file.  The same holds   *)
(* for a program that writes down its own parameters (InputParameters,     *)
(* write_to, as_yaml_node).                                                *)
SameParameters ==
  \A s \in serial :
    /\ \A u \in DOMAIN units : units[u].params = Parallelized(s.params)
    /\ InputParameters(write_to(s.params, as_yaml_node(s.params.problem)), Problem) = {s.params}
===============================================================================
