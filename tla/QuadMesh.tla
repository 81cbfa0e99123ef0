------------------------------- MODULE QuadMesh -------------------------------
(***************************************************************************)
(* What quad_mesh_generator writes for a rectangle of m by n cells, each   *)
(* cut into two triangles: the ADCIRC mesh file and the file with the      *)
(* boundary data.  Coordinates, bathymetry and forcing are left out.       *)
(***************************************************************************)
EXTENDS Integers, Sequences, SequencesExt

Node(m, i, j) == j * (m + 1) + i

(* The two triangles of cell (i, j), cut along either diagonal.            *)
SlashCell(m, i, j) ==
  << <<Node(m, i, j), Node(m, i + 1, j + 1), Node(m, i, j + 1)>>,
     <<Node(m, i, j), Node(m, i + 1, j), Node(m, i + 1, j + 1)>> >>
BackslashCell(m, i, j) ==
  << <<Node(m, i, j), Node(m, i + 1, j), Node(m, i, j + 1)>>,
     <<Node(m, i + 1, j), Node(m, i + 1, j + 1), Node(m, i, j + 1)>> >>

(* Element 2(i + mj) and the next one are the triangles of cell (i, j).    *)
Triangulation(m, n, slash) ==
  [e \in 0 .. (2 * m * n) - 1 |->
     LET i == (e % (2 * m)) \div 2
         j == e \div (2 * m)
     IN  (IF <<i, j>> \in slash THEN SlashCell(m, i, j) ELSE BackslashCell(m, i, j))[1 + (e % 2)]]

Cells(m, n) == (0 .. m - 1) \X (0 .. n - 1)
simple_pattern_tri(m, n) == Triangulation(m, n, Cells(m, n))
zigzag_pattern_tri(m, n) == Triangulation(m, n, {c \in Cells(m, n) : c[2] % 2 = 0})
checker_pattern_tri(m, n) == Triangulation(m, n, {c \in Cells(m, n) : c[1] % 2 = c[2] % 2})

(* Bottom, right, top and left, as lists of nodes.                         *)
boundaries(m, n) ==
  << [i \in 1 .. m + 1 |-> i - 1],
     [i \in 1 .. n + 1 |-> m + (i - 1) * (m + 1)],
     [i \in 1 .. m + 1 |-> (i - 1) + (m + 1) * n],
     [i \in 1 .. n + 1 |-> (i - 1) * (m + 1)] >>

(* types[b]: what the input file asks for on side b.                       *)
BoundaryTypesOfInput == {"land", "tide", "flow", "function", "outflow"}
IbTypeOf(type) ==
  CASE type = "land" -> 0 [] type = "flow" -> 2 [] type = "function" -> 77 [] type = "outflow" -> 88

SidesOf(types, wanted) == SelectSeq(<<1, 2, 3, 4>>, LAMBDA b : types[b] \in wanted)

(* The mesh file: tidal sides are open boundaries, the others land         *)
(* boundaries with their IBTYPE, and there are no generic boundaries.      *)
MeshFile(m, n, elements, types) ==
  LET open == SidesOf(types, {"tide"})
      land == SidesOf(types, BoundaryTypesOfInput \ {"tide"})
  IN  [elements |-> elements,
       NBDV |-> [k \in DOMAIN open |-> boundaries(m, n)[open[k]]],
       NBVV |-> [k \in DOMAIN land |-> boundaries(m, n)[land[k]]],
       IBTYPE |-> [k \in DOMAIN land |-> IbTypeOf(types[land[k]])],
       IBCONN |-> << >>,
       NBGN |-> << >>]

(* The boundary data file: a block for every tidal and every flow side.    *)
WriteBCISFile(m, n, types) ==
  LET forced == SidesOf(types, {"tide", "flow"})
  IN  [k \in DOMAIN forced |-> [type |-> types[forced[k]], nodes |-> boundaries(m, n)[forced[k]]]]
===============================================================================
