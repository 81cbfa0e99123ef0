---------------------------- MODULE MCRkdgKernels ----------------------------
(* Three elements in a row: a and b share an interface, b and c belong to  *)
(* different submeshes; land at a, an open boundary at c.                  *)
EXTENDS RkdgKernels, TLC

CONSTANTS
  a, b, c,            \* elements
  ab, bc,             \* interfaces
  shore, wall, sea    \* boundaries, of which two stand for several

Profile(x, y, z) == (0 :> x) @@ (1 :> y) @@ (2 :> z)

Row == {a, b, c}
RowIn == (ab :> a) @@ (bc :> b)
RowEx == (ab :> b) @@ (bc :> c)
RowSide ==
  (a :> Profile(ab, shore, shore)) @@ (b :> Profile(ab, bc, wall)) @@ (c :> Profile(bc, sea, wall))

(* The bed slopes at a, which is the highest, and is flat elsewhere.       *)
RowBath == (a :> Profile(0, 2, 4)) @@ (b :> Profile(4, 4, 4)) @@ (c :> Profile(6, 6, 6))

(* Water at rest, and a flow that is deep at one vertex.                   *)
StillOrTilted ==
  {[h |-> Profile(0, 0, 0), q |-> Profile(0, 0, 0)],
   [h |-> Profile(-6, -3, 9), q |-> Profile(4, 2, 0)]}
ThreeFluxes == {-3, 0, 3}
Inflow == {-3, 0}
Shallow == {4, 7}
=============================================================================
