------------------------------ MODULE WetDrying ------------------------------
(* The wetting and drying kernel of the RKDG discretization: what it does  *)
(* to one triangle, given the water depths h and one momentum component q  *)
(* at the three vertices (both components are treated alike).  Depths and  *)
(* momenta are integers; halves and thirds are rounded down.               *)
EXTENDS Integers

CONSTANTS
  h_o,            \* depth of the film of water left on dry ground
  h_o_threshold   \* tolerance of the comparisons with h_o

ASSUME ThresholdAssumption == h_o \in Nat \ {0} /\ h_o_threshold \in 0 .. h_o

Vertex == 0 .. 2

(* The state of an element, and its wet flag.                              *)
WaterColumn == [h : [Vertex -> Int], q : [Vertex -> Int], wet : BOOLEAN]

Sum3(f) == f[0] + f[1] + f[2]
Mean(f) == Sum3(f) \div 3

IsDry(depth) == depth <= h_o + h_o_threshold
DryNode(depth) == IF IsDry(depth) THEN 1 ELSE 0

(* number_of_dry_nodes                                                     *)
DryNodes(h) == DryNode(h[0]) + DryNode(h[1]) + DryNode(h[2])

CompletelyDry(h) == Mean(h) <= h_o_threshold

(* h_avg, which is raised when the element went completely dry.            *)
AverageDepth(h) == IF CompletelyDry(h) THEN h_o_threshold ELSE Mean(h)

(* The first smallest and the first largest vertex; the third is found by  *)
(* subtraction.                                                            *)
MinVertex(h) ==
  IF h[0] <= h[1] /\ h[0] <= h[2] THEN 0 ELSE IF h[1] <= h[2] THEN 1 ELSE 2
MaxVertex(h) ==
  IF h[0] >= h[1] /\ h[0] >= h[2] THEN 0 ELSE IF h[1] >= h[2] THEN 1 ELSE 2
MidVertex(h) == 3 - MaxVertex(h) - MinVertex(h)

(* Mutant: the middle vertex takes all of the water given to the lowest.   *)
Redistribute_Deep(h) ==
  LET mid == h[MidVertex(h)] - (h_o - h[MinVertex(h)])
      max == h[MaxVertex(h)] - (h_o - h[MinVertex(h)]) - (mid - h[MidVertex(h)])
  IN  [v \in Vertex |-> IF v = MinVertex(h) THEN h_o ELSE IF v = MidVertex(h) THEN mid ELSE max]

(* The lowest vertex is set to h_o; the middle one pays half of that but   *)
(* keeps h_o, and the highest one pays the rest.                           *)
Redistribute(h) ==
  LET less == h[MidVertex(h)] - (h_o - h[MinVertex(h)]) \div 2
      mid == IF h_o >= less THEN h_o ELSE less
      max == h[MaxVertex(h)] - (h_o - h[MinVertex(h)]) - (mid - h[MidVertex(h)])
  IN  [v \in Vertex |-> IF v = MinVertex(h) THEN h_o ELSE IF v = MidVertex(h) THEN mid ELSE max]

(* The momentum of the dry vertices, in equal parts to the wet ones.       *)
MoveMomentum(h, q) ==
  LET moved == Sum3([v \in Vertex |-> IF IsDry(h[v]) THEN q[v] ELSE 0])
  IN  [v \in Vertex |-> IF IsDry(h[v]) THEN 0 ELSE q[v] + moved \div (3 - DryNodes(h))]

BathMin(bath) == bath[MinVertex(bath)]

(* The surface at the vertex that was deepest in "picked" is more than h_o *)
(* above the highest ground (bath is the depth of the bed).                *)
SurfaceAboveGround(picked, h, bath) ==
  h[MaxVertex(picked)] - bath[MaxVertex(picked)] > h_o - BathMin(bath)

AtRest == [v \in Vertex |-> 0]

(* check_element: the element is wet, or is dried and stopped.             *)
Checked(picked, h, q, bath) ==
  IF SurfaceAboveGround(picked, h, bath)
  THEN [h |-> h, q |-> q, wet |-> TRUE]
  ELSE [h |-> h, q |-> AtRest, wet |-> FALSE]

(* The branch of the kernel that redistributes water between vertices.     *)
PartlyDry(h) == DryNodes(h) \in 1 .. 2 /\ AverageDepth(h) > h_o + h_o_threshold

(* assert(n_dry_vrtx < 3)                                                  *)
AssertHolds(h) == PartlyDry(h) => DryNodes(Redistribute(h)) < 3

(* wetting_drying_kernel of a water column [h, q, wet] over a bed.  The    *)
(* second branch of a partly dry element levels the water but picks the    *)
(* deepest vertex by the depths before.                                    *)
WettingDrying(w, bath) ==
  LET level == [v \in Vertex |-> AverageDepth(w.h)]
  IN  CASE DryNodes(w.h) = 0 /\ w.wet -> w
        [] DryNodes(w.h) = 0 /\ ~w.wet -> Checked(w.h, w.h, w.q, bath)
        [] DryNodes(w.h) = 3 -> [h |-> level, q |-> AtRest, wet |-> FALSE]
        [] PartlyDry(w.h) ->
             LET h == Redistribute(w.h) IN Checked(h, h, MoveMomentum(h, w.q), bath)
        [] OTHER -> Checked(w.h, level, AtRest, bath)

(* The state an element starts from: wet if deep at every vertex, else dry,*)
(* at rest, and with h_o where there was less.                             *)
InitialWater(h, q) ==
  IF DryNodes(h) = 0
  THEN [h |-> h, q |-> q, wet |-> TRUE]
  ELSE [h |-> [v \in Vertex |-> IF IsDry(h[v]) THEN h_o ELSE h[v]], q |-> AtRest, wet |-> FALSE]
=============================================================================
