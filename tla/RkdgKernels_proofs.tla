-------------------------- MODULE RkdgKernels_proofs --------------------------
(* Proofs about the kernels of a stage, for every mesh, partition, bed and *)
(* flow, and before them about the wetting and drying kernel on one        *)
(* triangle, for all depths, momenta and thresholds; at the end, that the  *)
(* water of the mesh is kept, with what it takes to speak of sums over a   *)
(* set.                                                                    *)
EXTENDS RkdgKernels, FiniteSetTheorems, WellFoundedInduction, TLAPS

(* The three vertices.                                                     *)
LEMMA Vertices == Vertex = {0, 1, 2}
BY DEF Vertex

(* A function on the vertices given by an expression.                      *)
LEMMA VertexSum ==
  ASSUME NEW f \in [Vertex -> Int]
  PROVE  Sum3(f) \in Int /\ Mean(f) \in Int
BY Vertices DEF Sum3, Mean

(* In an element with dry and deep vertices the lowest and the highest     *)
(* vertex differ, so the index 3 - max - min is the third vertex.          *)
THEOREM MidVertexValid ==
  ASSUME NEW h \in [Vertex -> Int], DryNodes(h) \in 1 .. 2
  PROVE  /\ MinVertex(h) \in Vertex /\ MaxVertex(h) \in Vertex /\ MidVertex(h) \in Vertex
         /\ {MinVertex(h), MaxVertex(h), MidVertex(h)} = Vertex
         /\ IsDry(h[MinVertex(h)])
         /\ h[MinVertex(h)] <= h[MidVertex(h)]
         /\ h[MidVertex(h)] <= h[MaxVertex(h)]
<1>1. /\ h[0] \in Int /\ h[1] \in Int /\ h[2] \in Int
      /\ h_o \in Int /\ h_o_threshold \in Int
  BY ThresholdAssumption, Vertices
<1>2. ~(h[0] = h[1] /\ h[1] = h[2])
  BY <1>1 DEF DryNodes, DryNode, IsDry
<1>3. \E v \in Vertex : IsDry(h[v])
  BY <1>1, Vertices DEF DryNodes, DryNode
<1>4. MinVertex(h) \in Vertex /\ MaxVertex(h) \in Vertex /\ MinVertex(h) # MaxVertex(h)
  BY <1>1, <1>2, Vertices DEF MinVertex, MaxVertex
<1>5. MidVertex(h) \in Vertex /\ {MinVertex(h), MaxVertex(h), MidVertex(h)} = Vertex
  BY <1>4, Vertices DEF MidVertex
<1>6. \A v \in Vertex : h[MinVertex(h)] <= h[v] /\ h[v] <= h[MaxVertex(h)]
  BY <1>1, Vertices DEF MinVertex, MaxVertex
<1>7. IsDry(h[MinVertex(h)])
  BY <1>1, <1>3, <1>4, <1>6, Vertices DEF IsDry
<1>8. QED
  BY <1>4, <1>5, <1>6, <1>7

(* The redistribution in terms of the lowest, middle and highest depth.    *)
LEMMA Redistributed ==
  ASSUME NEW h \in [Vertex -> Int], PartlyDry(h),
         NEW lo, lo = h[MinVertex(h)], NEW mi, mi = h[MidVertex(h)],
         NEW hi, hi = h[MaxVertex(h)],
         NEW newmi, newmi = Redistribute(h)[MidVertex(h)],
         NEW newhi, newhi = Redistribute(h)[MaxVertex(h)]
  PROVE  /\ lo \in Int /\ mi \in Int /\ hi \in Int /\ newmi \in Int /\ newhi \in Int
         /\ Redistribute(h) \in [Vertex -> Int]
         /\ Redistribute(h)[MinVertex(h)] = h_o
         /\ Sum3(h) = lo + mi + hi
         /\ Sum3(Redistribute(h)) = h_o + newmi + newhi
         /\ newmi >= h_o /\ newmi >= mi - (h_o - lo) \div 2
         /\ newmi = h_o \/ newmi = mi - (h_o - lo) \div 2
         /\ h_o + newmi + newhi = lo + mi + hi
         /\ lo <= mi /\ mi <= hi /\ lo <= h_o + h_o_threshold
         /\ lo + mi + hi > 3 * (h_o + h_o_threshold) + 2
<1>1. DryNodes(h) \in 1 .. 2 /\ AverageDepth(h) > h_o + h_o_threshold
  BY DEF PartlyDry
<1>2. /\ MinVertex(h) \in Vertex /\ MaxVertex(h) \in Vertex /\ MidVertex(h) \in Vertex
      /\ {MinVertex(h), MaxVertex(h), MidVertex(h)} = Vertex
      /\ IsDry(lo) /\ lo <= mi /\ mi <= hi
  BY <1>1, MidVertexValid
<1>3. lo \in Int /\ mi \in Int /\ hi \in Int /\ h_o \in Nat /\ h_o_threshold \in Nat
  BY <1>2, ThresholdAssumption
<1>4. /\ MinVertex(h) # MaxVertex(h) /\ MinVertex(h) # MidVertex(h)
      /\ MidVertex(h) # MaxVertex(h)
  BY <1>2, Vertices
<1> DEFINE less == mi - (h_o - lo) \div 2
           mid == IF h_o >= less THEN h_o ELSE less
           max == hi - (h_o - lo) - (mid - mi)
<1>5. less \in Int /\ mid \in Int /\ max \in Int
  BY <1>3
<1>6. Redistribute(h) =
        [v \in Vertex |-> IF v = MinVertex(h) THEN h_o ELSE IF v = MidVertex(h) THEN mid ELSE max]
  BY DEF Redistribute
<1>7. Redistribute(h)[MinVertex(h)] = h_o /\ newmi = mid /\ newhi = max
  BY <1>2, <1>4, <1>6
<1>8. Redistribute(h) \in [Vertex -> Int]
  BY <1>3, <1>5, <1>6
<1>9. Sum3(h) = lo + mi + hi
  BY <1>2, <1>3, <1>4, Vertices DEF Sum3
<1>10. Sum3(Redistribute(h)) = h_o + newmi + newhi
  <2> DEFINE new == Redistribute(h)
             least == MinVertex(h)
             middle == MidVertex(h)
             most == MaxVertex(h)
  <2>1. new[0] \in Int /\ new[1] \in Int /\ new[2] \in Int
    BY <1>8, Vertices
  <2>2. /\ {least, most, middle} = {0, 1, 2}
        /\ least # most /\ least # middle /\ middle # most
    BY <1>2, <1>4, Vertices
  <2>3. new[least] = h_o /\ new[middle] = newmi /\ new[most] = newhi
    BY <1>7
  <2> HIDE DEF new, least, middle, most
  <2>4. \/ new[0] = h_o /\ new[1] = newmi /\ new[2] = newhi
        \/ new[0] = h_o /\ new[2] = newmi /\ new[1] = newhi
        \/ new[1] = h_o /\ new[0] = newmi /\ new[2] = newhi
        \/ new[1] = h_o /\ new[2] = newmi /\ new[0] = newhi
        \/ new[2] = h_o /\ new[0] = newmi /\ new[1] = newhi
        \/ new[2] = h_o /\ new[1] = newmi /\ new[0] = newhi
    BY <2>2, <2>3
  <2>5. new[0] + new[1] + new[2] = h_o + newmi + newhi
    BY <1>3, <2>1, <2>4
  <2>6. QED
    BY <2>5 DEF Sum3, new
<1>11. lo + mi + hi > 3 * (h_o + h_o_threshold) + 2
  <2>1. Mean(h) > h_o + h_o_threshold
    BY <1>1, <1>3, <1>9 DEF AverageDepth, CompletelyDry, Mean
  <2>2. QED
    BY <2>1, <1>3, <1>9 DEF Mean
<1>12. h_o + newmi + newhi = lo + mi + hi
  BY <1>3, <1>5, <1>7
<1>13. newmi >= h_o /\ newmi >= less /\ (newmi = h_o \/ newmi = less)
  BY <1>3, <1>5, <1>7
<1>14. lo <= h_o + h_o_threshold
  BY <1>2 DEF IsDry
<1>15. QED
  BY <1>2, <1>3, <1>5, <1>7, <1>8, <1>9, <1>10, <1>11, <1>12, <1>13, <1>14

(* Redistribution keeps the water of the element, to the last unit.        *)
THEOREM RedistributionKeepsWater ==
  ASSUME NEW h \in [Vertex -> Int], PartlyDry(h)
  PROVE  Sum3(Redistribute(h)) = Sum3(h)
BY Redistributed

(* The assertion n_dry_vrtx < 3 of the kernel cannot fail: the average is  *)
(* above the threshold, the lowest vertex is set to h_o, so another one is *)
(* above the threshold.                                                    *)
THEOREM AssertionHolds ==
  ASSUME NEW h \in [Vertex -> Int]
  PROVE  AssertHolds(h)
<1> SUFFICES ASSUME PartlyDry(h) PROVE DryNodes(Redistribute(h)) < 3
  BY DEF AssertHolds
<1> DEFINE mi == Redistribute(h)[MidVertex(h)]
           hi == Redistribute(h)[MaxVertex(h)]
<1>1. /\ mi \in Int /\ hi \in Int
      /\ h_o + mi + hi > 3 * (h_o + h_o_threshold) + 2
  BY Redistributed
<1>2. h_o \in Nat /\ h_o_threshold \in Nat
  BY ThresholdAssumption
<1>3. ~IsDry(mi) \/ ~IsDry(hi)
  BY <1>1, <1>2 DEF IsDry
<1>4. MidVertex(h) \in Vertex /\ MaxVertex(h) \in Vertex
  BY MidVertexValid DEF PartlyDry
<1>5. \E v \in Vertex : ~IsDry(Redistribute(h)[v])
  BY <1>3, <1>4
<1>6. QED
  BY <1>5, Vertices DEF DryNodes, DryNode

(* After redistribution no vertex has less than h_o.                       *)
THEOREM RedistributionDeepens ==
  ASSUME NEW h \in [Vertex -> Int], PartlyDry(h), NEW v \in Vertex
  PROVE  Redistribute(h)[v] >= h_o
<1> DEFINE lo == h[MinVertex(h)]
           mi == h[MidVertex(h)]
           hi == h[MaxVertex(h)]
           newmi == Redistribute(h)[MidVertex(h)]
           newhi == Redistribute(h)[MaxVertex(h)]
<1>1. /\ lo \in Int /\ mi \in Int /\ hi \in Int /\ newmi \in Int /\ newhi \in Int
      /\ Redistribute(h)[MinVertex(h)] = h_o
      /\ newmi >= h_o
      /\ newmi = h_o \/ newmi = mi - (h_o - lo) \div 2
      /\ h_o + newmi + newhi = lo + mi + hi
      /\ lo <= mi /\ mi <= hi /\ lo <= h_o + h_o_threshold
      /\ lo + mi + hi > 3 * (h_o + h_o_threshold) + 2
  BY Redistributed
<1>2. h_o \in Nat /\ h_o_threshold \in Nat
  BY ThresholdAssumption
<1>3. newhi >= h_o
  <2>1. CASE newmi = h_o
    BY <1>1, <1>2, <2>1
  <2>2. CASE newmi = mi - (h_o - lo) \div 2
    BY <1>1, <1>2, <2>2
  <2>3. QED
    BY <1>1, <2>1, <2>2
<1>4. v \in {MinVertex(h), MaxVertex(h), MidVertex(h)}
  BY MidVertexValid DEF PartlyDry
<1>5. QED
  BY <1>1, <1>2, <1>3, <1>4

(* The average, raised or not, and the ground are numbers.                 *)
LEMMA AverageTyped ==
  ASSUME NEW h \in [Vertex -> Int]
  PROVE  /\ AverageDepth(h) \in Int
         /\ BathMin(h) \in Int /\ BathMin(h) <= h[MaxVertex(h)]
         /\ MaxVertex(h) \in Vertex /\ MinVertex(h) \in Vertex
         /\ \A v \in Vertex : BathMin(h) <= h[v]
<1>1. /\ h[0] \in Int /\ h[1] \in Int /\ h[2] \in Int
      /\ h_o \in Int /\ h_o_threshold \in Int
  BY ThresholdAssumption, Vertices
<1>2. AverageDepth(h) \in Int
  BY <1>1, VertexSum DEF AverageDepth
<1>3. MaxVertex(h) \in Vertex /\ MinVertex(h) \in Vertex
  BY Vertices DEF MaxVertex, MinVertex
<1>4. BathMin(h) <= h[0] /\ BathMin(h) <= h[1] /\ BathMin(h) <= h[2] /\ BathMin(h) \in Int
  BY <1>1 DEF BathMin, MinVertex
<1>5. QED
  BY <1>2, <1>3, <1>4, Vertices

(* Moving the momentum divides by the number of wet vertices, of which     *)
(* there is one whenever there is momentum to receive.                     *)
LEMMA MomentumTyped ==
  ASSUME NEW h \in [Vertex -> Int], NEW q \in [Vertex -> Int]
  PROVE  MoveMomentum(h, q) \in [Vertex -> Int]
<1> DEFINE moved == Sum3([v \in Vertex |-> IF IsDry(h[v]) THEN q[v] ELSE 0])
<1>1. moved \in Int
  BY VertexSum
<1>2. DryNodes(h) \in 0 .. 3
  BY DEF DryNodes, DryNode
<1> SUFFICES ASSUME NEW v \in Vertex, ~IsDry(h[v])
             PROVE  q[v] + moved \div (3 - DryNodes(h)) \in Int
  BY DEF MoveMomentum
<1>3. DryNodes(h) # 3
  BY Vertices DEF DryNodes, DryNode
<1>4. 3 - DryNodes(h) \in {1, 2, 3}
  BY <1>2, <1>3
<1> HIDE DEF moved
<1>5. moved \div (3 - DryNodes(h)) \in Int
  BY <1>1, <1>4
<1>6. QED
  BY <1>5

(* Momentum moved from the dry vertices to the wet ones is kept but for    *)
(* what the division by their number leaves over, which in the code, where *)
(* momenta are not integers, is nothing.                                   *)
THEOREM MomentumMoved ==
  ASSUME NEW h \in [Vertex -> Int], NEW q \in [Vertex -> Int], DryNodes(h) < 3
  PROVE  LET moved == Sum3([v \in Vertex |-> IF IsDry(h[v]) THEN q[v] ELSE 0])
         IN  Sum3(MoveMomentum(h, q)) = Sum3(q) - (moved % (3 - DryNodes(h)))
<1> DEFINE d(v) == IsDry(h[v])
           moved == Sum3([v \in Vertex |-> IF IsDry(h[v]) THEN q[v] ELSE 0])
           n == 3 - DryNodes(h)
           part == moved \div n
           left == moved % n
<1>1. q[0] \in Int /\ q[1] \in Int /\ q[2] \in Int
  BY Vertices
<1>2. moved = (IF d(0) THEN q[0] ELSE 0) + (IF d(1) THEN q[1] ELSE 0) + (IF d(2) THEN q[2] ELSE 0)
  BY Vertices DEF Sum3
<1>3. n = (IF d(0) THEN 0 ELSE 1) + (IF d(1) THEN 0 ELSE 1) + (IF d(2) THEN 0 ELSE 1)
  BY DEF DryNodes, DryNode
<1>4. moved \in Int /\ n \in {1, 2, 3}
  <2>1. moved \in Int
    BY <1>1, <1>2
  <2>2. DryNodes(h) \in 0 .. 3
    BY DEF DryNodes, DryNode
  <2>3. n \in {1, 2, 3}
    BY <2>2
  <2> QED
    BY <2>1, <2>3
<1>5. /\ MoveMomentum(h, q)[0] = IF d(0) THEN 0 ELSE q[0] + part
      /\ MoveMomentum(h, q)[1] = IF d(1) THEN 0 ELSE q[1] + part
      /\ MoveMomentum(h, q)[2] = IF d(2) THEN 0 ELSE q[2] + part
  BY Vertices DEF MoveMomentum
<1> SUFFICES Sum3(MoveMomentum(h, q)) = Sum3(q) - left
  OBVIOUS
<1>6. part \in Int /\ left \in Int /\ moved = part * n + left
  <2> HIDE DEF moved, n
  <2> QED
    BY <1>4
<1> HIDE DEF d, moved, n, part, left
<1>7. /\ n = 1 => moved = part + left
      /\ n = 2 => moved = part + part + left
      /\ n = 3 => moved = part + part + part + left
  BY <1>6
<1>8. n = 1 \/ n = 2 \/ n = 3
  BY <1>4
<1> DEFINE m0 == MoveMomentum(h, q)[0]
           m1 == MoveMomentum(h, q)[1]
           m2 == MoveMomentum(h, q)[2]
<1> HIDE DEF m0, m1, m2
<1>9. m0 + m1 + m2 = (q[0] + q[1] + q[2]) - left
  <2>1. /\ m0 = IF d(0) THEN 0 ELSE q[0] + part
        /\ m1 = IF d(1) THEN 0 ELSE q[1] + part
        /\ m2 = IF d(2) THEN 0 ELSE q[2] + part
    BY <1>5 DEF m0, m1, m2
  <2>2. CASE n = 1
    BY <1>1, <1>2, <1>3, <1>6, <1>7, <2>1, <2>2
  <2>3. CASE n = 2
    <3>1. moved = part + part + left
      BY <1>7, <2>3
    <3>2. \/ d(0) /\ ~d(1) /\ ~d(2)
          \/ ~d(0) /\ d(1) /\ ~d(2)
          \/ ~d(0) /\ ~d(1) /\ d(2)
      BY <1>3, <2>3
    <3>3. CASE d(0) /\ ~d(1) /\ ~d(2)
      BY <1>1, <1>2, <1>6, <2>1, <3>1, <3>3
    <3>4. CASE ~d(0) /\ d(1) /\ ~d(2)
      BY <1>1, <1>2, <1>6, <2>1, <3>1, <3>4
    <3>5. CASE ~d(0) /\ ~d(1) /\ d(2)
      BY <1>1, <1>2, <1>6, <2>1, <3>1, <3>5
    <3> QED
      BY <3>2, <3>3, <3>4, <3>5
  <2>4. CASE n = 3
    <3>1. moved = part + part + part + left
      BY <1>7, <2>4
    <3>2. ~d(0) /\ ~d(1) /\ ~d(2)
      BY <1>3, <2>4
    <3>3. moved = 0 /\ m0 = q[0] + part /\ m1 = q[1] + part /\ m2 = q[2] + part
      BY <1>2, <2>1, <3>2
    <3> QED
      BY <1>1, <1>6, <3>1, <3>3
  <2> QED
    BY <1>8, <2>2, <2>3, <2>4
<1> QED
  BY <1>9 DEF Sum3, m0, m1, m2

(* The check of the surface against the ground, of depths h, at the vertex *)
(* that some other depths picked.                                          *)
LEMMA CheckedSound ==
  ASSUME NEW picked \in [Vertex -> Int], NEW h \in [Vertex -> Int],
         NEW q \in [Vertex -> Int], NEW bath \in [Vertex -> Int]
  PROVE  LET checked == Checked(picked, h, q, bath)
         IN  /\ checked \in WaterColumn
             /\ checked.h = h
             /\ checked.wet => h[MaxVertex(picked)] > h_o
             /\ ~checked.wet => checked.q = AtRest
<1>1. AtRest \in [Vertex -> Int]
  BY DEF AtRest
<1>2. SurfaceAboveGround(picked, h, bath) => h[MaxVertex(picked)] > h_o
  <2>1. MaxVertex(picked) \in Vertex
    BY AverageTyped
  <2>2. /\ BathMin(bath) \in Int /\ bath[MaxVertex(picked)] \in Int
        /\ BathMin(bath) <= bath[MaxVertex(picked)]
    BY <2>1, AverageTyped
  <2>3. h[MaxVertex(picked)] \in Int /\ h_o \in Int
    BY <2>1, ThresholdAssumption
  <2>4. QED
    BY <2>2, <2>3 DEF SurfaceAboveGround
<1>3. CASE SurfaceAboveGround(picked, h, bath)
  BY <1>2, <1>3 DEF Checked, WaterColumn
<1>4. CASE ~SurfaceAboveGround(picked, h, bath)
  BY <1>1, <1>4 DEF Checked, WaterColumn
<1>5. QED
  BY <1>3, <1>4

(* What the kernel leaves behind: a wet element has at least h_o at every  *)
(* vertex, so that velocities can be computed from its momentum, and a dry *)
(* one is at rest.                                                         *)
THEOREM WettingDryingResult ==
  ASSUME NEW w \in WaterColumn, NEW bath \in [Vertex -> Int]
  PROVE  LET r == WettingDrying(w, bath)
         IN  /\ r \in WaterColumn
             /\ r.wet => \A v \in Vertex : r.h[v] >= h_o
             /\ ~r.wet => r.q = AtRest
<1> DEFINE level == [v \in Vertex |-> AverageDepth(w.h)]
           r == WettingDrying(w, bath)
<1>1. /\ w.h \in [Vertex -> Int] /\ w.q \in [Vertex -> Int] /\ w.wet \in BOOLEAN
  BY DEF WaterColumn
<1>2. level \in [Vertex -> Int] /\ AtRest \in [Vertex -> Int]
  BY <1>1, AverageTyped DEF AtRest
<1>3. h_o \in Nat /\ h_o_threshold \in Nat
  BY ThresholdAssumption
<1>4. DryNodes(w.h) = 0 => \A v \in Vertex : w.h[v] >= h_o
  <2>1. DryNodes(w.h) = 0 => ~IsDry(w.h[0]) /\ ~IsDry(w.h[1]) /\ ~IsDry(w.h[2])
    BY DEF DryNodes, DryNode
  <2>2. \A v \in Vertex : w.h[v] \in Int /\ (~IsDry(w.h[v]) => w.h[v] >= h_o)
    BY <1>1, <1>3 DEF IsDry
  <2>3. QED
    BY <2>1, <2>2, Vertices
<1>disjoint. PartlyDry(w.h) => DryNodes(w.h) # 0 /\ DryNodes(w.h) # 3
  BY DEF PartlyDry
<1>5. CASE DryNodes(w.h) = 0 /\ w.wet
  <2>1. r = w
    BY <1>5, <1>disjoint DEF WettingDrying
  <2>2. QED
    BY <1>4, <1>5, <2>1
<1>6. CASE DryNodes(w.h) = 0 /\ ~w.wet
  <2>1. r = Checked(w.h, w.h, w.q, bath)
    BY <1>6, <1>disjoint DEF WettingDrying
  <2>2. QED
    BY <1>1, <1>4, <1>6, <2>1, CheckedSound
<1>7. CASE DryNodes(w.h) = 3
  <2>1. r = [h |-> level, q |-> AtRest, wet |-> FALSE]
    BY <1>7, <1>disjoint DEF WettingDrying
  <2>2. QED
    BY <1>2, <2>1 DEF WaterColumn
<1>8. CASE PartlyDry(w.h)
  <2> DEFINE h == Redistribute(w.h)
  <2>1. DryNodes(w.h) # 0 /\ DryNodes(w.h) # 3
    BY <1>8 DEF PartlyDry
  <2>2. r = Checked(h, h, MoveMomentum(h, w.q), bath)
    BY <1>8, <2>1, <1>disjoint DEF WettingDrying
  <2>3. h \in [Vertex -> Int]
    BY <1>1, <1>8, Redistributed
  <2>4. \A v \in Vertex : h[v] >= h_o
    BY <1>1, <1>8, RedistributionDeepens
  <2>5. MoveMomentum(h, w.q) \in [Vertex -> Int]
    BY <1>1, <2>3, MomentumTyped
  <2> HIDE DEF h
  <2>6. QED
    BY <2>2, <2>3, <2>4, <2>5, CheckedSound
<1>9. CASE DryNodes(w.h) # 0 /\ DryNodes(w.h) # 3 /\ ~PartlyDry(w.h)
  <2>1. r = Checked(w.h, level, AtRest, bath)
    BY <1>9, <1>disjoint DEF WettingDrying
  <2>2. \A v \in Vertex : level[v] = level[MaxVertex(w.h)]
    BY <1>1, AverageTyped
  <2>3. level[MaxVertex(w.h)] \in Int
    BY <1>1, <1>2, AverageTyped
  <2> HIDE DEF level
  <2>4. QED
    BY <1>1, <1>2, <1>3, <2>1, <2>2, <2>3, CheckedSound
<1>10. QED
  BY <1>1, <1>5, <1>6, <1>7, <1>8, <1>9

-----------------------------------------------------------------------------
(* The kernels of a stage.                                                 *)

(* Both sides of a distributed interface compute the mass flux that one    *)
(* process computes for an interface: partitioning does not change it, and *)
(* what one side takes the other gives.                                    *)
THEOREM SidesAgree ==
  ASSUME NEW f \in Int, NEW wet_in \in BOOLEAN, NEW wet_ex \in BOOLEAN
  PROVE  LET flux == InternalFlux(f, wet_in, wet_ex)
         IN  /\ DistributedFlux(f, wet_in, wet_ex) = flux.in
             /\ DistributedFlux(-f, wet_ex, wet_in) = flux.ex
             /\ flux.in \in Int /\ flux.ex = -flux.in
BY DEF InternalFlux, DistributedFlux

LEMMA ThirdOfSum ==
  ASSUME NEW m \in Int, NEW x \in Int, NEW y \in Int, NEW z \in Int, x + y + z = 0
  PROVE  (m + x + (m + y) + (m + z)) \div 3 = m
<1>1. m + x + (m + y) + (m + z) = 3 * m
  OBVIOUS
<1>2. (3 * m) \div 3 = m
  OBVIOUS
<1>3. QED
  BY <1>1, <1>2

(* The mean of the depths of a flow is the mean it was made with.          *)
LEMMA DepthsMean ==
  ASSUME NEW mean \in Int, NEW flow \in Flows
  PROVE  /\ Depths(mean, flow) \in [Vertex -> Int]
         /\ Mean(Depths(mean, flow)) = mean
<1>1. flow.h \in [Vertex -> Int] /\ Sum3(flow.h) = 0
  BY MeshAssumption
<1>2. flow.h[0] \in Int /\ flow.h[1] \in Int /\ flow.h[2] \in Int
  BY <1>1, Vertices
<1>3. /\ Depths(mean, flow)[0] = mean + flow.h[0]
      /\ Depths(mean, flow)[1] = mean + flow.h[1]
      /\ Depths(mean, flow)[2] = mean + flow.h[2]
  BY Vertices DEF Depths
<1>4. flow.h[0] + flow.h[1] + flow.h[2] = 0
  BY <1>1 DEF Sum3
<1>5. Mean(Depths(mean, flow)) = (mean + flow.h[0] + (mean + flow.h[1]) + (mean + flow.h[2])) \div 3
  BY <1>3 DEF Mean, Sum3
<1>6. (mean + flow.h[0] + (mean + flow.h[1]) + (mean + flow.h[2])) \div 3 = mean
  <2> DEFINE x == flow.h[0]
             y == flow.h[1]
             z == flow.h[2]
  <2>1. x \in Int /\ y \in Int /\ z \in Int /\ x + y + z = 0
    BY <1>2, <1>4
  <2> HIDE DEF x, y, z
  <2>2. (mean + x + (mean + y) + (mean + z)) \div 3 = mean
    BY <2>1, ThirdOfSum
  <2>3. QED
    BY <2>2 DEF x, y, z
<1>7. QED
  BY <1>1, <1>5, <1>6 DEF Depths

(* The side of an element is an interface between it and another or a      *)
(* boundary.                                                               *)
LEMMA SideTyped ==
  ASSUME NEW e \in Element, NEW k \in Bound
  PROVE  LET side == Side[e][k]
         IN  \/ side \in Boundary
             \/ /\ side \in Interface
                /\ In[side] \in Element /\ Ex[side] \in Element
                /\ e \in {In[side], Ex[side]}
<1>1. Side \in [Element -> [Bound -> Interface \cup Boundary]]
  BY MeshAssumption
<1>2. Side[e][k] \in Interface \cup Boundary
  BY <1>1
<1>3. \A i \in Interface : In[i] \in Element /\ Ex[i] \in Element
  BY MeshAssumption
<1>4. Side[e][k] \in Interface => e \in {In[Side[e][k]], Ex[Side[e][k]]}
  BY MeshAssumption
<1>5. QED
  BY <1>2, <1>3, <1>4

(* A dry element loses nothing through a side, and every loss is a number. *)
LEMMA DryLoss ==
  ASSUME TypeOK, NEW e \in Element, NEW k \in Bound,
         NEW f \in [Interface -> Fluxes], NEW g \in [Boundary -> OpenFluxes \cup {0}]
  PROVE  /\ SideLoss(e, Side[e][k], f, g) \in Int
         /\ ~Wet(e) => SideLoss(e, Side[e][k], f, g) <= 0
<1> DEFINE side == Side[e][k]
<1>1. CASE side \in Boundary
  <2>1. g[side] \in Int
    <3>1. OpenFluxes \cup {0} \subseteq Int
      BY MeshAssumption
    <3>2. QED
      BY <1>1, <3>1
  <2>2. SideLoss(e, side, f, g) = IF Wet(e) THEN g[side] ELSE 0
    BY <1>1 DEF SideLoss
  <2>3. QED
    BY <2>1, <2>2
<1>2. CASE side \notin Boundary /\ ~Active(side)
  BY <1>2 DEF SideLoss
<1>3. CASE side \notin Boundary /\ Active(side)
  <2>1. /\ side \in Interface /\ f[side] \in Int
        /\ In[side] \in Element /\ Ex[side] \in Element /\ e \in {In[side], Ex[side]}
    <3>1. Fluxes \subseteq Int
      BY MeshAssumption
    <3>2. QED
      BY <1>3, <3>1, SideTyped
  <2>2. Wet(In[side]) \in BOOLEAN /\ Wet(Ex[side]) \in BOOLEAN
    BY <2>1 DEF TypeOK, WaterColumn, Wet
  <2> DEFINE flux == InternalFlux(f[side], Wet(In[side]), Wet(Ex[side]))
  <2>3. SideFlux(side, f[side]).in = flux.in /\ SideFlux(side, f[side]).ex = flux.ex
    BY <2>1, <2>2, SidesAgree DEF SideFlux
  <2>4. SideLoss(e, side, f, g) = IF In[side] = e THEN flux.in ELSE flux.ex
    BY <1>3, <2>3 DEF SideLoss
  <2>5. /\ flux.in \in Int /\ flux.ex \in Int
        /\ ~Wet(In[side]) => flux.in <= 0
        /\ ~Wet(Ex[side]) => flux.ex <= 0
    BY <2>1, <2>2 DEF InternalFlux
  <2> HIDE DEF flux
  <2>6. QED
    BY <2>1, <2>4, <2>5
<1>4. QED
  BY <1>1, <1>2, <1>3

(* No element is given its rhs with a loss while it is dry.                *)
DryGains == at = "update" => \A e \in Element : ~Wet(e) => rhs[e].gain >= 0

IInv == TypeOK /\ WettingDryingSound /\ DryGains

LEMMA InitialWaterTyped ==
  ASSUME NEW h \in [Vertex -> Int], NEW q \in [Vertex -> Int]
  PROVE  InitialWater(h, q) \in WaterColumn
BY ThresholdAssumption DEF InitialWater, WaterColumn, AtRest

LEMMA FlowTyped ==
  ASSUME NEW flow \in Flows
  PROVE  flow.h \in [Vertex -> Int] /\ flow.q \in [Vertex -> Int]
BY MeshAssumption

LEMMA InitIInv == Init => IInv
<1> SUFFICES ASSUME Init PROVE IInv
  OBVIOUS
<1>1. water \in [Element -> WaterColumn]
  <2>1. PICK mean \in [Element -> InitialMeans], flow \in [Element -> Flows] :
          water = [e \in Element |-> InitialWater(Depths(mean[e], flow[e]), flow[e].q)]
    BY DEF Init
  <2>2. ASSUME NEW e \in Element
        PROVE  InitialWater(Depths(mean[e], flow[e]), flow[e].q) \in WaterColumn
    <3>1. InitialMeans \subseteq Int
      BY MeshAssumption
    <3>2. mean[e] \in Int /\ flow[e] \in Flows
      BY <3>1
    <3>3. Depths(mean[e], flow[e]) \in [Vertex -> Int] /\ flow[e].q \in [Vertex -> Int]
      BY <3>2, DepthsMean, FlowTyped
    <3>4. QED
      BY <3>3, InitialWaterTyped
  <2>3. QED
    BY <2>1, <2>2
<1>2. TypeOK
  BY <1>1 DEF Init, TypeOK, NoRhs
<1>3. WettingDryingSound /\ DryGains
  BY DEF Init, WettingDryingSound, DryGains, AssertHolds
<1>4. QED
  BY <1>2, <1>3 DEF IInv

(* Kernels: what a dry element gains is the sum of three gains.            *)
LEMMA KernelsIInv == IInv /\ Kernels => IInv'
<1> SUFFICES ASSUME IInv, Kernels PROVE IInv'
  OBVIOUS
<1>1. TypeOK
  BY DEF IInv
<1>2. PICK f \in [Interface -> Fluxes], g \in [Boundary -> OpenFluxes \cup {0}] :
        /\ F_hat' = g
        /\ rhs' = [e \in Element |->
             [gain |-> -Sum3([k \in Bound |-> SideLoss(e, Side[e][k], f, g)]),
              touched |-> Touched(e)]]
  BY DEF Kernels
<1>3. ASSUME NEW e \in Element
      PROVE  /\ rhs'[e].gain \in Int /\ rhs'[e].touched \in BOOLEAN
             /\ ~Wet(e) => rhs'[e].gain >= 0
  <2> DEFINE loss == [k \in Bound |-> SideLoss(e, Side[e][k], f, g)]
  <2>1. \A k \in Bound : loss[k] \in Int /\ (~Wet(e) => loss[k] <= 0)
    BY <1>1, DryLoss
  <2>2. /\ loss[0] \in Int /\ loss[1] \in Int /\ loss[2] \in Int
        /\ ~Wet(e) => loss[0] <= 0 /\ loss[1] <= 0 /\ loss[2] <= 0
    BY <2>1 DEF Bound
  <2>3. rhs'[e].gain = -(loss[0] + loss[1] + loss[2]) /\ rhs'[e].touched = Touched(e)
    BY <1>2 DEF Sum3
  <2>4. Touched(e) \in BOOLEAN
    BY <1>1 DEF Touched, TypeOK, Wet, WaterColumn
  <2> HIDE DEF loss
  <2>5. QED
    BY <2>2, <2>3, <2>4
<1>4. TypeOK'
  <2>1. rhs' \in [Element -> [gain : Int, touched : BOOLEAN]]
    BY <1>2, <1>3
  <2>2. F_hat' \in [Boundary -> Int]
    <3>1. OpenFluxes \cup {0} \subseteq Int
      BY MeshAssumption
    <3>2. QED
      BY <1>2, <3>1
  <2>3. QED
    BY <1>1, <2>1, <2>2 DEF Kernels, limiterVars, TypeOK
<1>5. WettingDryingSound'
  BY DEF Kernels, WettingDryingSound
<1>6. DryGains'
  BY <1>3 DEF Kernels, DryGains, Wet
<1>7. QED
  BY <1>4, <1>5, <1>6 DEF IInv

(* Update: the new mean of an element that was added to is its old mean    *)
(* and what it gained.                                                     *)
LEMMA UpdateMeans ==
  ASSUME TypeOK, Update, NEW e \in Element
  PROVE  /\ water'[e] \in WaterColumn
         /\ Mean(water[e].h) \in Int /\ rhs[e].gain \in Int
         /\ Mean(water'[e].h) = IF rhs[e].touched THEN Mean(water[e].h) + rhs[e].gain
                                ELSE Mean(water[e].h)
<1>1. PICK flow \in [Element -> Flows] :
        water' = [d \in Element |->
          IF rhs[d].touched
          THEN [water[d] EXCEPT !.h = Depths(Mean(@) + rhs[d].gain, flow[d]), !.q = flow[d].q]
          ELSE water[d]]
  BY DEF Update
<1>2. /\ water[e] \in WaterColumn /\ water[e].h \in [Vertex -> Int]
      /\ rhs[e].gain \in Int /\ rhs[e].touched \in BOOLEAN /\ flow[e] \in Flows
  BY DEF TypeOK, WaterColumn
<1> DEFINE mean == Mean(water[e].h) + rhs[e].gain
<1>3. Mean(water[e].h) \in Int
  BY <1>2, VertexSum
<1>4. mean \in Int
  BY <1>2, <1>3
<1> HIDE DEF mean
<1>5. Depths(mean, flow[e]) \in [Vertex -> Int] /\ Mean(Depths(mean, flow[e])) = mean
  BY <1>2, <1>4, DepthsMean
<1>6. flow[e].q \in [Vertex -> Int]
  BY <1>2, FlowTyped
<1>7. CASE rhs[e].touched
  <2>1. water'[e] = [h |-> Depths(mean, flow[e]), q |-> flow[e].q, wet |-> water[e].wet]
    BY <1>1, <1>2, <1>7 DEF WaterColumn, mean
  <2>2. QED
    BY <1>2, <1>3, <1>5, <1>6, <1>7, <2>1 DEF WaterColumn, mean
<1>8. CASE ~rhs[e].touched
  BY <1>1, <1>2, <1>3, <1>8
<1>9. QED
  BY <1>2, <1>7, <1>8

LEMMA UpdateIInv == IInv /\ Update => IInv'
<1> SUFFICES ASSUME IInv, Update PROVE IInv'
  OBVIOUS
<1>1. water' \in [Element -> WaterColumn]
  <2>1. \A e \in Element : water'[e] \in WaterColumn
    BY UpdateMeans DEF IInv
  <2>2. water' = [e \in Element |-> water'[e]]
    BY DEF Update
  <2>3. QED
    BY <2>1, <2>2
<1>2. TypeOK'
  BY <1>1 DEF IInv, TypeOK, Update, limiterVars
<1>3. WettingDryingSound'
  <2>1. \A e \in Element : AssertHolds(water'[e].h)
    BY <1>1, AssertionHolds DEF WaterColumn
  <2>2. QED
    BY <2>1 DEF Update, WettingDryingSound
<1>4. DryGains'
  BY DEF Update, DryGains
<1>5. QED
  BY <1>2, <1>3, <1>4 DEF IInv

LEMMA WetDryIInv == IInv /\ WetDry => IInv'
<1> SUFFICES ASSUME IInv, WetDry PROVE IInv'
  OBVIOUS
<1>1. \A e \in Element : water[e] \in WaterColumn /\ Bath[e] \in [Vertex -> Int]
  BY MeshAssumption DEF IInv, TypeOK
<1>2. \A e \in Element : water'[e] = WettingDrying(water[e], Bath[e])
  BY DEF WetDry
<1>3. ASSUME NEW e \in Element
      PROVE  /\ water'[e] \in WaterColumn
             /\ water'[e].wet => \A v \in Vertex : water'[e].h[v] >= h_o
             /\ ~water'[e].wet => water'[e].q = AtRest
  BY <1>1, <1>2, WettingDryingResult
<1>4. TypeOK'
  <2>1. water' \in [Element -> WaterColumn]
    BY <1>3 DEF WetDry
  <2>2. rhs' \in [Element -> [gain : Int, touched : BOOLEAN]]
    BY DEF WetDry, IInv, TypeOK, NoRhs
  <2>3. went_completely_dry' \in [Element -> BOOLEAN]
    BY DEF WetDry, CompletelyDry
  <2>4. QED
    BY <2>1, <2>2, <2>3 DEF WetDry, IInv, TypeOK, limiterVars
<1>5. WettingDryingSound'
  BY <1>3 DEF WetDry, WettingDryingSound, Wet
<1>6. DryGains'
  BY DEF WetDry, DryGains
<1>7. QED
  BY <1>4, <1>5, <1>6 DEF IInv

(* The averages the limiter works with are numbers.                        *)
LEMMA LimitTyped ==
  ASSUME TypeOK, Limit
  PROVE  /\ q_at_baryctr' \in [Element -> Int]
         /\ wet_neigh' \in [Sides -> BOOLEAN]
         /\ q_at_baryctr_neigh' \in [Sides -> Int]
<1>1. \A e \in Element : Mean(water[e].h) \in Int
  BY VertexSum DEF TypeOK, WaterColumn
<1>2. q_at_baryctr' \in [Element -> Int]
  BY <1>1 DEF Limit, PrepareAverages, TypeOK
<1>3. \A s \in Sides : Across(s) \in Element
  BY SideTyped DEF Sides, Across
<1>4. q_at_baryctr_neigh' \in [Sides -> Int]
  BY <1>2, <1>3 DEF Limit, PrepareSides, TypeOK
<1>5. \A s \in Sides : Wet(Across(s)) \in BOOLEAN
  BY <1>3 DEF TypeOK, WaterColumn, Wet
<1>6. wet_neigh' \in [Sides -> BOOLEAN]
  BY <1>5 DEF Limit, PrepareSides
<1>7. QED
  BY <1>2, <1>4, <1>6

LEMMA LimitIInv == IInv /\ Limit => IInv'
<1> SUFFICES ASSUME IInv, Limit PROVE IInv'
  OBVIOUS
<1>1. TypeOK
  BY DEF IInv
<1>2. PICK changed \in SUBSET {e \in Element : Limited(e)}, flow \in [Element -> Flows] :
        water' = [e \in Element |->
          IF e \in changed
          THEN [water[e] EXCEPT !.h = Depths(Mean(@), flow[e]),
                                !.q = IF Sum3(flow[e].q) = Sum3(@) THEN flow[e].q ELSE @]
          ELSE water[e]]
  BY DEF Limit
<1>3. ASSUME NEW e \in Element PROVE water'[e] \in WaterColumn
  <2>1. /\ water[e] \in WaterColumn /\ water[e].h \in [Vertex -> Int]
        /\ water[e].q \in [Vertex -> Int] /\ flow[e] \in Flows
    BY <1>1 DEF TypeOK, WaterColumn
  <2>2. Depths(Mean(water[e].h), flow[e]) \in [Vertex -> Int] /\ flow[e].q \in [Vertex -> Int]
    BY <2>1, VertexSum, DepthsMean, FlowTyped
  <2>3. QED
    BY <1>2, <2>1, <2>2 DEF WaterColumn
<1>4. water' \in [Element -> WaterColumn]
  BY <1>2, <1>3
<1>5. TypeOK'
  BY <1>1, <1>4, LimitTyped DEF Limit, TypeOK
<1>6. WettingDryingSound' /\ DryGains'
  BY DEF Limit, WettingDryingSound, DryGains
<1>7. QED
  BY <1>5, <1>6 DEF IInv

LEMMA NextIInv == IInv /\ [Next]_vars => IInv'
<1> SUFFICES ASSUME IInv, [Next]_vars PROVE IInv'
  OBVIOUS
<1>1. CASE UNCHANGED vars
  BY <1>1 DEF vars, limiterVars, IInv, TypeOK, WettingDryingSound, DryGains, Wet
<1>2. CASE Next
  BY <1>2, KernelsIInv, UpdateIInv, WetDryIInv, LimitIInv DEF Next
<1>3. QED
  BY <1>1, <1>2

(* Every variable keeps its range: above all, the averages the limiter     *)
(* uses, one per side and filled by three loops, are all filled with       *)
(* numbers.                                                                *)
THEOREM TypeCorrect == Spec => []TypeOK
<1>1. IInv => TypeOK
  BY DEF IInv
<1>2. QED
  BY InitIInv, NextIInv, <1>1, PTL DEF Spec

(* Every wet element has h_o at all vertices when wetting and drying is    *)
(* done, every dry one is at rest, and the assertion of the kernel holds:  *)
(* for every mesh, bed, numerical flux and shape of the solution.          *)
THEOREM WettingDryingCorrect == Spec => []WettingDryingSound
<1>1. IInv => WettingDryingSound
  BY DEF IInv
<1>2. QED
  BY InitIInv, NextIInv, <1>1, PTL DEF Spec

(* Dry elements only gain in the update, from interfaces and from other    *)
(* submeshes alike.                                                        *)
THEOREM DryElementsKeepWater == Spec => DryKeepsWater
<1> DEFINE Keeps == at = "update" =>
              \A e \in Element : ~Wet(e) => Mean(water'[e].h) >= Mean(water[e].h)
<1>1. IInv /\ [Next]_vars => [Keeps]_vars
  <2> SUFFICES ASSUME IInv, Next, at = "update", NEW e \in Element, ~Wet(e)
               PROVE  Mean(water'[e].h) >= Mean(water[e].h)
    OBVIOUS
  <2>1. Update
    BY DEF Next, Kernels, WetDry, Limit
  <2>2. rhs[e].gain >= 0
    BY DEF IInv, DryGains
  <2>3. /\ Mean(water[e].h) \in Int /\ rhs[e].gain \in Int
        /\ Mean(water'[e].h) = IF rhs[e].touched THEN Mean(water[e].h) + rhs[e].gain
                               ELSE Mean(water[e].h)
    BY <2>1, UpdateMeans DEF IInv
  <2>4. QED
    BY <2>2, <2>3
<1>2. QED
  BY InitIInv, NextIInv, <1>1, PTL DEF Spec, DryKeepsWater

(* The limiter changes an element only with averages of this stage.        *)
THEOREM LimiterUsesFreshAverages == Spec => LimiterFresh
<1> DEFINE Fresh == at = "limit" =>
              \A s \in Sides : water'[s[1]] # water[s[1]] =>
                /\ Wet(Across(s))
                /\ q_at_baryctr_neigh'[s] = Mean(water[Across(s)].h)
<1>1. IInv /\ [Next]_vars => [Fresh]_vars
  <2> SUFFICES ASSUME IInv, Next, at = "limit",
                      NEW s \in Sides, water'[s[1]] # water[s[1]]
               PROVE  /\ Wet(Across(s))
                      /\ q_at_baryctr_neigh'[s] = Mean(water[Across(s)].h)
    OBVIOUS
  <2>1. Limit
    BY DEF Next, Kernels, Update, WetDry
  <2>2. s[1] \in Element /\ Across(s) \in Element
    BY SideTyped DEF Sides, Across
  <2>3. Limited(s[1])
    <3>1. PICK changed \in SUBSET {e \in Element : Limited(e)}, flow \in [Element -> Flows] :
            water' = [e \in Element |->
              IF e \in changed
              THEN [water[e] EXCEPT !.h = Depths(Mean(@), flow[e]),
                                    !.q = IF Sum3(flow[e].q) = Sum3(@) THEN flow[e].q ELSE @]
              ELSE water[e]]
      BY <2>1 DEF Limit
    <3>2. ~Limited(s[1]) => water'[s[1]] = water[s[1]]
      BY <2>2, <3>1
    <3>3. QED
      BY <3>2
  <2>4. Wet(s[1]) /\ Wet(Across(s))
    BY <2>1, <2>3 DEF Limited, Limit, PrepareSides
  <2>5. q_at_baryctr_neigh'[s] = q_at_baryctr'[Across(s)]
    BY <2>1, <2>4 DEF Limit, PrepareSides
  <2>6. q_at_baryctr'[Across(s)] = Mean(water[Across(s)].h)
    BY <2>1, <2>2, <2>4 DEF Limit, PrepareAverages
  <2>7. QED
    BY <2>4, <2>5, <2>6
<1>2. QED
  BY InitIInv, NextIInv, <1>1, PTL DEF Spec, LimiterFresh

-----------------------------------------------------------------------------
(* Sums over finite sets.  A family of sets of elements of S that has a    *)
(* set when it has those with one element less has all of them.            *)
LEMMA SetInduction ==
  ASSUME NEW S, IsFiniteSet(S), NEW G,
         \A T \in SUBSET S : (\A x \in T : T \ {x} \in G) => T \in G
  PROVE  \A T \in SUBSET S : T \in G
<1> DEFINE B == (SUBSET S) \ G
           R == StrictSubsetOrdering(S)
<1>1. SUFFICES ASSUME B # {} PROVE FALSE
  OBVIOUS
<1>2. IsWellFoundedOn(R, FiniteSubsetsOf(S))
  BY FS_StrictSubsetOrderingWellFounded
<1>3. B \subseteq FiniteSubsetsOf(S)
  BY FS_Subset DEF FiniteSubsetsOf
<1> HIDE DEF R
<1>4. PICK T \in B : \A U \in B : <<U, T>> \notin R
  BY <1>1, <1>2, <1>3, WFMin
<1>5. ASSUME NEW x \in T PROVE T \ {x} \in G
  <2>1. T \ {x} \in SUBSET S /\ T \in SUBSET S /\ T \ {x} # T
    OBVIOUS
  <2>2. <<T \ {x}, T>> \in R
    BY <2>1 DEF R, StrictSubsetOrdering
  <2> QED
    BY <1>4, <2>1, <2>2
<1> QED
  BY <1>4, <1>5

(* g has the sums of F over the subsets of S: taking any element out of a  *)
(* set takes its value out of the sum.                                     *)
IsSum(F, S, g) ==
  /\ g \in [SUBSET S -> Int]
  /\ g[{}] = 0
  /\ \A T \in SUBSET S : \A x \in T : g[T] = F[x] + g[T \ {x}]

(* There are such sums, though they are not defined by recursion here: the *)
(* sum over one more element is made from that without it.                 *)
LEMMA SumExists ==
  ASSUME NEW S, IsFiniteSet(S), NEW F \in [S -> Int]
  PROVE  \E g : IsSum(F, S, g)
<1> DEFINE G == {T \in SUBSET S : \E g : IsSum(F, T, g)}
<1>1. ASSUME NEW T \in SUBSET S, \A x \in T : T \ {x} \in G PROVE T \in G
  <2>1. CASE T = {}
    <3>1. IsSum(F, {}, [U \in SUBSET {} |-> 0])
      BY DEF IsSum
    <3> QED
      BY <2>1, <3>1
  <2>2. CASE T # {}
    <3>1. PICK x : x \in T
      BY <2>2
    <3>2. PICK g : IsSum(F, T \ {x}, g)
      BY <1>1, <3>1
    <3> DEFINE h == [U \in SUBSET T |-> g[U \ {x}] + IF x \in U THEN F[x] ELSE 0]
    <3>3. F[x] \in Int /\ \A U \in SUBSET (T \ {x}) : g[U] \in Int
      BY <3>1, <3>2 DEF IsSum
    <3>4. h \in [SUBSET T -> Int]
      <4>1. \A U \in SUBSET T : g[U \ {x}] \in Int
        BY <3>3
      <4> QED
        BY <3>3, <4>1
    <3>5. h[{}] = 0
      <4>1. {} \ {x} = {}
        OBVIOUS
      <4> QED
        BY <3>2, <4>1 DEF IsSum
    <3>6. ASSUME NEW U \in SUBSET T, NEW y \in U PROVE h[U] = F[y] + h[U \ {y}]
      <4> DEFINE V == U \ {x}
      <4>1. U \ {y} \in SUBSET T /\ V \in SUBSET (T \ {x}) /\ V \ {y} \in SUBSET (T \ {x})
        OBVIOUS
      <4>2. g[V] \in Int /\ g[V \ {y}] \in Int
        BY <3>3, <4>1
      <4>3. h[U] = g[V] + IF x \in U THEN F[x] ELSE 0
        OBVIOUS
      <4>4. (U \ {y}) \ {x} = V \ {y}
        OBVIOUS
      <4>5. h[U \ {y}] = g[V \ {y}] + IF x \in U \ {y} THEN F[x] ELSE 0
        BY <4>1, <4>4
      <4> HIDE DEF h
      <4>6. CASE y = x
        <5>1. V \ {y} = V /\ x \in U /\ x \notin U \ {y}
          BY <4>6
        <5> HIDE DEF V
        <5>2. h[U] = g[V] + F[x] /\ h[U \ {y}] = g[V] + 0
          BY <4>3, <4>5, <5>1
        <5> QED
          BY <3>3, <4>2, <4>6, <5>2
      <4>7. CASE y # x
        <5>1. y \in V /\ F[y] \in Int
          BY <4>7
        <5>2. g[V] = F[y] + g[V \ {y}]
          BY <3>2, <4>1, <5>1 DEF IsSum
        <5>3. x \in U <=> x \in U \ {y}
          BY <4>7
        <5> HIDE DEF V
        <5> QED
          BY <3>3, <4>2, <4>3, <4>5, <5>1, <5>2, <5>3
      <4> QED
        BY <4>6, <4>7
    <3>7. IsSum(F, T, h)
      BY <3>4, <3>5, <3>6 DEF IsSum
    <3> QED
      BY <3>7
  <2> QED
    BY <2>1, <2>2
<1>2. \A T \in SUBSET S : T \in G
  <2> HIDE DEF G
  <2> QED
    BY <1>1, SetInduction
<1> QED
  BY <1>2

(* The recursive definition of the library takes out an element of its     *)
(* choice.                                                                 *)
Chosen(T) == CHOOSE x \in T : TRUE
Recursion(F, S, h) ==
  h = [T \in SUBSET S |-> IF T = {} THEN 0 ELSE F[Chosen(T)] + h[T \ {Chosen(T)}]]

LEMMA SumRecursion ==
  ASSUME NEW S, IsFiniteSet(S), NEW F, NEW g, IsSum(F, S, g)
  PROVE  /\ Recursion(F, S, g)
         /\ \A h : Recursion(F, S, h) => h[S] = g[S]
<1>1. \A T \in SUBSET S : T # {} => Chosen(T) \in T /\ T \ {Chosen(T)} \in SUBSET S
  BY DEF Chosen
<1>2. Recursion(F, S, g)
  <2>1. \A T \in SUBSET S : g[T] = IF T = {} THEN 0 ELSE F[Chosen(T)] + g[T \ {Chosen(T)}]
    BY <1>1 DEF IsSum
  <2>2. g = [T \in SUBSET S |-> g[T]]
    BY DEF IsSum
  <2> QED
    BY <2>1, <2>2 DEF Recursion
<1>3. ASSUME NEW h, Recursion(F, S, h) PROVE h[S] = g[S]
  <2> DEFINE G == {T \in SUBSET S : h[T] = g[T]}
  <2>1. ASSUME NEW T \in SUBSET S, \A x \in T : T \ {x} \in G PROVE T \in G
    <3>1. h[T] = IF T = {} THEN 0 ELSE F[Chosen(T)] + h[T \ {Chosen(T)}]
      BY <1>3 DEF Recursion
    <3>2. CASE T = {}
      BY <3>1, <3>2 DEF IsSum
    <3>3. CASE T # {}
      <4>1. h[T \ {Chosen(T)}] = g[T \ {Chosen(T)}]
        BY <1>1, <2>1, <3>3
      <4>2. g[T] = F[Chosen(T)] + g[T \ {Chosen(T)}]
        BY <1>1, <3>3 DEF IsSum
      <4> QED
        BY <3>1, <3>3, <4>1, <4>2
    <3> QED
      BY <3>2, <3>3
  <2>2. \A T \in SUBSET S : T \in G
    <3> HIDE DEF G
    <3> QED
      BY <2>1, SetInduction
  <2> QED
    BY <2>2
<1> QED
  BY <1>2, <1>3

(* What the sum of the library is.                                         *)
LEMMA SumFunctionIs ==
  ASSUME NEW S, IsFiniteSet(S), NEW F, DOMAIN F = S, NEW g, IsSum(F, S, g)
  PROVE  SumFunction(F) = g[S]
<1> DEFINE It == CHOOSE h : Recursion(F, S, h)
<1>1. SumFunction(F) = SumFunctionOnSet(F, S)
  BY DEF SumFunction
<1>2. SumFunctionOnSet(F, S) = It[S]
  BY DEF SumFunctionOnSet, FoldFunctionOnSet, MapThenFoldSet, Recursion, Chosen
<1>3. Recursion(F, S, g) /\ \A h : Recursion(F, S, h) => h[S] = g[S]
  BY SumRecursion
<1>4. Recursion(F, S, It)
  BY <1>3, Zenon
<1> QED
  BY <1>1, <1>2, <1>3, <1>4

(* Sums of equal values are equal.                                         *)
LEMMA SumSame ==
  ASSUME NEW S, IsFiniteSet(S), NEW F, NEW g, IsSum(F, S, g),
         NEW R \in SUBSET S, NEW E, NEW h, IsSum(E, R, h), \A x \in R : E[x] = F[x]
  PROVE  h[R] = g[R]
<1> DEFINE G == {T \in SUBSET R : h[T] = g[T]}
<1>1. ASSUME NEW T \in SUBSET R, \A x \in T : T \ {x} \in G PROVE T \in G
  <2>1. CASE T = {}
    BY <2>1 DEF IsSum
  <2>2. CASE T # {}
    <3>1. PICK x : x \in T
      BY <2>2
    <3>2. h[T \ {x}] = g[T \ {x}]
      BY <1>1, <3>1
    <3>3. h[T] = E[x] + h[T \ {x}] /\ g[T] = F[x] + g[T \ {x}]
      BY <3>1 DEF IsSum
    <3>4. E[x] = F[x]
      BY <3>1
    <3> QED
      BY <3>2, <3>3, <3>4
  <2> QED
    BY <2>1, <2>2
<1>2. IsFiniteSet(R)
  BY FS_Subset
<1>3. \A T \in SUBSET R : T \in G
  <2> HIDE DEF G
  <2> QED
    BY <1>1, <1>2, SetInduction
<1> QED
  BY <1>3

(* The sum of zeros.                                                       *)
LEMMA SumZero ==
  ASSUME NEW S, IsFiniteSet(S), NEW F, NEW g, IsSum(F, S, g),
         NEW R \in SUBSET S, \A x \in R : F[x] = 0
  PROVE  g[R] = 0
<1> DEFINE G == {T \in SUBSET R : g[T] = 0}
<1>1. ASSUME NEW T \in SUBSET R, \A x \in T : T \ {x} \in G PROVE T \in G
  <2>1. CASE T = {}
    BY <2>1 DEF IsSum
  <2>2. CASE T # {}
    <3>1. PICK x : x \in T
      BY <2>2
    <3>2. g[T \ {x}] = 0 /\ F[x] = 0
      BY <1>1, <3>1
    <3>3. g[T] = F[x] + g[T \ {x}]
      BY <3>1 DEF IsSum
    <3> QED
      BY <3>2, <3>3
  <2> QED
    BY <2>1, <2>2
<1>2. IsFiniteSet(R)
  BY FS_Subset
<1>3. \A T \in SUBSET R : T \in G
  <2> HIDE DEF G
  <2> QED
    BY <1>1, <1>2, SetInduction
<1> QED
  BY <1>3

(* The sum over two disjoint sets.                                         *)
LEMMA SumUnion ==
  ASSUME NEW S, IsFiniteSet(S), NEW F, NEW g, IsSum(F, S, g), \A x \in S : F[x] \in Int,
         NEW R \in SUBSET S, NEW Q \in SUBSET S, R \cap Q = {}
  PROVE  g[R \cup Q] = g[R] + g[Q]
<1> DEFINE G == {T \in SUBSET Q : g[R \cup T] = g[R] + g[T]}
<1>0. \A T \in SUBSET S : g[T] \in Int
  BY DEF IsSum
<1>1. ASSUME NEW T \in SUBSET Q, \A x \in T : T \ {x} \in G PROVE T \in G
  <2>1. CASE T = {}
    <3>1. R \cup T = R
      BY <2>1
    <3>2. g[T] = 0
      BY <2>1 DEF IsSum
    <3>3. g[R] \in Int
      BY <1>0
    <3>4. g[R] = g[R] + g[T]
      BY <3>2, <3>3
    <3> QED
      BY <3>1, <3>4
  <2>2. CASE T # {}
    <3>1. PICK x : x \in T
      BY <2>2
    <3>2. g[R \cup (T \ {x})] = g[R] + g[T \ {x}]
      BY <1>1, <3>1
    <3>3. g[T] = F[x] + g[T \ {x}]
      BY <3>1 DEF IsSum
    <3>4. (R \cup T) \ {x} = R \cup (T \ {x}) /\ R \cup T \in SUBSET S /\ x \in R \cup T
      BY <3>1
    <3>5. g[R \cup T] = F[x] + g[R \cup (T \ {x})]
      BY <3>4 DEF IsSum
    <3>6. F[x] \in Int /\ g[R] \in Int /\ g[T \ {x}] \in Int
      BY <1>0, <3>1
    <3> QED
      BY <3>2, <3>3, <3>5, <3>6
  <2> QED
    BY <2>1, <2>2
<1>2. IsFiniteSet(Q)
  BY FS_Subset
<1>3. \A T \in SUBSET Q : T \in G
  <2> HIDE DEF G
  <2> QED
    BY <1>1, <1>2, SetInduction
<1> QED
  BY <1>3

(* The difference of two sums is the sum of the differences.               *)
LEMMA SumDifference ==
  ASSUME NEW S, IsFiniteSet(S), NEW A \in [S -> Int], NEW B \in [S -> Int], NEW D,
         NEW a, NEW b, NEW d, IsSum(A, S, a), IsSum(B, S, b), IsSum(D, S, d),
         \A x \in S : D[x] = B[x] - A[x]
  PROVE  d[S] = b[S] - a[S]
<1> DEFINE G == {T \in SUBSET S : d[T] = b[T] - a[T]}
<1>0. \A T \in SUBSET S : a[T] \in Int /\ b[T] \in Int
  BY DEF IsSum
<1>1. ASSUME NEW T \in SUBSET S, \A x \in T : T \ {x} \in G PROVE T \in G
  <2>1. CASE T = {}
    BY <2>1 DEF IsSum
  <2>2. CASE T # {}
    <3>1. PICK x : x \in T
      BY <2>2
    <3>2. d[T \ {x}] = b[T \ {x}] - a[T \ {x}]
      BY <1>1, <3>1
    <3>3. /\ a[T] = A[x] + a[T \ {x}]
          /\ b[T] = B[x] + b[T \ {x}]
          /\ d[T] = D[x] + d[T \ {x}]
      BY <3>1 DEF IsSum
    <3>4. A[x] \in Int /\ B[x] \in Int /\ D[x] = B[x] - A[x]
      BY <3>1
    <3>5. a[T \ {x}] \in Int /\ b[T \ {x}] \in Int
      BY <1>0
    <3> QED
      BY <3>2, <3>3, <3>4, <3>5
  <2> QED
    BY <2>1, <2>2
<1>2. \A T \in SUBSET S : T \in G
  <2> HIDE DEF G
  <2> QED
    BY <1>1, SetInduction
<1> QED
  BY <1>2

(* Sums over the sides of the elements: by elements.                       *)
LEMMA SumOfRows ==
  ASSUME NEW L, \A s \in Sides : L[s] \in Int,
         NEW D, \A e \in Element : D[e] \in Int, NEW d, NEW l, IsSum(D, Element, d), IsSum(L, Sides, l),
         \A e \in Element : D[e] + 3 * (L[<<e, 0>>] + L[<<e, 1>>] + L[<<e, 2>>]) = 0
  PROVE  d[Element] + 3 * l[Sides] = 0
<1> DEFINE Rows(T) == T \X Bound
           G == {T \in SUBSET Element : d[T] + 3 * l[Rows(T)] = 0}
<1>0. \A T \in SUBSET Sides : l[T] \in Int
  BY DEF IsSum
<1>1. ASSUME NEW T \in SUBSET Element, \A x \in T : T \ {x} \in G PROVE T \in G
  <2>1. CASE T = {}
    <3>1. Rows(T) = {}
      BY <2>1
    <3>2. d[T] = 0 /\ l[Rows(T)] = 0
      BY <2>1, <3>1 DEF IsSum
    <3> HIDE DEF Rows
    <3>3. d[T] + 3 * l[Rows(T)] = 0
      BY <3>2
    <3> QED
      BY <3>3
  <2>2. CASE T # {}
    <3>1. PICK x : x \in T
      BY <2>2
    <3> DEFINE A0 == Rows(T)
               A1 == A0 \ {<<x, 0>>}
               A2 == A1 \ {<<x, 1>>}
               A3 == A2 \ {<<x, 2>>}
    <3>2. /\ <<x, 0>> \in A0 /\ <<x, 1>> \in A1 /\ <<x, 2>> \in A2
          /\ A0 \in SUBSET Sides
      BY <3>1 DEF Bound, Sides
    <3>3. A3 = Rows(T \ {x})
      BY <3>1 DEF Bound
    <3>4. d[T \ {x}] + 3 * l[A3] = 0
      BY <1>1, <3>1, <3>3
    <3> HIDE DEF Rows, A0
    <3>5. A1 \in SUBSET Sides /\ A2 \in SUBSET Sides /\ A3 \in SUBSET Sides
      BY <3>2
    <3>6. /\ l[A0] = L[<<x, 0>>] + l[A1]
          /\ l[A1] = L[<<x, 1>>] + l[A2]
          /\ l[A2] = L[<<x, 2>>] + l[A3]
      <4>1. l[A0] = L[<<x, 0>>] + l[A1]
        BY <3>2, <3>5 DEF IsSum
      <4>2. l[A1] = L[<<x, 1>>] + l[A2]
        BY <3>2, <3>5 DEF IsSum
      <4>3. l[A2] = L[<<x, 2>>] + l[A3]
        BY <3>2, <3>5 DEF IsSum
      <4> QED
        BY <4>1, <4>2, <4>3
    <3>7. d[T] = D[x] + d[T \ {x}]
      BY <3>1 DEF IsSum
    <3>8. D[x] + 3 * (L[<<x, 0>>] + L[<<x, 1>>] + L[<<x, 2>>]) = 0
      BY <3>1
    <3>9. /\ L[<<x, 0>>] \in Int /\ L[<<x, 1>>] \in Int /\ L[<<x, 2>>] \in Int
          /\ l[A3] \in Int /\ D[x] \in Int /\ d[T \ {x}] \in Int
      <4>1. T \ {x} \in SUBSET Element
        OBVIOUS
      <4> QED
        BY <3>1, <3>2, <3>5, <1>0, <4>1 DEF IsSum
    <3> HIDE DEF A1, A2, A3
    <3>10. d[T] + 3 * l[A0] = 0
      BY <3>4, <3>6, <3>7, <3>8, <3>9
    <3> QED
      BY <3>10 DEF A0
  <2> QED
    BY <2>1, <2>2
<1>2. \A T \in SUBSET Element : T \in G
  <2>1. IsFiniteSet(Element)
    BY MeshAssumption
  <2> HIDE DEF G
  <2> QED
    BY <1>1, <2>1, SetInduction
<1>3. Rows(Element) = Sides
  BY DEF Sides
<1> QED
  BY <1>2, <1>3

(* By interfaces: every interface has two sides.                           *)
SidesAt(J) == {s \in Sides : Side[s[1]][s[2]] \in J}

LEMMA TwoSides ==
  ASSUME NEW i \in Interface
  PROVE  \E j \in Bound, k \in Bound :
           /\ SidesAt({i}) = {<<In[i], j>>, <<Ex[i], k>>}
           /\ Side[In[i]][j] = i /\ Side[Ex[i]][k] = i
           /\ In[i] \in Element /\ Ex[i] \in Element /\ In[i] # Ex[i]
<1>1. In[i] \in Element /\ Ex[i] \in Element /\ In[i] # Ex[i]
  BY MeshAssumption
<1>2. \A e \in {In[i], Ex[i]} : \E k \in Bound : {j \in Bound : Side[e][j] = i} = {k}
  BY MeshAssumption
<1>3. PICK j \in Bound : {k \in Bound : Side[In[i]][k] = i} = {j}
  BY <1>2
<1>4. PICK k \in Bound : {m \in Bound : Side[Ex[i]][m] = i} = {k}
  BY <1>2
<1>5. \A e \in Element : \A m \in Bound : Side[e][m] = i => e \in {In[i], Ex[i]}
  BY MeshAssumption
<1>6. Side[In[i]][j] = i /\ Side[Ex[i]][k] = i
  BY <1>3, <1>4
<1>7. ASSUME NEW e \in Element, NEW m \in Bound, Side[e][m] = i
      PROVE  <<e, m>> = <<In[i], j>> \/ <<e, m>> = <<Ex[i], k>>
  <2>1. e = In[i] \/ e = Ex[i]
    BY <1>5, <1>7
  <2>2. e = In[i] => m = j
    BY <1>3, <1>7
  <2>3. e = Ex[i] => m = k
    BY <1>4, <1>7
  <2> QED
    BY <2>1, <2>2, <2>3
<1>8. SidesAt({i}) = {<<In[i], j>>, <<Ex[i], k>>}
  BY <1>1, <1>6, <1>7 DEF SidesAt, Sides
<1> QED
  BY <1>1, <1>6, <1>8

(* If what one side of every interface loses the other gains, all sides of *)
(* interfaces lose nothing.                                                *)
LEMMA InterfacesBalance ==
  ASSUME NEW L, \A s \in Sides : L[s] \in Int, NEW l, IsSum(L, Sides, l),
         \A i \in Interface, j \in Bound, k \in Bound :
           Side[In[i]][j] = i /\ Side[Ex[i]][k] = i => L[<<In[i], j>>] + L[<<Ex[i], k>>] = 0
  PROVE  l[SidesAt(Interface)] = 0
<1> DEFINE G == {J \in SUBSET Interface : l[SidesAt(J)] = 0}
<1>1. ASSUME NEW J \in SUBSET Interface, \A i \in J : J \ {i} \in G PROVE J \in G
  <2>1. CASE J = {}
    <3>1. SidesAt(J) = {}
      BY <2>1 DEF SidesAt
    <3> QED
      BY <3>1 DEF IsSum
  <2>2. CASE J # {}
    <3>1. PICK i : i \in J
      BY <2>2
    <3>2. PICK j \in Bound, k \in Bound :
            /\ SidesAt({i}) = {<<In[i], j>>, <<Ex[i], k>>}
            /\ Side[In[i]][j] = i /\ Side[Ex[i]][k] = i
            /\ In[i] \in Element /\ Ex[i] \in Element /\ In[i] # Ex[i]
      BY <3>1, TwoSides
    <3> DEFINE s == <<In[i], j>>
               t == <<Ex[i], k>>
               A0 == SidesAt(J)
               A1 == A0 \ {s}
               A2 == A1 \ {t}
    <3>3. s \in A0 /\ t \in A1 /\ s \in Sides /\ t \in Sides /\ A0 \in SUBSET Sides
      BY <3>1, <3>2 DEF SidesAt, Sides
    <3>4. A2 = SidesAt(J \ {i})
      <4>1. SidesAt(J \ {i}) = SidesAt(J) \ SidesAt({i})
        BY <3>1 DEF SidesAt
      <4> QED
        BY <3>2, <4>1
    <3>5. l[A2] = 0
      BY <1>1, <3>1, <3>4
    <3>6. L[s] + L[t] = 0 /\ L[s] \in Int /\ L[t] \in Int
      BY <3>1, <3>2, <3>3
    <3> HIDE DEF A0, s, t
    <3>7. l[A0] = L[s] + l[A1]
      BY <3>3 DEF IsSum
    <3>8. l[A1] = L[t] + l[A2]
      BY <3>3 DEF IsSum
    <3>9. l[A0] = 0
      BY <3>5, <3>6, <3>7, <3>8
    <3> QED
      BY <3>9 DEF A0
  <2> QED
    BY <2>1, <2>2
<1>2. IsFiniteSet(Interface)
  BY MeshAssumption
<1>3. \A J \in SUBSET Interface : J \in G
  <2> HIDE DEF G
  <2> QED
    BY <1>1, <1>2, SetInduction
<1> QED
  BY <1>3

-----------------------------------------------------------------------------
(* Conservation.                                                           *)

(* The water of an element in thirds of its mean.                          *)
LEMMA SumOfDepths ==
  ASSUME NEW mean \in Int, NEW flow \in Flows
  PROVE  Sum3(Depths(mean, flow)) = 3 * mean
<1> DEFINE x == flow.h[0]
           y == flow.h[1]
           z == flow.h[2]
<1>1. x \in Int /\ y \in Int /\ z \in Int /\ x + y + z = 0
  BY MeshAssumption, Vertices DEF Sum3
<1>2. /\ Depths(mean, flow)[0] = mean + x
      /\ Depths(mean, flow)[1] = mean + y
      /\ Depths(mean, flow)[2] = mean + z
  BY Vertices DEF Depths
<1> HIDE DEF x, y, z
<1>3. (mean + x) + (mean + y) + (mean + z) = 3 * mean
  BY <1>1
<1> QED
  BY <1>2, <1>3 DEF Sum3

(* A whole mean is not rounded.                                            *)
LEMMA WholeMean ==
  ASSUME NEW h \in [Vertex -> Int], Sum3(h) % 3 = 0
  PROVE  Sum3(h) = 3 * Mean(h) /\ Mean(h) \in Int
<1>1. Sum3(h) \in Int
  BY VertexSum
<1> QED
  BY <1>1 DEF Mean

LEMMA ThreeTimes == \A n \in Int : (3 * n) % 3 = 0
OBVIOUS

(* The kernel adds water to an element that went completely dry and else   *)
(* keeps what there is.                                                    *)
LEMMA WettingDryingSum ==
  ASSUME NEW w \in WaterColumn, NEW bath \in [Vertex -> Int], Sum3(w.h) % 3 = 0
  PROVE  Sum3(WettingDrying(w, bath).h) =
           IF CompletelyDry(w.h) THEN 3 * h_o_threshold ELSE Sum3(w.h)
<1> DEFINE h == w.h
           level == [v \in Vertex |-> AverageDepth(w.h)]
           r == WettingDrying(w, bath)
<1>1. h \in [Vertex -> Int] /\ w.q \in [Vertex -> Int] /\ w.wet \in BOOLEAN
  BY DEF WaterColumn
<1>2. h_o \in Nat /\ h_o_threshold \in Nat
  BY ThresholdAssumption
<1>3. Sum3(h) = 3 * Mean(h) /\ Mean(h) \in Int
  BY <1>1, WholeMean
<1>4. Sum3(level) = IF CompletelyDry(h) THEN 3 * h_o_threshold ELSE Sum3(h)
  <2>1. level[0] = AverageDepth(h) /\ level[1] = AverageDepth(h) /\ level[2] = AverageDepth(h)
    BY Vertices
  <2>2. Sum3(level) = AverageDepth(h) + AverageDepth(h) + AverageDepth(h)
    BY <2>1 DEF Sum3
  <2> QED
    BY <1>2, <1>3, <2>2 DEF AverageDepth
<1>5. DryNodes(h) = 0 => ~CompletelyDry(h)
  <2>1. SUFFICES ASSUME DryNodes(h) = 0 PROVE ~CompletelyDry(h)
    OBVIOUS
  <2>2. ~IsDry(h[0]) /\ ~IsDry(h[1]) /\ ~IsDry(h[2])
    BY <2>1 DEF DryNodes, DryNode
  <2>3. h[0] \in Int /\ h[1] \in Int /\ h[2] \in Int
    BY <1>1, Vertices
  <2>4. h[0] + h[1] + h[2] > 3 * h_o_threshold
    BY <1>2, <2>2, <2>3 DEF IsDry
  <2> QED
    BY <1>2, <1>3, <2>4 DEF CompletelyDry, Sum3
<1>6. PartlyDry(h) => DryNodes(h) # 0 /\ DryNodes(h) # 3 /\ ~CompletelyDry(h)
  BY <1>2 DEF PartlyDry, AverageDepth
<1>7. level \in [Vertex -> Int] /\ AtRest \in [Vertex -> Int]
  BY <1>1, AverageTyped DEF AtRest
<1> HIDE DEF level, h
<1>8. CASE DryNodes(h) = 0 /\ w.wet
  <2>1. r = w
    BY <1>6, <1>8 DEF WettingDrying, h
  <2> QED
    BY <1>5, <1>8, <2>1 DEF h
<1>9. CASE DryNodes(h) = 0 /\ ~w.wet
  <2>1. r = Checked(h, h, w.q, bath)
    BY <1>6, <1>9 DEF WettingDrying, h
  <2>2. r.h = h
    BY <1>1, <2>1, CheckedSound
  <2> QED
    BY <1>5, <1>9, <2>2 DEF h
<1>10. CASE DryNodes(h) = 3
  <2>1. r = [h |-> level, q |-> AtRest, wet |-> FALSE]
    BY <1>6, <1>10 DEF WettingDrying, h, level
  <2> QED
    BY <1>4, <2>1 DEF h
<1>11. CASE PartlyDry(h)
  <2> DEFINE new == Redistribute(h)
  <2>1. r = Checked(new, new, MoveMomentum(new, w.q), bath)
    BY <1>6, <1>11 DEF WettingDrying, h
  <2>2. new \in [Vertex -> Int] /\ Sum3(new) = Sum3(h)
    BY <1>1, <1>11, Redistributed
  <2>3. MoveMomentum(new, w.q) \in [Vertex -> Int]
    BY <1>1, <2>2, MomentumTyped
  <2> HIDE DEF new
  <2>4. r.h = new
    BY <2>1, <2>2, <2>3, CheckedSound
  <2> QED
    BY <1>6, <1>11, <2>2, <2>4 DEF h
<1>12. CASE DryNodes(h) # 0 /\ DryNodes(h) # 3 /\ ~PartlyDry(h)
  <2>1. r = Checked(h, level, AtRest, bath)
    BY <1>12 DEF WettingDrying, h, level
  <2>2. r.h = level
    BY <1>1, <1>7, <2>1, CheckedSound
  <2> QED
    BY <1>4, <2>2 DEF h
<1> QED
  BY <1>1, <1>8, <1>9, <1>10, <1>11, <1>12

(* What is lost and gained between two states is a sum over the elements.  *)
LEMMA TotalDifference ==
  ASSUME NEW v, NEW w, \A e \in Element : v[e] \in WaterColumn /\ w[e] \in WaterColumn
  PROVE  \E d : /\ IsSum([e \in Element |-> Sum3(w[e].h) - Sum3(v[e].h)], Element, d)
                /\ Total(w) - Total(v) = d[Element]
<1> DEFINE A == [e \in Element |-> Sum3(v[e].h)]
           B == [e \in Element |-> Sum3(w[e].h)]
           D == [e \in Element |-> Sum3(w[e].h) - Sum3(v[e].h)]
<1>1. IsFiniteSet(Element)
  BY MeshAssumption
<1>2. \A e \in Element : Sum3(v[e].h) \in Int /\ Sum3(w[e].h) \in Int
  BY VertexSum DEF WaterColumn
<1>3. A \in [Element -> Int] /\ B \in [Element -> Int] /\ D \in [Element -> Int]
  BY <1>2
<1>4. Total(v) = SumFunction(A) /\ Total(w) = SumFunction(B)
  BY DEF Total
<1>5. DOMAIN A = Element /\ DOMAIN B = Element
  OBVIOUS
<1>6. \A e \in Element : D[e] = B[e] - A[e]
  OBVIOUS
<1> HIDE DEF A, B, D
<1>7. PICK a : IsSum(A, Element, a)
  BY <1>1, <1>3, SumExists
<1>8. PICK b : IsSum(B, Element, b)
  BY <1>1, <1>3, SumExists
<1>9. PICK d : IsSum(D, Element, d)
  BY <1>1, <1>3, SumExists
<1>10. Total(v) = a[Element] /\ Total(w) = b[Element]
  BY <1>1, <1>4, <1>5, <1>7, <1>8, SumFunctionIs
<1>11. d[Element] = b[Element] - a[Element]
  BY <1>1, <1>3, <1>6, <1>7, <1>8, <1>9, SumDifference
<1> QED
  BY <1>9, <1>10, <1>11 DEF D

(* The depths of every element have a whole mean.                          *)
WholeMeans == \A e \in Element : Sum3(water[e].h) % 3 = 0

(* What the elements are about to gain is what numerical fluxes take out   *)
(* of their sides, from the wet flags that they have now.                  *)
Losses ==
  at = "update" =>
    /\ F_hat \in [Boundary -> OpenFluxes \cup {0}]
    /\ \E f \in [Interface -> Fluxes] : \A e \in Element :
         /\ rhs[e].gain = -Sum3([k \in Bound |-> SideLoss(e, Side[e][k], f, F_hat)])
         /\ rhs[e].touched = Touched(e)

KeptInv == IInv /\ WholeMeans /\ Losses

LEMMA InitKeptInv == Init => KeptInv
<1> SUFFICES ASSUME Init PROVE KeptInv
  OBVIOUS
<1>1. PICK mean \in [Element -> InitialMeans], flow \in [Element -> Flows] :
        water = [e \in Element |-> InitialWater(Depths(mean[e], flow[e]), flow[e].q)]
  BY DEF Init
<1>2. WholeMeans
  BY <1>1, WholeMeansAssumption DEF WholeMeans
<1>3. Losses
  BY DEF Init, Losses
<1> QED
  BY <1>2, <1>3, InitIInv DEF KeptInv

(* What a step does to the water of an element.                            *)
LEMMA UpdateSums ==
  ASSUME TypeOK, WholeMeans, Update, NEW e \in Element
  PROVE  Sum3(water'[e].h) = IF rhs[e].touched THEN Sum3(water[e].h) + 3 * rhs[e].gain
                             ELSE Sum3(water[e].h)
<1>1. PICK flow \in [Element -> Flows] :
        water' = [d \in Element |->
          IF rhs[d].touched
          THEN [water[d] EXCEPT !.h = Depths(Mean(@) + rhs[d].gain, flow[d]), !.q = flow[d].q]
          ELSE water[d]]
  BY DEF Update
<1>2. /\ water[e] \in WaterColumn /\ water[e].h \in [Vertex -> Int]
      /\ rhs[e].gain \in Int /\ rhs[e].touched \in BOOLEAN /\ flow[e] \in Flows
  BY DEF TypeOK, WaterColumn
<1>3. Sum3(water[e].h) = 3 * Mean(water[e].h) /\ Mean(water[e].h) \in Int
  BY <1>2, WholeMean DEF WholeMeans
<1>4. CASE rhs[e].touched
  <2> DEFINE mean == Mean(water[e].h) + rhs[e].gain
  <2>1. water'[e].h = Depths(mean, flow[e])
    BY <1>1, <1>2, <1>4 DEF WaterColumn
  <2>2. mean \in Int
    BY <1>2, <1>3
  <2>3. Sum3(water'[e].h) = 3 * mean
    BY <1>2, <2>1, <2>2, SumOfDepths
  <2> QED
    BY <1>2, <1>3, <1>4, <2>3
<1>5. CASE ~rhs[e].touched
  BY <1>1, <1>5
<1> QED
  BY <1>2, <1>4, <1>5

LEMMA LimitSums ==
  ASSUME TypeOK, WholeMeans, Limit, NEW e \in Element
  PROVE  Sum3(water'[e].h) = Sum3(water[e].h)
<1>1. PICK changed \in SUBSET {d \in Element : Limited(d)}, flow \in [Element -> Flows] :
        water' = [d \in Element |->
          IF d \in changed
          THEN [water[d] EXCEPT !.h = Depths(Mean(@), flow[d]),
                                !.q = IF Sum3(flow[d].q) = Sum3(@) THEN flow[d].q ELSE @]
          ELSE water[d]]
  BY DEF Limit
<1>2. water[e] \in WaterColumn /\ water[e].h \in [Vertex -> Int] /\ flow[e] \in Flows
  BY DEF TypeOK, WaterColumn
<1>3. Sum3(water[e].h) = 3 * Mean(water[e].h) /\ Mean(water[e].h) \in Int
  BY <1>2, WholeMean DEF WholeMeans
<1>4. CASE e \in changed
  <2>1. water'[e].h = Depths(Mean(water[e].h), flow[e])
    BY <1>1, <1>2, <1>4 DEF WaterColumn
  <2> QED
    BY <1>2, <1>3, <2>1, SumOfDepths
<1>5. CASE e \notin changed
  BY <1>1, <1>5
<1> QED
  BY <1>4, <1>5

LEMMA WetDrySums ==
  ASSUME TypeOK, WholeMeans, WetDry, NEW e \in Element
  PROVE  Sum3(water'[e].h) =
           IF went_completely_dry'[e] THEN 3 * h_o_threshold ELSE Sum3(water[e].h)
<1>1. water[e] \in WaterColumn /\ Bath[e] \in [Vertex -> Int]
  BY MeshAssumption DEF TypeOK
<1>2. Sum3(water[e].h) % 3 = 0
  BY DEF WholeMeans
<1>3. water'[e] = WettingDrying(water[e], Bath[e])
  BY DEF WetDry
<1>4. went_completely_dry'[e] <=> CompletelyDry(water[e].h)
  BY DEF WetDry
<1> QED
  BY <1>1, <1>2, <1>3, <1>4, WettingDryingSum

LEMMA KernelsLosses ==
  ASSUME TypeOK, Kernels
  PROVE  Losses'
<1>1. PICK f \in [Interface -> Fluxes], g \in [Boundary -> OpenFluxes \cup {0}] :
        /\ F_hat' = g
        /\ rhs' = [e \in Element |->
             [gain |-> -Sum3([k \in Bound |-> SideLoss(e, Side[e][k], f, g)]),
              touched |-> Touched(e)]]
  BY DEF Kernels
<1>2. water' = water
  BY DEF Kernels
<1>3. \A e \in Element, k \in Bound :
        SideLoss(e, Side[e][k], f, F_hat)' = SideLoss(e, Side[e][k], f, g)
  <2> SUFFICES ASSUME NEW e \in Element, NEW k \in Bound
               PROVE  SideLoss(e, Side[e][k], f, F_hat)' = SideLoss(e, Side[e][k], f, g)
    OBVIOUS
  <2> DEFINE side == Side[e][k]
  <2>1. CASE side \in Boundary
    BY <1>1, <1>2, <2>1 DEF SideLoss, Wet
  <2>2. CASE side \notin Boundary
    BY <1>2, <2>2 DEF SideLoss, SideFlux, Active, Wet
  <2> QED
    BY <2>1, <2>2
<1>4. \A e \in Element : Touched(e)' = Touched(e)
  BY <1>2 DEF Touched, Active, Wet
<1>5. ASSUME NEW e \in Element
      PROVE  /\ rhs'[e].gain = -Sum3([k \in Bound |-> SideLoss(e, Side[e][k], f, F_hat)'])
             /\ rhs'[e].touched = Touched(e)'
  <2>1. [k \in Bound |-> SideLoss(e, Side[e][k], f, F_hat)'] = [k \in Bound |-> SideLoss(e, Side[e][k], f, g)]
    BY <1>3
  <2>2. /\ rhs'[e].gain = -Sum3([k \in Bound |-> SideLoss(e, Side[e][k], f, g)])
        /\ rhs'[e].touched = Touched(e)
    BY <1>1
  <2> QED
    BY <1>4, <2>1, <2>2
<1> QED
  BY <1>1, <1>5 DEF Losses

LEMMA NextKeptInv == KeptInv /\ [Next]_vars => KeptInv'
<1> SUFFICES ASSUME KeptInv, [Next]_vars PROVE KeptInv'
  OBVIOUS
<1>1. IInv' /\ TypeOK /\ IInv
  BY NextIInv DEF KeptInv, IInv
<1>2. CASE UNCHANGED vars
  <2>1. at' = at /\ water' = water /\ rhs' = rhs /\ F_hat' = F_hat
    BY <1>2 DEF vars
  <2>2. WholeMeans'
    BY <2>1 DEF KeptInv, WholeMeans
  <2>3. Losses'
    <3> SUFFICES ASSUME at = "update"
                 PROVE  /\ F_hat' \in [Boundary -> OpenFluxes \cup {0}]
                        /\ \E f \in [Interface -> Fluxes] : \A e \in Element :
                             /\ rhs'[e].gain = -Sum3([k \in Bound |-> SideLoss(e, Side[e][k], f, F_hat)'])
                             /\ rhs'[e].touched = Touched(e)'
      BY <2>1 DEF Losses
    <3>1. PICK f \in [Interface -> Fluxes] : \A e \in Element :
            /\ rhs[e].gain = -Sum3([k \in Bound |-> SideLoss(e, Side[e][k], f, F_hat)])
            /\ rhs[e].touched = Touched(e)
      BY DEF KeptInv, Losses
    <3>2. \A e \in Element, k \in Bound :
            SideLoss(e, Side[e][k], f, F_hat)' = SideLoss(e, Side[e][k], f, F_hat)
      BY <2>1 DEF SideLoss, SideFlux, Active, Wet
    <3>3. \A e \in Element : Touched(e)' = Touched(e)
      BY <2>1 DEF Touched, Active, Wet
    <3>4. F_hat' \in [Boundary -> OpenFluxes \cup {0}]
      BY <2>1 DEF KeptInv, Losses
    <3>5. \A e \in Element :
            [k \in Bound |-> SideLoss(e, Side[e][k], f, F_hat)'] = [k \in Bound |-> SideLoss(e, Side[e][k], f, F_hat)]
      BY <3>2
    <3> QED
      BY <2>1, <3>1, <3>3, <3>4, <3>5
  <2> QED
    BY <1>1, <2>2, <2>3 DEF KeptInv
<1>3. CASE Kernels
  <2>1. WholeMeans'
    BY <1>3 DEF Kernels, KeptInv, WholeMeans
  <2> QED
    BY <1>1, <1>3, <2>1, KernelsLosses DEF KeptInv
<1>4. CASE Update
  <2>1. ASSUME NEW e \in Element PROVE Sum3(water'[e].h) % 3 = 0
    <3>1. Sum3(water[e].h) % 3 = 0 /\ water[e].h \in [Vertex -> Int] /\ rhs[e].gain \in Int
      BY <1>1 DEF KeptInv, WholeMeans, TypeOK, WaterColumn
    <3>2. Sum3(water[e].h) = 3 * Mean(water[e].h) /\ Mean(water[e].h) \in Int
      BY <3>1, WholeMean
    <3>3. CASE rhs[e].touched
      <4>1. Sum3(water'[e].h) = 3 * (Mean(water[e].h) + rhs[e].gain)
        BY <1>1, <1>4, <3>1, <3>2, <3>3, UpdateSums DEF KeptInv
      <4>2. Mean(water[e].h) + rhs[e].gain \in Int
        BY <3>1, <3>2
      <4> QED
        BY <4>1, <4>2, ThreeTimes
    <3>4. CASE ~rhs[e].touched
      BY <1>1, <1>4, <3>1, <3>4, UpdateSums DEF KeptInv
    <3> QED
      BY <3>3, <3>4
  <2>2. Losses'
    BY <1>4 DEF Update, Losses
  <2> QED
    BY <1>1, <2>1, <2>2 DEF KeptInv, WholeMeans
<1>5. CASE WetDry
  <2>1. ASSUME NEW e \in Element PROVE Sum3(water'[e].h) % 3 = 0
    <3>1. (3 * h_o_threshold) % 3 = 0
      BY ThresholdAssumption, ThreeTimes
    <3> QED
      BY <1>1, <1>5, <3>1, WetDrySums DEF KeptInv, WholeMeans
  <2>2. Losses'
    BY <1>5 DEF WetDry, Losses
  <2> QED
    BY <1>1, <2>1, <2>2 DEF KeptInv, WholeMeans
<1>6. CASE Limit
  <2>1. ASSUME NEW e \in Element PROVE Sum3(water'[e].h) % 3 = 0
    BY <1>1, <1>6, LimitSums DEF KeptInv, WholeMeans
  <2>2. Losses'
    BY <1>6 DEF Limit, Losses
  <2> QED
    BY <1>1, <2>1, <2>2 DEF KeptInv, WholeMeans
<1> QED
  BY <1>2, <1>3, <1>4, <1>5, <1>6 DEF Next

LEMMA FiniteSides == IsFiniteSet(Sides)
<1>1. IsFiniteSet(Bound)
  <2>1. Bound = (({} \cup {0}) \cup {1}) \cup {2}
    BY DEF Bound
  <2>2. IsFiniteSet({} \cup {0})
    BY FS_EmptySet, FS_AddElement
  <2>3. IsFiniteSet(({} \cup {0}) \cup {1})
    BY <2>2, FS_AddElement
  <2> QED
    BY <2>1, <2>3, FS_AddElement
<1>2. IsFiniteSet(Element)
  BY MeshAssumption
<1> QED
  BY <1>1, <1>2, FS_Product DEF Sides

(* What leaves through one side of an interface enters through the other.  *)
LEMMA InterfaceLosses ==
  ASSUME TypeOK, NEW i \in Interface, NEW f \in [Interface -> Fluxes], NEW g
  PROVE  SideLoss(In[i], i, f, g) + SideLoss(Ex[i], i, f, g) = 0
<1>1. i \notin Boundary /\ In[i] # Ex[i] /\ In[i] \in Element /\ Ex[i] \in Element
  BY MeshAssumption
<1>2. f[i] \in Int
  BY MeshAssumption
<1>3. Wet(In[i]) \in BOOLEAN /\ Wet(Ex[i]) \in BOOLEAN
  BY <1>1 DEF TypeOK, WaterColumn, Wet
<1> DEFINE flux == SideFlux(i, f[i])
<1>4. flux.in \in Int /\ flux.ex = -flux.in
  BY <1>2, <1>3, SidesAgree DEF SideFlux
<1>5. /\ SideLoss(In[i], i, f, g) = IF ~Active(i) THEN 0 ELSE flux.in
      /\ SideLoss(Ex[i], i, f, g) = IF ~Active(i) THEN 0 ELSE flux.ex
  BY <1>1 DEF SideLoss
<1> HIDE DEF flux
<1> QED
  BY <1>4, <1>5

(* Without anything added, no flux: the guards of the kernels agree.       *)
LEMMA UntouchedLosses ==
  ASSUME NEW e \in Element, ~Touched(e), NEW k \in Bound, NEW f, NEW g
  PROVE  SideLoss(e, Side[e][k], f, g) = 0
<1>1. ~Wet(e) /\ (Side[e][k] \in Interface => ~Active(Side[e][k]))
  BY DEF Touched
<1>2. Side[e][k] \in Interface \/ Side[e][k] \in Boundary
  BY SideTyped
<1> QED
  BY <1>1, <1>2 DEF SideLoss

(* An update changes the water of the mesh by what passes the boundaries   *)
(* of wet elements.                                                        *)
LEMMA UpdateKeepsWater ==
  ASSUME KeptInv, Update, at = "update"
  PROVE  Total(water') - Total(water) = -3 * SumFunction([s \in OpenSides |-> F_hat[Side[s[1]][s[2]]]])
<1>1. TypeOK /\ WholeMeans
  BY DEF KeptInv, IInv
<1>2. /\ F_hat \in [Boundary -> OpenFluxes \cup {0}]
      /\ \E f \in [Interface -> Fluxes] : \A e \in Element :
           /\ rhs[e].gain = -Sum3([k \in Bound |-> SideLoss(e, Side[e][k], f, F_hat)])
           /\ rhs[e].touched = Touched(e)
  BY DEF KeptInv, Losses
<1>3. PICK f \in [Interface -> Fluxes] : \A e \in Element :
           /\ rhs[e].gain = -Sum3([k \in Bound |-> SideLoss(e, Side[e][k], f, F_hat)])
           /\ rhs[e].touched = Touched(e)
  BY <1>2
<1> DEFINE D == [e \in Element |-> Sum3(water'[e].h) - Sum3(water[e].h)]
           L == [s \in Sides |-> SideLoss(s[1], Side[s[1]][s[2]], f, F_hat)]
           O == [s \in OpenSides |-> F_hat[Side[s[1]][s[2]]]]
<1>4. \A e \in Element : water[e] \in WaterColumn /\ water'[e] \in WaterColumn
  BY <1>1, UpdateMeans DEF TypeOK
<1>5. PICK d : IsSum(D, Element, d) /\ Total(water') - Total(water) = d[Element]
  BY <1>4, TotalDifference
<1>6. \A e \in Element, k \in Bound : L[<<e, k>>] = SideLoss(e, Side[e][k], f, F_hat) /\ L[<<e, k>>] \in Int
  BY <1>1, <1>2, DryLoss DEF Sides
<1>7. L \in [Sides -> Int]
  BY <1>6 DEF Sides
<1>8. \A e \in Element : D[e] \in Int /\ D[e] + 3 * (L[<<e, 0>>] + L[<<e, 1>>] + L[<<e, 2>>]) = 0
  <2> SUFFICES ASSUME NEW e \in Element
               PROVE  D[e] \in Int /\ D[e] + 3 * (L[<<e, 0>>] + L[<<e, 1>>] + L[<<e, 2>>]) = 0
    OBVIOUS
  <2> DEFINE l0 == L[<<e, 0>>]
             l1 == L[<<e, 1>>]
             l2 == L[<<e, 2>>]
  <2>1. l0 \in Int /\ l1 \in Int /\ l2 \in Int
    BY <1>6 DEF Bound
  <2>2. rhs[e].gain = -(l0 + l1 + l2)
    <3>1. [k \in Bound |-> SideLoss(e, Side[e][k], f, F_hat)] = [k \in Bound |-> L[<<e, k>>]]
      BY <1>6
    <3> HIDE DEF L
    <3> QED
      BY <1>3, <3>1 DEF Sum3, Bound
  <2>3. ~rhs[e].touched => l0 = 0 /\ l1 = 0 /\ l2 = 0
    <3>1. rhs[e].touched = Touched(e)
      BY <1>3
    <3>2. ~Touched(e) => \A k \in Bound : SideLoss(e, Side[e][k], f, F_hat) = 0
      BY UntouchedLosses
    <3> HIDE DEF L
    <3>3. ~Touched(e) => \A k \in Bound : L[<<e, k>>] = 0
      BY <1>6, <3>2
    <3> QED
      BY <3>1, <3>3 DEF Bound
  <2>4. Sum3(water'[e].h) = IF rhs[e].touched THEN Sum3(water[e].h) + 3 * rhs[e].gain
                            ELSE Sum3(water[e].h)
    BY <1>1, UpdateSums
  <2>5. Sum3(water[e].h) \in Int /\ D[e] = Sum3(water'[e].h) - Sum3(water[e].h)
    BY <1>4, VertexSum DEF WaterColumn
  <2> HIDE DEF l0, l1, l2, D
  <2>6. D[e] \in Int /\ D[e] + 3 * (l0 + l1 + l2) = 0
    BY <2>1, <2>2, <2>3, <2>4, <2>5
  <2> QED
    BY <2>6 DEF l0, l1, l2
<1>9. \A i \in Interface, j \in Bound, k \in Bound :
           Side[In[i]][j] = i /\ Side[Ex[i]][k] = i => L[<<In[i], j>>] + L[<<Ex[i], k>>] = 0
  <2>1. \A i \in Interface : In[i] \in Element /\ Ex[i] \in Element
    BY MeshAssumption
  <2> SUFFICES ASSUME NEW i \in Interface, NEW j \in Bound, NEW k \in Bound,
                      Side[In[i]][j] = i, Side[Ex[i]][k] = i
               PROVE  L[<<In[i], j>>] + L[<<Ex[i], k>>] = 0
    OBVIOUS
  <2> HIDE DEF L
  <2>2. /\ L[<<In[i], j>>] = SideLoss(In[i], i, f, F_hat)
        /\ L[<<Ex[i], k>>] = SideLoss(Ex[i], i, f, F_hat)
    BY <1>6, <2>1
  <2>3. SideLoss(In[i], i, f, F_hat) + SideLoss(Ex[i], i, f, F_hat) = 0
    BY <1>1, InterfaceLosses
  <2> QED
    BY <2>2, <2>3
<1>10. \A s \in OpenSides : L[s] = F_hat[Side[s[1]][s[2]]] /\ O[s] = L[s]
  BY DEF OpenSides, SideLoss
<1>11. \A s \in SidesAt(Boundary) \ OpenSides : L[s] = 0
  BY DEF OpenSides, SidesAt, SideLoss
<1>12. O \in [OpenSides -> Int] /\ DOMAIN O = OpenSides
  BY <1>7, <1>10 DEF OpenSides
<1> HIDE DEF D, L, O
<1>13. PICK l : IsSum(L, Sides, l)
  BY <1>7, FiniteSides, SumExists
<1>14. d[Element] + 3 * l[Sides] = 0
  BY <1>5, <1>7, <1>8, <1>13, SumOfRows
<1>15. l[SidesAt(Interface)] = 0
  BY <1>7, <1>9, <1>13, InterfacesBalance
<1>16. /\ SidesAt(Interface) \in SUBSET Sides /\ SidesAt(Boundary) \in SUBSET Sides
       /\ OpenSides \in SUBSET SidesAt(Boundary)
       /\ SidesAt(Boundary) \cap SidesAt(Interface) = {}
       /\ SidesAt(Boundary) \cup SidesAt(Interface) = Sides
  <2>1. Interface \cap Boundary = {}
    BY MeshAssumption
  <2>2. \A s \in Sides : Side[s[1]][s[2]] \in Interface \cup Boundary
    BY SideTyped DEF Sides
  <2> QED
    BY <2>1, <2>2 DEF SidesAt, OpenSides
<1>17. l[Sides] = l[SidesAt(Boundary)] + l[SidesAt(Interface)]
  <2>1. \A s \in Sides : L[s] \in Int
    BY <1>7
  <2>2. l[SidesAt(Boundary) \cup SidesAt(Interface)] = l[SidesAt(Boundary)] + l[SidesAt(Interface)]
    BY <1>13, <1>16, <2>1, FiniteSides, SumUnion
  <2> QED
    BY <1>16, <2>2
<1> DEFINE Closed == SidesAt(Boundary) \ OpenSides
<1>18. l[Closed] = 0
  BY <1>11, <1>13, <1>16, FiniteSides, SumZero
<1>19. l[SidesAt(Boundary)] = l[OpenSides] + l[Closed]
  <2>1. OpenSides \cup Closed = SidesAt(Boundary) /\ OpenSides \cap Closed = {}
    BY <1>16
  <2>2. OpenSides \in SUBSET Sides /\ Closed \in SUBSET Sides
    BY <1>16
  <2> HIDE DEF Closed
  <2> QED
    BY <1>7, <1>13, <2>1, <2>2, FiniteSides, SumUnion
<1>20. IsFiniteSet(OpenSides)
  BY <1>16, FiniteSides, FS_Subset
<1>21. PICK o : IsSum(O, OpenSides, o)
  BY <1>12, <1>20, SumExists
<1>22. o[OpenSides] = l[OpenSides]
  BY <1>10, <1>13, <1>16, <1>21, FiniteSides, SumSame
<1>23. SumFunction(O) = o[OpenSides]
  BY <1>12, <1>20, <1>21, SumFunctionIs
<1>24. d[Element] \in Int /\ o[OpenSides] \in Int /\ l[SidesAt(Boundary)] \in Int
  BY <1>5, <1>13, <1>16, <1>21 DEF IsSum
<1>25. l[Sides] = o[OpenSides]
  BY <1>15, <1>17, <1>18, <1>19, <1>22, <1>24
<1>26. d[Element] = -3 * o[OpenSides]
  BY <1>14, <1>24, <1>25
<1> QED
  BY <1>5, <1>23, <1>26 DEF O

(* Wetting and drying adds what elements that went completely dry are given*)
(* to have h_o_threshold everywhere.                                       *)
LEMMA WetDryAddsWater ==
  ASSUME KeptInv, WetDry
  PROVE  Total(water') - Total(water) =
           SumFunction([e \in {d \in Element : went_completely_dry'[d]} |->
                          3 * h_o_threshold - Sum3(water[e].h)])
<1>1. TypeOK /\ WholeMeans /\ TypeOK'
  BY WetDryIInv DEF KeptInv, IInv
<1> DEFINE C == {e \in Element : went_completely_dry'[e]}
           D == [e \in Element |-> Sum3(water'[e].h) - Sum3(water[e].h)]
           E == [e \in C |-> 3 * h_o_threshold - Sum3(water[e].h)]
<1>2. \A e \in Element : water[e] \in WaterColumn /\ water'[e] \in WaterColumn
  BY <1>1 DEF TypeOK
<1>3. PICK d : IsSum(D, Element, d) /\ Total(water') - Total(water) = d[Element]
  BY <1>2, TotalDifference
<1>4. \A e \in Element : Sum3(water[e].h) \in Int
  BY <1>2, VertexSum DEF WaterColumn
<1>5. \A e \in Element : /\ e \in C => D[e] = 3 * h_o_threshold - Sum3(water[e].h)
                         /\ e \notin C => D[e] = 0
  BY <1>1, <1>4, WetDrySums
<1>6. \A e \in Element : D[e] \in Int
  BY <1>4, <1>5, ThresholdAssumption
<1>7. C \in SUBSET Element /\ IsFiniteSet(Element) /\ IsFiniteSet(C)
  BY MeshAssumption, FS_Subset
<1>8. E \in [C -> Int] /\ DOMAIN E = C /\ \A e \in C : E[e] = D[e]
  BY <1>4, <1>5, ThresholdAssumption
<1> HIDE DEF C, D, E
<1>9. PICK c : IsSum(E, C, c)
  BY <1>7, <1>8, SumExists
<1>10. c[C] = d[C]
  BY <1>3, <1>7, <1>8, <1>9, SumSame
<1>11. d[Element \ C] = 0
  BY <1>3, <1>5, <1>7, SumZero
<1>12. d[Element] = d[C] + d[Element \ C]
  <2>1. C \cup (Element \ C) = Element /\ C \cap (Element \ C) = {}
    BY <1>7
  <2>2. Element \ C \in SUBSET Element
    OBVIOUS
  <2> DEFINE Others == Element \ C
  <2>3. Others \in SUBSET Element /\ C \cap Others = {} /\ C \cup Others = Element
    BY <2>1, <2>2
  <2> HIDE DEF Others
  <2>4. d[C \cup Others] = d[C] + d[Others]
    BY <1>3, <1>6, <1>7, <2>3, SumUnion
  <2>5. d[Element] = d[C] + d[Others]
    BY <2>3, <2>4
  <2> QED
    BY <2>5 DEF Others
<1>13. SumFunction(E) = c[C] /\ c[C] \in Int
  <2>1. SumFunction(E) = c[C]
    BY <1>7, <1>8, <1>9, SumFunctionIs
  <2>2. c[C] \in Int
    BY <1>9 DEF IsSum
  <2> QED
    BY <2>1, <2>2
<1>14. Total(water') - Total(water) = SumFunction(E)
  BY <1>3, <1>10, <1>11, <1>12, <1>13
<1> QED
  BY <1>14 DEF E, C

LEMMA LimitKeepsWater ==
  ASSUME KeptInv, Limit
  PROVE  Total(water') - Total(water) = 0
<1>1. TypeOK /\ WholeMeans /\ TypeOK'
  BY LimitIInv DEF KeptInv, IInv
<1> DEFINE D == [e \in Element |-> Sum3(water'[e].h) - Sum3(water[e].h)]
<1>2. \A e \in Element : water[e] \in WaterColumn /\ water'[e] \in WaterColumn
  BY <1>1 DEF TypeOK
<1>3. PICK d : IsSum(D, Element, d) /\ Total(water') - Total(water) = d[Element]
  BY <1>2, TotalDifference
<1>4. \A e \in Element : D[e] = 0
  <2>1. \A e \in Element : Sum3(water'[e].h) = Sum3(water[e].h) /\ Sum3(water[e].h) \in Int
    BY <1>1, <1>2, LimitSums, VertexSum DEF WaterColumn
  <2> QED
    BY <2>1
<1>5. IsFiniteSet(Element)
  BY MeshAssumption
<1> HIDE DEF D
<1> QED
  BY <1>3, <1>4, <1>5, SumZero

(* The water of the mesh is kept to the unit, on every conforming mesh,    *)
(* however it is partitioned, whatever the numerical fluxes are and        *)
(* whichever elements fall dry: in an update it changes by what passes the *)
(* boundaries of wet elements, in wetting and drying by what elements that *)
(* went completely dry are given, and otherwise not at all.                *)
THEOREM WaterIsKept == Spec => WaterKept
<1> DEFINE Change == Total(water') - Total(water)
           Kept == Change =
             CASE at = "update" -> -3 * SumFunction([s \in OpenSides |-> F_hat[Side[s[1]][s[2]]]])
               [] at = "wet_dry" ->
                    SumFunction([e \in {d \in Element : went_completely_dry'[d]} |->
                                   3 * h_o_threshold - Sum3(water[e].h)])
               [] OTHER -> 0
<1>1. KeptInv /\ [Next]_vars => [Kept]_vars
  <2> SUFFICES ASSUME KeptInv, Next PROVE Kept
    OBVIOUS
  <2>1. CASE Kernels
    <3>1. at = "kernels" /\ water' = water
      BY <2>1 DEF Kernels
    <3>2. \A e \in Element : water[e] \in WaterColumn
      BY DEF KeptInv, IInv, TypeOK
    <3>3. PICK d : /\ IsSum([e \in Element |-> Sum3(water[e].h) - Sum3(water[e].h)], Element, d)
                   /\ Total(water) - Total(water) = d[Element]
      BY <3>2, TotalDifference
    <3>4. \A e \in Element : Sum3(water[e].h) - Sum3(water[e].h) = 0
      BY <3>2, VertexSum DEF WaterColumn
    <3>5. d[Element] = 0
      BY <3>3, <3>4, MeshAssumption, SumZero
    <3>6. Change = 0
      BY <3>1, <3>3, <3>5
    <3> HIDE DEF Change
    <3> QED
      BY <3>1, <3>6
  <2>2. CASE Update
    <3>1. at = "update"
      BY <2>2 DEF Update
    <3>2. Change = -3 * SumFunction([s \in OpenSides |-> F_hat[Side[s[1]][s[2]]]])
      BY <2>2, <3>1, UpdateKeepsWater
    <3> HIDE DEF Change
    <3> QED
      BY <3>1, <3>2
  <2>3. CASE WetDry
    <3>1. at = "wet_dry"
      BY <2>3 DEF WetDry
    <3>2. Change = SumFunction([e \in {d \in Element : went_completely_dry'[d]} |->
                                   3 * h_o_threshold - Sum3(water[e].h)])
      BY <2>3, WetDryAddsWater
    <3> HIDE DEF Change
    <3> QED
      BY <3>1, <3>2
  <2>4. CASE Limit
    <3>1. at = "limit"
      BY <2>4 DEF Limit
    <3>2. Change = 0
      BY <2>4, LimitKeepsWater
    <3> HIDE DEF Change
    <3> QED
      BY <3>1, <3>2
  <2> QED
    BY <2>1, <2>2, <2>3, <2>4 DEF Next
<1>2. QED
  BY InitKeptInv, NextKeptInv, <1>1, PTL DEF Spec, WaterKept
=============================================================================
