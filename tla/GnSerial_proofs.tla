---------------------------- MODULE GnSerial_proofs ----------------------------
(***************************************************************************)
(* Proofs about the serial Green-Naghdi program: the halves of a time step *)
(* and the flags of the stepper that splits it stay in step, for every     *)
(* length and number of time steps.                                        *)
(***************************************************************************)
EXTENDS GnSerial, TLAPS

(* The unit of the times of the stages of first; second has twice of it.   *)
DtUnit == Dt \div (2 * Den)

LEMMA DtUnits == DtUnit \in Nat /\ Dt = 24 * DtUnit /\ Dt \div 2 = 12 * DtUnit
<1>1. Dt \in Nat /\ Dt % 24 = 0 /\ DtUnit = Dt \div 24
  BY StepAssumption DEF DtUnit, Den
<1>2. Dt = 24 * (Dt \div 24) /\ Dt \div 24 \in Nat
  BY <1>1
<1>3. \A k \in Nat : (24 * k) \div 2 = 12 * k
  OBVIOUS
<1> QED
  BY <1>1, <1>2, <1>3

-----------------------------------------------------------------------------
(* The state slots of an element.                                          *)

(* The times the states of the stages are at, in units of dt / Den from the*)
(* start of the step, and of the state at its end.                         *)
StageTimes(m) ==
  CASE m = <<1, 1>> -> <<0, 12>>
    [] m = <<2, 2>> -> <<0, 12, 12>>
    [] m = <<3, 3>> -> <<0, 12, 6, 12>>
    [] m = <<4, 3>> -> <<0, 6, 12, 6, 12>>

(* The weight of the state of stage i in the state after stage n, and its  *)
(* time.                                                                   *)
Weight(m, n, i) == IF i > n THEN 0 ELSE Ark(m)[n + 1][i + 1]
TimeOf(m, n, i) == IF i > n THEN 0 ELSE StageTimes(m)[i + 1]

(* The weights of a row of ark add up to one, and with the rate they carry *)
(* the state to the time of the next stage.                                *)
LEMMA RowSums ==
  ASSUME NEW m \in Schemes, NEW n \in 0 .. m[1] - 1
  PROVE  /\ n \in 0 .. 3 /\ \A i \in 0 .. 3 : Weight(m, n, i) \in Nat /\ TimeOf(m, n, i) \in Nat
         /\ BrkDiagonal(m)[n + 1] \in Nat /\ StageTimes(m)[n + 2] \in Nat
         /\ Weight(m, n, 0) + Weight(m, n, 1) + Weight(m, n, 2) + Weight(m, n, 3) = 12
         /\ Weight(m, n, 0) * TimeOf(m, n, 0) + Weight(m, n, 1) * TimeOf(m, n, 1)
            + Weight(m, n, 2) * TimeOf(m, n, 2) + Weight(m, n, 3) * TimeOf(m, n, 3)
            + 12 * BrkDiagonal(m)[n + 1] = 12 * StageTimes(m)[n + 2]
<1>1. CASE m = <<1, 1>>
  <2>1. n \in {0}
    BY <1>1
  <2> QED
    BY <1>1, <2>1 DEF Weight, TimeOf, Ark, BrkDiagonal, StageTimes
<1>2. CASE m = <<2, 2>>
  <2>1. n \in {0, 1}
    BY <1>2
  <2>2. CASE n = 0
    BY <1>2, <2>2 DEF Weight, TimeOf, Ark, BrkDiagonal, StageTimes
  <2>3. CASE n = 1
    BY <1>2, <2>3 DEF Weight, TimeOf, Ark, BrkDiagonal, StageTimes
  <2> QED
    BY <2>1, <2>2, <2>3
<1>3. CASE m = <<3, 3>>
  <2>1. n \in {0, 1, 2}
    BY <1>3
  <2>2. CASE n = 0
    BY <1>3, <2>2 DEF Weight, TimeOf, Ark, BrkDiagonal, StageTimes
  <2>3. CASE n = 1
    BY <1>3, <2>3 DEF Weight, TimeOf, Ark, BrkDiagonal, StageTimes
  <2>4. CASE n = 2
    BY <1>3, <2>4 DEF Weight, TimeOf, Ark, BrkDiagonal, StageTimes
  <2> QED
    BY <2>1, <2>2, <2>3, <2>4
<1>4. CASE m = <<4, 3>>
  <2>1. n \in {0, 1, 2, 3}
    BY <1>4
  <2>2. CASE n = 0
    BY <1>4, <2>2 DEF Weight, TimeOf, Ark, BrkDiagonal, StageTimes
  <2>3. CASE n = 1
    BY <1>4, <2>3 DEF Weight, TimeOf, Ark, BrkDiagonal, StageTimes
  <2>4. CASE n = 2
    BY <1>4, <2>4 DEF Weight, TimeOf, Ark, BrkDiagonal, StageTimes
  <2>5. CASE n = 3
    BY <1>4, <2>5 DEF Weight, TimeOf, Ark, BrkDiagonal, StageTimes
  <2> QED
    BY <2>1, <2>2, <2>3, <2>4, <2>5
<1> QED
  BY <1>1, <1>2, <1>3, <1>4 DEF Schemes

(* Weighted sums of times t + k * b.                                       *)
LEMMA WeightedSum ==
  ASSUME NEW t \in Int, NEW k \in Int, NEW a0 \in Int, NEW a1 \in Int, NEW a2 \in Int, NEW a3 \in Int,
         NEW b0 \in Int, NEW b1 \in Int, NEW b2 \in Int, NEW b3 \in Int
  PROVE  a0 * (t + k * b0) + a1 * (t + k * b1) + a2 * (t + k * b2) + a3 * (t + k * b3)
           = t * (a0 + a1 + a2 + a3) + k * (a0 * b0 + a1 * b1 + a2 * b2 + a3 * b3)
<1>1. ASSUME NEW a \in Int, NEW b \in Int
      PROVE  a * (t + k * b) = t * a + k * (a * b) /\ a * b \in Int /\ t * a \in Int /\ k * (a * b) \in Int
  OBVIOUS
<1>2. \A u, v, w, x \in Int : t * (u + v + w + x) = t * u + t * v + t * w + t * x
  OBVIOUS
<1>3. \A u, v, w, x \in Int : k * (u + v + w + x) = k * u + k * v + k * w + k * x
  OBVIOUS
<1>4. t * (a0 + a1 + a2 + a3) = t * a0 + t * a1 + t * a2 + t * a3
  BY <1>2
<1>5. k * (a0 * b0 + a1 * b1 + a2 * b2 + a3 * b3)
        = k * (a0 * b0) + k * (a1 * b1) + k * (a2 * b2) + k * (a3 * b3)
  BY <1>1, <1>3
<1> DEFINE c(a, b) == k * (a * b)
           e(a, b) == a * (t + k * b)
           d(a) == t * a
<1>6. \A a, b \in Int : e(a, b) = d(a) + c(a, b) /\ d(a) \in Int /\ c(a, b) \in Int
  BY <1>1
<1>7. /\ t * (a0 + a1 + a2 + a3) = d(a0) + d(a1) + d(a2) + d(a3)
      /\ k * (a0 * b0 + a1 * b1 + a2 * b2 + a3 * b3) = c(a0, b0) + c(a1, b1) + c(a2, b2) + c(a3, b3)
  BY <1>4, <1>5
<1> HIDE DEF c, d, e
<1>8. e(a0, b0) + e(a1, b1) + e(a2, b2) + e(a3, b3)
        = (d(a0) + d(a1) + d(a2) + d(a3)) + (c(a0, b0) + c(a1, b1) + c(a2, b2) + c(a3, b3))
  <2>1. e(a0, b0) = d(a0) + c(a0, b0) /\ d(a0) \in Int /\ c(a0, b0) \in Int
    BY <1>6
  <2>2. e(a1, b1) = d(a1) + c(a1, b1) /\ d(a1) \in Int /\ c(a1, b1) \in Int
    BY <1>6
  <2>3. e(a2, b2) = d(a2) + c(a2, b2) /\ d(a2) \in Int /\ c(a2, b2) \in Int
    BY <1>6
  <2>4. e(a3, b3) = d(a3) + c(a3, b3) /\ d(a3) \in Int /\ c(a3, b3) \in Int
    BY <1>6
  <2> QED
    BY <2>1, <2>2, <2>3, <2>4
<1> QED
  BY <1>7, <1>8 DEF e

(* The slots of stages 0 to n are at the times of the stages of a step that*)
(* began at t by the clock of part p, and at r by that of part o.          *)
Reached(y, m, n, p, o, t, r, k) ==
  \A i \in 0 .. n : y[i].clock[p] = t + k * StageTimes(m)[i + 1] /\ y[i].clock[o] = r

(* So stepper s finds the slots y of an element, with steps of 12 * k.     *)
AtStage(s, y, p, o, t, r, k) ==
  /\ k \in Nat /\ t \in Int /\ r \in Int
  /\ s.scheme \in Schemes /\ s.dt = 12 * k /\ s.stage \in 0 .. s.scheme[1] - 1
  /\ p # o /\ p \in DOMAIN y[0].clock /\ o \in DOMAIN y[0].clock
  /\ Reached(y, s.scheme, s.stage, p, o, t, r, k)

(* UpdateState of y' = 1 is exact: the part that is updated comes to the   *)
(* time of the next stage and the other one stays.                         *)
LEMMA NextClocks ==
  ASSUME NEW s, NEW y, NEW p, NEW o, NEW t, NEW r, NEW k, AtStage(s, y, p, o, t, r, k)
  PROVE  /\ NextState(s, y, p).clock[p] = t + k * StageTimes(s.scheme)[s.stage + 2]
         /\ NextState(s, y, p).clock[o] = r
<1> DEFINE n == s.stage
           m == s.scheme
           a(i) == Weight(m, n, i)
           b(i) == TimeOf(m, n, i)
           g == BrkDiagonal(m)[n + 1]
           e == StageTimes(m)[n + 2]
           Term(i, x) ==
             IF i > n THEN 0
             ELSE Ark(m)[n + 1][i + 1] * y[i].clock[x]
                  + IF x = p THEN s.dt * Brk(m, n, i) ELSE 0
           Rate(i) == IF i = n THEN (12 * k) * g ELSE 0
<1>0. /\ k \in Nat /\ t \in Int /\ r \in Int /\ m \in Schemes /\ s.dt = 12 * k /\ n \in 0 .. m[1] - 1
      /\ p # o /\ p \in DOMAIN y[0].clock /\ o \in DOMAIN y[0].clock /\ Reached(y, m, n, p, o, t, r, k)
  BY DEF AtStage
<1>1. /\ n \in 0 .. 3 /\ \A i \in 0 .. 3 : a(i) \in Nat /\ b(i) \in Nat
      /\ g \in Nat /\ e \in Nat /\ a(0) + a(1) + a(2) + a(3) = 12
      /\ a(0) * b(0) + a(1) * b(1) + a(2) * b(2) + a(3) * b(3) + 12 * g = 12 * e
  BY <1>0, RowSums
<1>2. /\ NextState(s, y, p).clock[p] = (Term(0, p) + Term(1, p) + Term(2, p) + Term(3, p)) \div 12
      /\ NextState(s, y, p).clock[o] = (Term(0, o) + Term(1, o) + Term(2, o) + Term(3, o)) \div 12
  BY <1>0 DEF NextState, Den
<1>3. \A i \in 0 .. 3 : Rate(i) \in Int
  BY <1>0, <1>1
<1>4. ASSUME NEW i \in 0 .. 3
      PROVE  Term(i, p) = a(i) * (t + k * b(i)) + Rate(i) /\ Term(i, o) = a(i) * r
  <2>1. CASE i > n
    <3>1. a(i) = 0 /\ b(i) = 0 /\ Term(i, p) = 0 /\ Term(i, o) = 0 /\ Rate(i) = 0
      BY <1>1, <2>1 DEF Weight, TimeOf
    <3>2. 0 * (t + k * 0) + 0 = 0 /\ 0 * r = 0
      BY <1>0
    <3> HIDE DEF a, b, Term, Rate
    <3> QED
      BY <3>1, <3>2
  <2>2. CASE ~(i > n)
    <3>1. i \in 0 .. n /\ a(i) = Ark(m)[n + 1][i + 1] /\ b(i) = StageTimes(m)[i + 1]
      BY <1>1, <2>2 DEF Weight, TimeOf
    <3>2. y[i].clock[p] = t + k * b(i) /\ y[i].clock[o] = r
      BY <1>0, <3>1 DEF Reached
    <3>3. s.dt * Brk(m, n, i) = Rate(i)
      <4>1. CASE i = n
        BY <1>0, <4>1 DEF Brk
      <4>2. CASE i # n
        <5>1. Brk(m, n, i) = 0 /\ Rate(i) = 0
          BY <4>2 DEF Brk
        <5> QED
          BY <1>0, <5>1
      <4> QED
        BY <4>1, <4>2
    <3>4. Term(i, p) = a(i) * y[i].clock[p] + s.dt * Brk(m, n, i)
      BY <2>2, <3>1
    <3>5. Term(i, o) = a(i) * y[i].clock[o] + 0
      BY <1>0, <2>2, <3>1
    <3>6. a(i) * r \in Int /\ a(i) * r + 0 = a(i) * r
      <4>1. a(i) \in Int
        BY <1>1
      <4> HIDE DEF a
      <4> QED
        BY <1>0, <4>1
    <3> HIDE DEF a, b, Term, Rate
    <3> QED
      BY <3>2, <3>3, <3>4, <3>5, <3>6
  <2> QED
    BY <2>1, <2>2
<1>5. Rate(0) + Rate(1) + Rate(2) + Rate(3) = k * (12 * g)
  <2> DEFINE w == (12 * k) * g
  <2>1. w \in Int /\ w = k * (12 * g)
    BY <1>0, <1>1
  <2> HIDE DEF w
  <2>2. \A i \in 0 .. 3 : Rate(i) = IF i = n THEN w ELSE 0
    BY DEF w
  <2> HIDE DEF Rate, n
  <2> QED
    BY <1>1, <2>1, <2>2
<1> HIDE DEF n, m, a, b, g, e, Term, Rate
<1>6. (Term(0, p) + Term(1, p) + Term(2, p) + Term(3, p)) \div 12 = t + k * e
  <2> DEFINE A == a(0) + a(1) + a(2) + a(3)
             B == a(0) * b(0) + a(1) * b(1) + a(2) * b(2) + a(3) * b(3)
             c(i) == a(i) * (t + k * b(i))
  <2>1. \A i \in 0 .. 3 : a(i) \in Int /\ b(i) \in Int
    BY <1>1
  <2>2. a(0) \in Int /\ a(1) \in Int /\ a(2) \in Int /\ a(3) \in Int
        /\ b(0) \in Int /\ b(1) \in Int /\ b(2) \in Int /\ b(3) \in Int
    BY <2>1
  <2>3. c(0) + c(1) + c(2) + c(3) = t * A + k * B
    BY <1>0, <2>2, WeightedSum
  <2>4. \A i \in 0 .. 3 : c(i) \in Int
    BY <1>0, <2>1
  <2>5. \A i \in 0 .. 3 : Term(i, p) = c(i) + Rate(i)
    BY <1>4
  <2>6. A = 12 /\ B + 12 * g = 12 * e /\ B \in Int
    BY <1>1, <2>2
  <2>7. Rate(0) \in Int /\ Rate(1) \in Int /\ Rate(2) \in Int /\ Rate(3) \in Int
    BY <1>3
  <2>8. /\ Term(0, p) = c(0) + Rate(0) /\ Term(1, p) = c(1) + Rate(1)
        /\ Term(2, p) = c(2) + Rate(2) /\ Term(3, p) = c(3) + Rate(3)
        /\ c(0) \in Int /\ c(1) \in Int /\ c(2) \in Int /\ c(3) \in Int
    BY <2>4, <2>5
  <2> HIDE DEF A, B, c
  <2>9. Term(0, p) + Term(1, p) + Term(2, p) + Term(3, p)
          = (c(0) + c(1) + c(2) + c(3)) + (Rate(0) + Rate(1) + Rate(2) + Rate(3))
    BY <2>7, <2>8
  <2>10. Term(0, p) + Term(1, p) + Term(2, p) + Term(3, p) = (t * 12 + k * B) + k * (12 * g)
    BY <1>5, <2>3, <2>6, <2>9
  <2>11. k * B + k * (12 * g) = k * (12 * e)
    <3>1. \A x, z \in Int : k * x + k * z = k * (x + z)
      BY <1>0
    <3>2. 12 * g \in Int
      BY <1>1
    <3>3. k * B + k * (12 * g) = k * (B + 12 * g)
      BY <2>6, <3>1, <3>2
    <3> QED
      BY <2>6, <3>3
  <2>12. k * (12 * e) = 12 * (k * e) /\ k * e \in Int
    BY <1>0, <1>1
  <2>13. (t * 12 + k * B) + k * (12 * g) = 12 * (t + k * e) /\ t + k * e \in Int
    <3> DEFINE u == k * B
               v == k * (12 * g)
               w == k * e
    <3>1. u \in Int /\ v \in Int /\ w \in Int /\ u + v = 12 * w
      BY <1>0, <1>1, <2>6, <2>11, <2>12
    <3> HIDE DEF u, v, w
    <3>2. (t * 12 + u) + v = 12 * (t + w) /\ t + w \in Int
      BY <1>0, <3>1
    <3> QED
      BY <3>2 DEF u, v, w
  <2>14. \A x \in Int : (12 * x) \div 12 = x
    OBVIOUS
  <2> QED
    BY <2>10, <2>13, <2>14
<1>7. (Term(0, o) + Term(1, o) + Term(2, o) + Term(3, o)) \div 12 = r
  <2>1. a(0) \in Int /\ a(1) \in Int /\ a(2) \in Int /\ a(3) \in Int
    BY <1>1
  <2>2. \A u, v, w, x \in Int : u * r + v * r + w * r + x * r = (u + v + w + x) * r
    BY <1>0
  <2>3. a(0) * r + a(1) * r + a(2) * r + a(3) * r = (a(0) + a(1) + a(2) + a(3)) * r
    BY <1>0, <2>1, SMT
  <2>4. Term(0, o) + Term(1, o) + Term(2, o) + Term(3, o) = 12 * r
    BY <1>0, <1>1, <1>4, <2>3
  <2> QED
    BY <1>0, <2>4
<1> QED
  BY <1>2, <1>6, <1>7 DEF n, m, e, Term

Parts == {"swe", "dispersive"}
Slot == [updates : Nat, clock : [Parts -> Int]]

(* A step begins and ends with the state at its bounds.                    *)
LEMMA SchemeStages ==
  ASSUME NEW m \in Schemes
  PROVE  m[1] \in 1 .. 4 /\ StageTimes(m)[1] = 0 /\ StageTimes(m)[m[1] + 1] = 12
BY DEF Schemes, StageTimes

(* UpdateState moves the newest state to the slot of the next stage.       *)
LEMMA SlotsAdvance ==
  ASSUME NEW k \in Nat, NEW s, NEW p \in Parts, NEW o \in Parts, p # o,
         NEW t \in Int, NEW r \in Int,
         s.scheme \in Schemes, s.nstages = s.scheme[1], s.dt = 12 * k, s.stage \in 0 .. s.nstages - 1,
         NEW y \in [0 .. s.nstages -> Slot], Reached(y, s.scheme, s.stage, p, o, t, r, k)
  PROVE  LET z == UpdateState(s, y, p)
         IN  /\ z \in [0 .. s.nstages -> Slot]
             /\ IF s.stage + 1 = s.nstages
                THEN /\ z[0].updates = y[s.stage].updates + 1
                     /\ z[0].clock[p] = t + 12 * k /\ z[0].clock[o] = r
                ELSE /\ z[s.stage + 1].updates = y[s.stage].updates + 1
                     /\ Reached(z, s.scheme, s.stage + 1, p, o, t, r, k)
<1> DEFINE n == s.nstages
           g == s.stage
           m == s.scheme
           new == NextState(s, y, p)
           z == UpdateState(s, y, p)
<1>1. /\ m \in Schemes /\ n \in 1 .. 4 /\ g \in 0 .. n - 1 /\ n \in Nat /\ g \in Nat
      /\ StageTimes(m)[n + 1] = 12 /\ g \in 0 .. n
  BY SchemeStages
<1>2. DOMAIN y[0].clock = Parts /\ y[g] \in Slot /\ y[0] \in Slot
  <2>1. 0 \in 0 .. n /\ y[0] \in Slot /\ y[g] \in Slot
    BY <1>1
  <2> QED
    BY <2>1 DEF Slot
<1>3. new.clock[p] = t + k * StageTimes(m)[g + 2] /\ new.clock[o] = r
  <2>1. AtStage(s, y, p, o, t, r, k)
    BY <1>1, <1>2 DEF AtStage
  <2> HIDE DEF new, g, m
  <2>2. /\ NextState(s, y, p).clock[p] = t + k * StageTimes(s.scheme)[s.stage + 2]
        /\ NextState(s, y, p).clock[o] = r
    BY <2>1, NextClocks
  <2> QED
    BY <2>2 DEF new, g, m
<1>4. new = [updates |-> new.updates, clock |-> new.clock] /\ DOMAIN new.clock = Parts
      /\ new.clock = [x \in Parts |-> new.clock[x]] /\ new.updates = y[g].updates + 1
  BY <1>2 DEF NextState
<1>5. StageTimes(m)[g + 2] \in Nat
  BY <1>1, RowSums
<1>6. z = IF g + 1 = n THEN [y EXCEPT ![n] = y[0], ![0] = new] ELSE [y EXCEPT ![g + 1] = new]
  BY DEF UpdateState
<1> HIDE DEF new, z, n, g, m
<1>7. new \in Slot
  <2>1. \A x \in Parts : x = p \/ x = o
    BY DEF Parts
  <2>2. \A x \in Parts : new.clock[x] \in Int
    BY <1>3, <1>5, <2>1
  <2>3. new.clock \in [Parts -> Int]
    BY <1>4, <2>2
  <2>4. new.updates \in Nat
    BY <1>2, <1>4 DEF Slot
  <2> QED
    BY <1>4, <2>3, <2>4 DEF Slot
<1>8. y \in [0 .. n -> Slot] /\ Reached(y, m, g, p, o, t, r, k)
  BY DEF n, m, g
<1>9. z \in [0 .. n -> Slot]
  <2>1. CASE g + 1 = n
    BY <1>1, <1>2, <1>6, <1>7, <1>8, <2>1
  <2>2. CASE g + 1 # n
    BY <1>1, <1>2, <1>6, <1>7, <1>8, <2>2
  <2> QED
    BY <2>1, <2>2
<1>10. CASE g + 1 = n
  <2>1. z[0] = new
    <3>1. 0 \in 0 .. n /\ n # 0
      BY <1>1
    <3> QED
      BY <1>6, <1>8, <1>10, <3>1
  <2>2. g + 2 = n + 1
    BY <1>1, <1>10
  <2>3. new.clock[p] = t + k * 12
    BY <1>1, <1>3, <2>2
  <2> QED
    BY <1>3, <1>4, <1>9, <1>10, <2>1, <2>3 DEF n, g, z
<1>11. CASE g + 1 # n
  <2>1. g + 1 \in 0 .. n /\ (g + 1) + 1 = g + 2 /\ \A i \in 0 .. g : i \in 0 .. n /\ i # g + 1
    BY <1>1, <1>11
  <2>2. z[g + 1] = new /\ \A i \in 0 .. g : z[i] = y[i]
    BY <1>6, <1>8, <1>11, <2>1
  <2>3. \A i \in 0 .. g + 1 : i \in 0 .. g \/ i = g + 1
    BY <1>1
  <2>4. Reached(z, m, g + 1, p, o, t, r, k)
    BY <1>3, <1>8, <2>1, <2>2, <2>3 DEF Reached
  <2> QED
    BY <1>4, <1>9, <1>11, <2>2, <2>4 DEF n, g, m, z
<1> QED
  BY <1>10, <1>11

-----------------------------------------------------------------------------
(* The inductive invariant.                                                *)

Stepper == [scheme : Schemes, nstages : Nat, dt : Nat, step : Nat, stage : Nat, timestamp : Nat, t : Nat]

(* The steppers of the parts: first takes half steps, second whole ones.   *)
SteppersOK ==
  /\ first \in Stepper /\ second \in Stepper /\ first.scheme = second.scheme
  /\ first.nstages = first.scheme[1] /\ second.nstages = second.scheme[1]
  /\ first.stage < first.nstages /\ second.stage < second.nstages
  /\ first.dt = 12 * DtUnit /\ second.dt = 24 * DtUnit

(* The flags name the current stepper, the other one is between two steps, *)
(* and the flags tell how far the parts are apart.                         *)
FlagsOK ==
  /\ done_first \in BOOLEAN /\ done_second \in BOOLEAN /\ (done_second => done_first)
  /\ current = IF done_first /\ ~done_second THEN "second" ELSE "first"
  /\ IF current = "first" THEN second.stage = 0 ELSE first.stage = 0
  /\ ~done_first => first.t = second.t /\ first.step = 2 * second.step
  /\ done_first /\ ~done_second =>
       first.t = second.t + 12 * DtUnit /\ first.step = 2 * second.step + 1
  /\ done_second =>
       first.t + 12 * DtUnit = second.t /\ first.step + 1 = 2 * second.step

(* The slots up to the stage of the current stepper hold the states of its *)
(* step, and the part of the other stepper waits at its time.              *)
SlotsOK ==
  /\ executed \in Nat /\ q \in [0 .. first.nstages -> Slot]
  /\ q[Current.stage].updates = executed
  /\ IF current = "first"
     THEN Reached(q, first.scheme, first.stage, "swe", "dispersive", first.t, second.t, DtUnit)
     ELSE Reached(q, second.scheme, second.stage, "dispersive", "swe", second.t, first.t, 2 * DtUnit)

(* The loops of step_serial are where the flags say.                       *)
LoopsOK ==
  /\ at \in {"launch", "parse", "stage", "output", "done", "aborted"}
  /\ half \in 1 .. 3
  /\ at \in {"parse", "stage"} =>
       /\ (done_first <=> half # 1) /\ (done_second <=> half = 3)
       /\ loop = Current.stage
  /\ at \in {"launch", "output", "done"} =>
       /\ ~done_first /\ ~done_second /\ loop = 0 /\ first.stage = 0
       /\ at = "launch" => half = 1

IInv == SteppersOK /\ FlagsOK /\ SlotsOK /\ LoopsOK

(* It holds before Launch.                                                 *)
LEMMA InitIInv == Init => IInv
<1> SUFFICES ASSUME Init PROVE IInv
  OBVIOUS
<1>1. PICK m \in Schemes : first = NewStepper(m, Dt \div 2) /\ second = NewStepper(m, Dt)
  BY DEF Init
<1>2. m[1] \in 1 .. 4 /\ StageTimes(m)[1] = 0
  BY SchemeStages
<1>3. SteppersOK
  BY <1>1, <1>2, DtUnits DEF SteppersOK, NewStepper, Stepper
<1>4. FlagsOK
  <2>1. /\ first.t = 0 /\ second.t = 0 /\ first.step = 0 /\ second.step = 0 /\ second.stage = 0
        /\ done_first = FALSE /\ done_second = FALSE /\ current = "first"
    BY <1>1 DEF Init, NewStepper
  <2>2. first.step = 2 * second.step
    BY <2>1
  <2> QED
    BY <2>1, <2>2, Zenon DEF FlagsOK
<1>5. SlotsOK
  <2>1. q = [i \in 0 .. first.nstages |-> [updates |-> 0, clock |-> [x \in Parts |-> 0]]]
    BY DEF Init, NewSlots, Parts
  <2>2. first.stage = 0 /\ first.t = 0 /\ second.t = 0 /\ first.scheme = m /\ first.nstages = m[1]
    BY <1>1 DEF NewStepper
  <2>3. current = "first" /\ executed = 0 /\ Current = first
    BY DEF Init, Current
  <2>4. q \in [0 .. first.nstages -> Slot]
    BY <2>1 DEF Slot
  <2>5. q[0].updates = 0 /\ q[0].clock["swe"] = 0 /\ q[0].clock["dispersive"] = 0
    <3>1. 0 \in 0 .. first.nstages
      BY <1>2, <2>2
    <3> QED
      BY <2>1, <3>1 DEF Parts
  <2>6. Reached(q, first.scheme, first.stage, "swe", "dispersive", first.t, second.t, DtUnit)
    <3>1. \A i \in 0 .. 0 : i = 0 /\ i + 1 = 1
      OBVIOUS
    <3>2. 0 + DtUnit * 0 = 0
      BY DtUnits
    <3> QED
      BY <1>2, <2>2, <2>5, <3>1, <3>2 DEF Reached
  <2> QED
    BY <2>2, <2>3, <2>4, <2>5, <2>6 DEF SlotsOK
<1>6. LoopsOK
  BY <1>1 DEF Init, LoopsOK, NewStepper
<1> QED
  BY <1>3, <1>4, <1>5, <1>6 DEF IInv

(* operator++ of a stepper: the next stage, or the next step's first one.  *)
LEMMA Ticks ==
  ASSUME NEW s \in Stepper, s.nstages = s.scheme[1], s.stage < s.nstages
  PROVE  LET u == Increment(s)
         IN  /\ u \in Stepper /\ u.scheme = s.scheme /\ u.nstages = s.nstages /\ u.dt = s.dt
             /\ u.stage < u.nstages
             /\ IF s.stage + 1 = s.nstages
                THEN u.stage = 0 /\ u.step = s.step + 1 /\ u.t = s.t + s.dt
                ELSE u.stage = s.stage + 1 /\ u.stage # 0 /\ u.step = s.step /\ u.t = s.t
<1> DEFINE n == s.nstages
           g == s.stage
           e == (g + 1) % n
           u == Increment(s)
<1>1. /\ s.scheme \in Schemes /\ n \in 1 .. 4 /\ g \in Nat /\ g < n /\ s.dt \in Nat
      /\ s.step \in Nat /\ s.timestamp \in Nat /\ s.t \in Nat /\ n \in Nat
  BY SchemeStages DEF Stepper
<1>2. u = [s EXCEPT !.stage = e, !.timestamp = @ + 1, !.t = IF e = 0 THEN @ + s.dt ELSE @,
                    !.step = IF e = 0 THEN @ + 1 ELSE @]
  BY DEF Increment
<1>3. e = IF g + 1 = n THEN 0 ELSE g + 1
  <2> HIDE DEF n, g
  <2>1. n \in {1, 2, 3, 4} /\ g \in {0, 1, 2, 3}
    BY <1>1
  <2> QED
    BY <1>1, <2>1
<1> HIDE DEF e, u
<1>4. /\ u.scheme = s.scheme /\ u.nstages = n /\ u.dt = s.dt /\ u.stage = e
      /\ u.t = (IF e = 0 THEN s.t + s.dt ELSE s.t) /\ u.step = IF e = 0 THEN s.step + 1 ELSE s.step
  BY <1>2 DEF Stepper
<1>5. e \in Nat /\ e < n
  BY <1>1, <1>3
<1>6. s.timestamp + 1 \in Nat /\ s.t + s.dt \in Nat /\ s.step + 1 \in Nat
  BY <1>1
<1>7. u \in Stepper
  BY <1>1, <1>2, <1>5, <1>6 DEF Stepper
<1>8. e = 0 <=> g + 1 = n
  BY <1>1, <1>3
<1> QED
  BY <1>3, <1>4, <1>5, <1>7, <1>8 DEF u

(* The flags and the pointer name the same stepper.                        *)
LEMMA OneStepper ==
  ASSUME FlagsOK
  PROVE  Updating = Current /\ current \in {"first", "second"}
BY DEF FlagsOK, Updating, Current

(* Of both steppers, the same number of stages; the times are numbers.     *)
LEMMA StepperFacts ==
  ASSUME SteppersOK
  PROVE  /\ first.scheme \in Schemes /\ second.nstages = first.nstages
         /\ first.nstages \in 1 .. 4 /\ first.stage \in 0 .. first.nstages - 1
         /\ second.stage \in 0 .. second.nstages - 1
         /\ first.t \in Int /\ second.t \in Int /\ first.step \in Nat /\ second.step \in Nat
         /\ DtUnit \in Nat /\ 24 * DtUnit = 12 * (2 * DtUnit)
<1>1. /\ first.scheme \in Schemes /\ first.stage \in Nat /\ second.stage \in Nat /\ first.nstages \in Nat
      /\ first.t \in Int /\ second.t \in Int /\ first.step \in Nat /\ second.step \in Nat
  BY DEF SteppersOK, Stepper
<1>2. first.nstages = first.scheme[1] /\ second.nstages = first.nstages
      /\ first.stage < first.nstages /\ second.stage < second.nstages
  BY DEF SteppersOK
<1> QED
  BY <1>1, <1>2, SchemeStages, DtUnits

(* Between two steps every part is at the clock of its stepper.            *)
LEMMA SlotsBetween ==
  ASSUME SteppersOK', current' \in {"first", "second"}, first'.stage = 0, second'.stage = 0,
         executed' \in Nat, q' \in [0 .. first'.nstages -> Slot], q'[0].updates = executed',
         q'[0].clock["swe"] = first'.t, q'[0].clock["dispersive"] = second'.t
  PROVE  SlotsOK'
<1>1. /\ first'.scheme \in Schemes /\ second'.scheme = first'.scheme /\ first'.t \in Int /\ second'.t \in Int
      /\ DtUnit \in Nat
  BY DtUnits DEF SteppersOK, Stepper
<1>2. StageTimes(first'.scheme)[1] = 0
  BY <1>1, SchemeStages
<1>3. \A i \in 0 .. 0 : i = 0 /\ i + 1 = 1
  OBVIOUS
<1>4. first'.t + DtUnit * 0 = first'.t /\ second'.t + (2 * DtUnit) * 0 = second'.t
  BY <1>1
<1>5. Current'.stage = 0
  BY DEF Current
<1>6. Reached(q', first'.scheme, 0, "swe", "dispersive", first'.t, second'.t, DtUnit)
  BY <1>2, <1>3, <1>4 DEF Reached
<1>7. Reached(q', second'.scheme, 0, "dispersive", "swe", second'.t, first'.t, 2 * DtUnit)
  BY <1>1, <1>2, <1>3, <1>4 DEF Reached
<1> QED
  BY <1>5, <1>6, <1>7 DEF SlotsOK

(* A stage of the current stepper keeps the steppers, the slots and what   *)
(* the flags tell, whether it is the last one of its step or not.          *)
LEMMA FirstStage ==
  ASSUME SteppersOK, FlagsOK, SlotsOK, current = "first",
         q' = UpdateState(Updating, q, "swe"), executed' = executed + 1, IncrementCurrent
  PROVE  /\ SteppersOK' /\ FlagsOK' /\ SlotsOK' /\ Current'.nstages = Current.nstages
         /\ IF Current.stage + 1 = Current.nstages
            THEN Current'.stage = 0 /\ first'.stage = 0 /\ Switch
            ELSE Current'.stage = Current.stage + 1 /\ UNCHANGED <<done_first, done_second>>
<1> DEFINE z == UpdateState(first, q, "swe")
           u == Increment(first)
           last == first.stage + 1 = first.nstages
<1>1. Current = first /\ q' = z /\ first' = u /\ second' = second /\ second.stage = 0
      /\ IF u.stage = 0 THEN Switch ELSE UNCHANGED <<done_first, done_second, current>>
  BY OneStepper DEF Current, IncrementCurrent, FlagsOK
<1>2. /\ z \in [0 .. first.nstages -> Slot]
      /\ IF last
         THEN /\ z[0].updates = q[first.stage].updates + 1
              /\ z[0].clock["swe"] = first.t + 12 * DtUnit /\ z[0].clock["dispersive"] = second.t
         ELSE /\ z[first.stage + 1].updates = q[first.stage].updates + 1
              /\ Reached(z, first.scheme, first.stage + 1, "swe", "dispersive", first.t, second.t, DtUnit)
  <2>1. /\ first.scheme \in Schemes /\ first.stage \in 0 .. first.nstages - 1 /\ DtUnit \in Nat
        /\ first.t \in Int /\ second.t \in Int /\ first.dt = 12 * DtUnit /\ first.nstages = first.scheme[1]
    BY StepperFacts DEF SteppersOK
  <2>2. /\ q \in [0 .. first.nstages -> Slot]
        /\ Reached(q, first.scheme, first.stage, "swe", "dispersive", first.t, second.t, DtUnit)
    BY DEF SlotsOK
  <2>3. "swe" \in Parts /\ "dispersive" \in Parts /\ "swe" # "dispersive"
    BY DEF Parts
  <2> HIDE DEF z
  <2> QED
    BY <2>1, <2>2, <2>3, SlotsAdvance DEF z
<1>3. /\ u \in Stepper /\ u.scheme = first.scheme /\ u.nstages = first.nstages /\ u.dt = first.dt
      /\ u.stage < u.nstages
      /\ IF last THEN u.stage = 0 /\ u.step = first.step + 1 /\ u.t = first.t + 12 * DtUnit
                 ELSE u.stage = first.stage + 1 /\ u.stage # 0 /\ u.step = first.step /\ u.t = first.t
  BY Ticks DEF SteppersOK
<1> HIDE DEF z, u, last
<1>4. SteppersOK'
  BY <1>1, <1>3 DEF SteppersOK
<1>5. executed' \in Nat /\ q[first.stage].updates = executed
  BY <1>1 DEF SlotsOK
<1>6. CASE last
  <2>1. Switch
    BY <1>1, <1>3, <1>6
  <2>2. first'.t = first.t + 12 * DtUnit /\ first'.step = first.step + 1 /\ first'.stage = 0
    BY <1>1, <1>3, <1>6
  <2>3. /\ first.t \in Int /\ second.t \in Int /\ first.step \in Nat /\ second.step \in Nat /\ DtUnit \in Nat
    BY StepperFacts
  <2>4. FlagsOK' /\ current' \in {"first", "second"}
    <3>1. CASE ~done_first
      <4>1. done_first' = TRUE /\ done_second' = FALSE /\ current' = "second"
        BY <2>1, <3>1 DEF Switch, FlagsOK
      <4>2. first.t = second.t /\ first.step = 2 * second.step
        BY <3>1 DEF FlagsOK
      <4>3. first'.t = second'.t + 12 * DtUnit /\ first'.step = 2 * second'.step + 1
        BY <1>1, <2>2, <2>3, <4>2
      <4> QED
        BY <2>2, <4>1, <4>3 DEF FlagsOK
    <3>2. CASE done_first
      <4>1. done_second
        BY <3>2 DEF FlagsOK
      <4>2. done_first' = FALSE /\ done_second' = FALSE /\ current' = "first"
        BY <2>1, <3>2, <4>1 DEF Switch
      <4>3. first.t + 12 * DtUnit = second.t /\ first.step + 1 = 2 * second.step
        BY <4>1 DEF FlagsOK
      <4>4. first'.t = second'.t /\ first'.step = 2 * second'.step
        BY <1>1, <2>2, <2>3, <4>3
      <4> QED
        BY <1>1, <4>2, <4>4 DEF FlagsOK
    <3> QED
      BY <3>1, <3>2 DEF FlagsOK
  <2>5. SlotsOK'
    BY <1>1, <1>2, <1>3, <1>4, <1>5, <1>6, <2>2, <2>4, SlotsBetween
  <2>6. Current'.stage = 0 /\ Current'.nstages = first.nstages
    BY <1>1, <1>3, <1>4, <2>2, <2>4, StepperFacts DEF Current
  <2> QED
    BY <1>1, <1>4, <1>6, <2>1, <2>2, <2>4, <2>5, <2>6 DEF last
<1>7. CASE ~last
  <2>1. /\ done_first' = done_first /\ done_second' = done_second /\ current' = "first"
        /\ first'.t = first.t /\ first'.step = first.step /\ first'.stage = first.stage + 1
        /\ first'.scheme = first.scheme /\ second' = second
    BY <1>1, <1>3, <1>7
  <2>2. FlagsOK'
    BY <2>1 DEF FlagsOK
  <2>3. SlotsOK'
    BY <1>1, <1>2, <1>3, <1>5, <1>7, <2>1 DEF SlotsOK, Current
  <2>4. Current'.stage = first.stage + 1 /\ Current'.nstages = first.nstages
    BY <1>1, <1>3, <2>1 DEF Current
  <2> QED
    BY <1>1, <1>4, <1>7, <2>1, <2>2, <2>3, <2>4 DEF last
<1> QED
  BY <1>6, <1>7

LEMMA SecondStage ==
  ASSUME SteppersOK, FlagsOK, SlotsOK, current = "second",
         q' = UpdateState(Updating, q, "dispersive"), executed' = executed + 1, IncrementCurrent
  PROVE  /\ SteppersOK' /\ FlagsOK' /\ SlotsOK' /\ Current'.nstages = Current.nstages
         /\ IF Current.stage + 1 = Current.nstages
            THEN Current'.stage = 0 /\ first'.stage = 0 /\ Switch
            ELSE Current'.stage = Current.stage + 1 /\ UNCHANGED <<done_first, done_second>>
<1> DEFINE z == UpdateState(second, q, "dispersive")
           u == Increment(second)
           last == second.stage + 1 = second.nstages
<1>1. /\ Current = second /\ q' = z /\ second' = u /\ first' = first /\ first.stage = 0
      /\ done_first = TRUE /\ done_second = FALSE
      /\ IF u.stage = 0 THEN Switch ELSE UNCHANGED <<done_first, done_second, current>>
  BY OneStepper DEF Current, IncrementCurrent, FlagsOK
<1>2. /\ z \in [0 .. second.nstages -> Slot]
      /\ IF last
         THEN /\ z[0].updates = q[second.stage].updates + 1
              /\ z[0].clock["dispersive"] = second.t + 12 * (2 * DtUnit) /\ z[0].clock["swe"] = first.t
         ELSE /\ z[second.stage + 1].updates = q[second.stage].updates + 1
              /\ Reached(z, second.scheme, second.stage + 1, "dispersive", "swe", second.t, first.t, 2 * DtUnit)
  <2>1. /\ second.scheme \in Schemes /\ second.stage \in 0 .. second.nstages - 1 /\ 2 * DtUnit \in Nat
        /\ first.t \in Int /\ second.t \in Int /\ second.dt = 12 * (2 * DtUnit)
        /\ second.nstages = second.scheme[1] /\ second.nstages = first.nstages
    BY StepperFacts DEF SteppersOK
  <2>2. /\ q \in [0 .. second.nstages -> Slot]
        /\ Reached(q, second.scheme, second.stage, "dispersive", "swe", second.t, first.t, 2 * DtUnit)
    BY <2>1 DEF SlotsOK
  <2>3. "swe" \in Parts /\ "dispersive" \in Parts /\ "swe" # "dispersive"
    BY DEF Parts
  <2> HIDE DEF z
  <2> QED
    BY <2>1, <2>2, <2>3, SlotsAdvance DEF z
<1>3. /\ u \in Stepper /\ u.scheme = second.scheme /\ u.nstages = second.nstages /\ u.dt = second.dt
      /\ u.stage < u.nstages
      /\ IF last THEN u.stage = 0 /\ u.step = second.step + 1 /\ u.t = second.t + 24 * DtUnit
                 ELSE u.stage = second.stage + 1 /\ u.stage # 0 /\ u.step = second.step /\ u.t = second.t
  BY Ticks DEF SteppersOK
<1> HIDE DEF z, u, last
<1>4. SteppersOK' /\ second.nstages = first.nstages /\ 12 * (2 * DtUnit) = 24 * DtUnit
  BY <1>1, <1>3, StepperFacts DEF SteppersOK
<1>5. executed' \in Nat /\ q[second.stage].updates = executed
  BY <1>1 DEF SlotsOK
<1>6. CASE last
  <2>0. Switch
    BY <1>1, <1>3, <1>6
  <2>1. done_first' = TRUE /\ done_second' = TRUE /\ current' = "first"
    BY <1>1, <2>0 DEF Switch
  <2>2. second'.t = second.t + 24 * DtUnit /\ second'.step = second.step + 1 /\ second'.stage = 0
    BY <1>1, <1>3, <1>6
  <2>3. /\ first.t \in Int /\ second.t \in Int /\ first.step \in Nat /\ second.step \in Nat /\ DtUnit \in Nat
    BY StepperFacts
  <2>4. first.t = second.t + 12 * DtUnit /\ first.step = 2 * second.step + 1
    BY <1>1 DEF FlagsOK
  <2>5. first'.t + 12 * DtUnit = second'.t /\ first'.step + 1 = 2 * second'.step
    BY <1>1, <2>2, <2>3, <2>4
  <2>6. FlagsOK'
    BY <2>1, <2>2, <2>5 DEF FlagsOK
  <2>7. SlotsOK'
    BY <1>1, <1>2, <1>3, <1>4, <1>5, <1>6, <2>1, <2>2, SlotsBetween
  <2>8. Current'.stage = 0 /\ Current'.nstages = second.nstages /\ first'.stage = 0
    BY <1>1, <1>4, <2>1 DEF Current
  <2> QED
    BY <1>1, <1>4, <1>6, <2>0, <2>6, <2>7, <2>8 DEF last
<1>7. CASE ~last
  <2>1. /\ done_first' = done_first /\ done_second' = done_second /\ current' = "second"
        /\ second'.t = second.t /\ second'.step = second.step /\ second'.stage = second.stage + 1
        /\ second'.scheme = second.scheme /\ first' = first
    BY <1>1, <1>3, <1>7
  <2>2. FlagsOK'
    BY <2>1 DEF FlagsOK
  <2>3. SlotsOK'
    BY <1>1, <1>2, <1>4, <1>5, <1>7, <2>1 DEF SlotsOK, Current
  <2>4. Current'.stage = second.stage + 1 /\ Current'.nstages = second.nstages
    BY <1>1, <1>3, <2>1 DEF Current
  <2> QED
    BY <1>1, <1>4, <1>7, <2>1, <2>2, <2>3, <2>4 DEF last
<1> QED
  BY <1>6, <1>7

-----------------------------------------------------------------------------
(* One step of the program.                                                *)

(* The current stepper has stages left, or ends its step.                  *)
LEMMA StageIInv == IInv /\ Stage => IInv'
<1> SUFFICES ASSUME IInv, Stage PROVE IInv'
  OBVIOUS
<1>1. /\ SteppersOK /\ FlagsOK /\ SlotsOK /\ LoopsOK /\ at = "stage" /\ half \in 1 .. 3
      /\ (done_first <=> half # 1) /\ (done_second <=> half = 3) /\ loop = Current.stage
  BY DEF IInv, LoopsOK, Stage
<1>2. current = (IF half = 2 THEN "second" ELSE "first") /\ Updating = Current
  <2>1. CASE half = 2
    <3>1. done_first /\ ~done_second
      BY <1>1, <2>1
    <3> QED
      BY <1>1, <2>1, <3>1, OneStepper DEF FlagsOK
  <2>2. CASE half # 2
    <3>1. ~done_first \/ done_second
      BY <1>1, <2>2
    <3> QED
      BY <1>1, <2>2, <3>1, OneStepper DEF FlagsOK
  <2> QED
    BY <2>1, <2>2
<1>3. /\ q' = UpdateState(Updating, q, IF half = 2 THEN "dispersive" ELSE "swe")
      /\ executed' = executed + 1 /\ IncrementCurrent
  BY DEF Stage
<1>4. /\ SteppersOK' /\ FlagsOK' /\ SlotsOK' /\ Current'.nstages = Current.nstages
      /\ IF Current.stage + 1 = Current.nstages
         THEN Current'.stage = 0 /\ first'.stage = 0 /\ Switch
         ELSE Current'.stage = Current.stage + 1 /\ UNCHANGED <<done_first, done_second>>
  <2>1. CASE half = 2
    BY <1>1, <1>2, <1>3, <2>1, SecondStage
  <2>2. CASE half # 2
    BY <1>1, <1>2, <1>3, <2>2, FirstStage
  <2> QED
    BY <2>1, <2>2
<1> DEFINE more == loop + 1 < Current'.nstages
<1>5. more <=> Current.stage + 1 # Current.nstages
  <2>1. Current.stage \in 0 .. Current.nstages - 1 /\ Current.nstages \in Nat
    BY <1>1, StepperFacts DEF Current
  <2> QED
    BY <1>1, <1>4, <2>1
<1>6. \/ /\ loop' = IF more THEN loop + 1 ELSE 0
         /\ half' = IF more \/ half = 3 THEN half ELSE half + 1
         /\ at' = IF more \/ half # 3 THEN "parse" ELSE "output"
      \/ at' = "aborted" /\ UNCHANGED <<loop, half>>
  BY DEF Stage
<1> HIDE DEF more
<1>7. LoopsOK'
  <2>1. CASE at' = "aborted"
    BY <1>1, <1>6, <2>1 DEF LoopsOK
  <2>2. CASE more /\ at' # "aborted"
    <3>1. loop' = loop + 1 /\ half' = half /\ at' = "parse"
      BY <1>6, <2>2
    <3>2. Current'.stage = Current.stage + 1 /\ done_first' = done_first /\ done_second' = done_second
      BY <1>4, <1>5, <2>2
    <3> QED
      BY <1>1, <3>1, <3>2 DEF LoopsOK
  <2>3. CASE ~more /\ at' # "aborted"
    <3>1. /\ loop' = 0 /\ half' = (IF half = 3 THEN half ELSE half + 1)
          /\ at' = (IF half # 3 THEN "parse" ELSE "output")
      BY <1>6, <2>3
    <3>2. Current'.stage = 0 /\ first'.stage = 0 /\ Switch
      BY <1>4, <1>5, <2>3
    <3>3. CASE half = 1
      <4>1. done_first' /\ ~done_second'
        BY <1>1, <3>2, <3>3 DEF Switch
      <4>2. half' = 2 /\ at' = "parse"
        BY <3>1, <3>3
      <4>3. half' \in 1 .. 3 /\ (done_first' <=> half' # 1) /\ (done_second' <=> half' = 3)
        BY <4>1, <4>2
      <4> QED
        BY <3>1, <3>2, <4>2, <4>3 DEF LoopsOK
    <3>4. CASE half = 2
      <4>1. done_first' /\ done_second'
        <5>1. done_first /\ ~done_second
          BY <1>1, <3>4
        <5> QED
          BY <3>2, <5>1 DEF Switch
      <4>2. half' = 3 /\ at' = "parse"
        BY <3>1, <3>4
      <4>3. half' \in 1 .. 3 /\ (done_first' <=> half' # 1) /\ (done_second' <=> half' = 3)
        BY <4>1, <4>2
      <4> QED
        BY <3>1, <3>2, <4>2, <4>3 DEF LoopsOK
    <3>5. CASE half = 3
      <4>1. ~done_first' /\ ~done_second'
        BY <1>1, <3>2, <3>5 DEF Switch
      <4>2. half' = 3 /\ at' = "output"
        BY <3>1, <3>5
      <4> QED
        BY <3>1, <3>2, <4>1, <4>2 DEF LoopsOK
    <3> QED
      BY <1>1, <3>3, <3>4, <3>5
  <2> QED
    BY <2>1, <2>2, <2>3
<1> QED
  BY <1>4, <1>7 DEF IInv

(* The other actions leave the steppers and the slots alone.               *)
LEMMA NextIInv == IInv /\ [Next]_vars => IInv'
<1> SUFFICES ASSUME IInv, [Next]_vars PROVE IInv'
  OBVIOUS
<1>1. ASSUME UNCHANGED <<stepperVars, q, executed>>
      PROVE  SteppersOK' /\ FlagsOK' /\ SlotsOK' /\ Current' = Current
  BY <1>1 DEF IInv, SteppersOK, FlagsOK, SlotsOK, Current, stepperVars
<1>2. CASE Launch
  <2>1. LoopsOK'
    BY <1>2 DEF Launch, IInv, LoopsOK, FlagsOK, Current, stepperVars
  <2> QED
    BY <1>1, <1>2, <2>1 DEF Launch, IInv
<1>3. CASE Parse
  <2>1. LoopsOK'
    BY <1>3 DEF Parse, IInv, LoopsOK, Current, stepperVars
  <2> QED
    BY <1>1, <1>3, <2>1 DEF Parse, IInv
<1>4. CASE Stage
  BY <1>4, StageIInv
<1>5. CASE Output
  <2>1. LoopsOK'
    BY <1>5 DEF Output, IInv, LoopsOK, FlagsOK, Current, stepperVars
  <2> QED
    BY <1>1, <1>5, <2>1 DEF Output, IInv
<1>6. CASE UNCHANGED vars
  <2>1. LoopsOK'
    BY <1>6 DEF vars, IInv, LoopsOK, Current, stepperVars
  <2> QED
    BY <1>1, <1>6, <2>1 DEF vars, IInv
<1> QED
  BY <1>2, <1>3, <1>4, <1>5, <1>6 DEF Next, Terminated

(* The halves of a time step, the flags and the clocks fit together in     *)
(* every reachable state.                                                  *)
THEOREM Invariance == Spec => []IInv
BY InitIInv, NextIInv, PTL DEF Spec

(* Every half of a time step is advanced by its own stepper, which the     *)
(* flags of UpdateState and the pointer of the loops name alike, and at the*)
(* end of a step both parts have advanced the state by exactly dt.         *)
THEOREM SplittingInStep == Spec => []SplitInStep
<1>1. IInv => SplitInStep
  <2> SUFFICES ASSUME IInv PROVE SplitInStep
    OBVIOUS
  <2>1. SteppersOK /\ FlagsOK /\ SlotsOK /\ LoopsOK
    BY DEF IInv
  <2>2. ASSUME at \in {"parse", "stage"}
        PROVE  current = (IF half = 2 THEN "second" ELSE "first") /\ Updating = Current /\ loop = Current.stage
    BY <2>1, <2>2, OneStepper DEF LoopsOK, FlagsOK
  <2>3. q[Current.stage].updates = executed
    BY <2>1 DEF SlotsOK
  <2>4. ASSUME at \in {"output", "done"}
        PROVE  /\ q[0].clock["swe"] = first.t /\ q[0].clock["dispersive"] = second.t
               /\ first.t = second.t /\ first.step = 2 * second.step
    <3>1. ~done_first /\ first.stage = 0 /\ current = "first"
      BY <2>1, <2>4 DEF LoopsOK, FlagsOK
    <3>2. first.t = second.t /\ first.step = 2 * second.step
      BY <2>1, <3>1 DEF FlagsOK
    <3>3. Reached(q, first.scheme, 0, "swe", "dispersive", first.t, second.t, DtUnit)
      BY <2>1, <3>1 DEF SlotsOK
    <3>4. /\ q[0].clock["swe"] = first.t + DtUnit * StageTimes(first.scheme)[0 + 1]
          /\ q[0].clock["dispersive"] = second.t
      BY <3>3 DEF Reached
    <3>5. StageTimes(first.scheme)[0 + 1] = 0 /\ first.t \in Int /\ DtUnit \in Nat
      BY <2>1, StepperFacts, SchemeStages
    <3>6. first.t + DtUnit * 0 = first.t
      BY <3>5
    <3> QED
      BY <3>2, <3>4, <3>5, <3>6
  <2> QED
    BY <2>2, <2>3, <2>4 DEF SplitInStep
<1> QED
  BY <1>1, Invariance, PTL
=============================================================================
