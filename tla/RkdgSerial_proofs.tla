--------------------------- MODULE RkdgSerial_proofs ---------------------------
(***************************************************************************)
(* Proofs about the serial program: the slots of an element, the stepper,  *)
(* the output files and the meteorological data in memory, for every       *)
(* length and number of time steps and every frequency.                    *)
(***************************************************************************)
EXTENDS RkdgSerial, TLAPS

(* The times the states of the stages are at, as parts of a step in units  *)
(* of dt / Den, and of the state at the end.                               *)
StageTimes(m) ==
  CASE m = <<1, 1>> -> <<0, 12>>
    [] m = <<2, 2>> -> <<0, 12, 12>>
    [] m = <<3, 3>> -> <<0, 12, 6, 12>>
    [] m = <<4, 3>> -> <<0, 6, 12, 6, 12>>

(* A multiple of 2 * Den is one of 12.                                     *)
LEMMA DenDivides ==
  ASSUME NEW dt \in Nat, dt % (2 * Den) = 0
  PROVE  \E k \in Nat : dt = 12 * k
<1>1. 2 * Den = 24
  BY DEF Den
<1>2. dt % 24 = 0
  BY <1>1
<1>3. dt = 12 * (2 * (dt \div 24)) /\ 2 * (dt \div 24) \in Nat
  BY <1>2
<1> QED
  BY <1>3

(* The weights of a row of ark add up to one and its rates carry the state *)
(* to the time of the next stage: UpdateState of y' = 1 is exact.          *)
LEMMA StateAdvances ==
  ASSUME NEW k \in Nat, NEW s, NEW y, NEW p \in DOMAIN y[0].clock, NEW t \in Int,
         s.scheme \in Schemes, s.nstages = s.scheme[1], s.dt = 12 * k, s.stage \in 0 .. s.nstages - 1,
         \A i \in 0 .. s.stage : y[i].clock[p] = t + k * StageTimes(s.scheme)[i + 1]
  PROVE  NextState(s, y, p).clock[p] = t + k * StageTimes(s.scheme)[s.stage + 2]
<1> DEFINE n == s.stage
           c(i) == y[i].clock[p]
           next == NextState(s, y, p).clock[p]
<1>1. next =
        ((IF 0 > n THEN 0 ELSE Ark(s.scheme)[n + 1][1] * c(0) + s.dt * Brk(s.scheme, n, 0))
         + (IF 1 > n THEN 0 ELSE Ark(s.scheme)[n + 1][2] * c(1) + s.dt * Brk(s.scheme, n, 1))
         + (IF 2 > n THEN 0 ELSE Ark(s.scheme)[n + 1][3] * c(2) + s.dt * Brk(s.scheme, n, 2))
         + (IF 3 > n THEN 0 ELSE Ark(s.scheme)[n + 1][4] * c(3) + s.dt * Brk(s.scheme, n, 3))) \div 12
  BY DEF NextState, Den
<1>2. \A i \in 0 .. n : c(i) = t + k * StageTimes(s.scheme)[i + 1]
  OBVIOUS
<1> HIDE DEF c, next
<1>3. CASE s.scheme = <<1, 1>>
  <2>1. n \in {0}
    BY <1>3
  <2>2. CASE n = 0
    <3>1. c(0) = t
      BY <1>2, <1>3, <2>2 DEF StageTimes
    <3>2. next = (12 * t + (12 * k) * 12) \div 12
      BY <1>1, <1>3, <2>2, <3>1 DEF Ark, Brk, BrkDiagonal
    <3>3. next = t + k * 12
      BY <3>2
    <3> QED
      BY <1>3, <2>2, <3>3 DEF StageTimes, next
  <2> QED
    BY <2>1, <2>2
<1>4. CASE s.scheme = <<2, 2>>
  <2>1. n \in {0, 1}
    BY <1>4
  <2>2. CASE n = 0
    <3>1. c(0) = t
      BY <1>2, <1>4, <2>2 DEF StageTimes
    <3>2. next = (12 * t + (12 * k) * 12) \div 12
      BY <1>1, <1>4, <2>2, <3>1 DEF Ark, Brk, BrkDiagonal
    <3>3. next = t + k * 12
      BY <3>2
    <3> QED
      BY <1>4, <2>2, <3>3 DEF StageTimes, next
  <2>3. CASE n = 1
    <3>1. c(0) = t /\ c(1) = t + k * 12
      BY <1>2, <1>4, <2>3 DEF StageTimes
    <3>2. next = (6 * t + 6 * (t + k * 12) + (12 * k) * 6) \div 12
      BY <1>1, <1>4, <2>3, <3>1 DEF Ark, Brk, BrkDiagonal
    <3>3. next = t + k * 12
      BY <3>2
    <3> QED
      BY <1>4, <2>3, <3>3 DEF StageTimes, next
  <2> QED
    BY <2>1, <2>2, <2>3
<1>5. CASE s.scheme = <<3, 3>>
  <2>1. n \in {0, 1, 2}
    BY <1>5
  <2>2. CASE n = 0
    <3>1. c(0) = t
      BY <1>2, <1>5, <2>2 DEF StageTimes
    <3>2. next = (12 * t + (12 * k) * 12) \div 12
      BY <1>1, <1>5, <2>2, <3>1 DEF Ark, Brk, BrkDiagonal
    <3>3. next = t + k * 12
      BY <3>2
    <3> QED
      BY <1>5, <2>2, <3>3 DEF StageTimes, next
  <2>3. CASE n = 1
    <3>1. c(0) = t /\ c(1) = t + k * 12
      BY <1>2, <1>5, <2>3 DEF StageTimes
    <3>2. next = (9 * t + 3 * (t + k * 12) + (12 * k) * 3) \div 12
      BY <1>1, <1>5, <2>3, <3>1 DEF Ark, Brk, BrkDiagonal
    <3>3. next = t + k * 6
      BY <3>2
    <3> QED
      BY <1>5, <2>3, <3>3 DEF StageTimes, next
  <2>4. CASE n = 2
    <3>1. c(0) = t /\ c(1) = t + k * 12 /\ c(2) = t + k * 6
      BY <1>2, <1>5, <2>4 DEF StageTimes
    <3>2. next = (4 * t + 0 * (t + k * 12) + 8 * (t + k * 6) + (12 * k) * 8) \div 12
      BY <1>1, <1>5, <2>4, <3>1 DEF Ark, Brk, BrkDiagonal
    <3>3. next = t + k * 12
      BY <3>2
    <3> QED
      BY <1>5, <2>4, <3>3 DEF StageTimes, next
  <2> QED
    BY <2>1, <2>2, <2>3, <2>4
<1>6. CASE s.scheme = <<4, 3>>
  <2>1. n \in {0, 1, 2, 3}
    BY <1>6
  <2>2. CASE n = 0
    <3>1. c(0) = t
      BY <1>2, <1>6, <2>2 DEF StageTimes
    <3>2. next = (12 * t + (12 * k) * 6) \div 12
      BY <1>1, <1>6, <2>2, <3>1 DEF Ark, Brk, BrkDiagonal
    <3>3. next = t + k * 6
      BY <3>2
    <3> QED
      BY <1>6, <2>2, <3>3 DEF StageTimes, next
  <2>3. CASE n = 1
    <3>1. c(0) = t /\ c(1) = t + k * 6
      BY <1>2, <1>6, <2>3 DEF StageTimes
    <3>2. next = (0 * t + 12 * (t + k * 6) + (12 * k) * 6) \div 12
      BY <1>1, <1>6, <2>3, <3>1 DEF Ark, Brk, BrkDiagonal
    <3>3. next = t + k * 12
      BY <3>2
    <3> QED
      BY <1>6, <2>3, <3>3 DEF StageTimes, next
  <2>4. CASE n = 2
    <3>1. c(0) = t /\ c(1) = t + k * 6 /\ c(2) = t + k * 12
      BY <1>2, <1>6, <2>4 DEF StageTimes
    <3>2. next = (8 * t + 0 * (t + k * 6) + 4 * (t + k * 12) + (12 * k) * 2) \div 12
      BY <1>1, <1>6, <2>4, <3>1 DEF Ark, Brk, BrkDiagonal
    <3>3. next = t + k * 6
      BY <3>2
    <3> QED
      BY <1>6, <2>4, <3>3 DEF StageTimes, next
  <2>5. CASE n = 3
    <3>1. c(0) = t /\ c(1) = t + k * 6 /\ c(2) = t + k * 12 /\ c(3) = t + k * 6
      BY <1>2, <1>6, <2>5 DEF StageTimes
    <3>2. next = (0 * t + 0 * (t + k * 6) + 0 * (t + k * 12) + 12 * (t + k * 6) + (12 * k) * 6) \div 12
      BY <1>1, <1>6, <2>5, <3>1 DEF Ark, Brk, BrkDiagonal
    <3>3. next = t + k * 12
      BY <3>2
    <3> QED
      BY <1>6, <2>5, <3>3 DEF StageTimes, next
  <2> QED
    BY <2>1, <2>2, <2>3, <2>4, <2>5
<1> QED
  BY <1>3, <1>4, <1>5, <1>6 DEF Schemes

-----------------------------------------------------------------------------
(* The inductive invariant.                                                *)

(* The stepper has counted its stages.                                     *)
StepperOK ==
  /\ stepper \in [scheme : Schemes, nstages : Nat, dt : Nat, step : Nat, stage : Nat,
                  timestamp : Nat, t : Nat]
  /\ stepper.nstages = stepper.scheme[1] /\ stepper.stage < stepper.nstages
  /\ stepper.dt = Dt
  /\ stepper.timestamp = stepper.step * stepper.nstages + stepper.stage
  /\ stepper.t = stepper.step * Dt

(* The slots up to the current stage hold the states of this step.         *)
SlotsOK ==
  /\ q \in [0 .. stepper.nstages -> [updates : Nat, clock : [{"swe"} -> Int]]]
  /\ q[stepper.stage].updates = stepper.timestamp
  /\ \A i \in 0 .. stepper.stage :
       q[i].clock["swe"] = stepper.t + (Dt \div Den) * StageTimes(stepper.scheme)[i + 1]

(* The loops of Run and step_serial count what the stepper counts.         *)
LoopsOK ==
  /\ at \in {"launch", "parse", "stage", "output", "done", "fatal", "aborted"}
  /\ step \in Nat /\ loop \in Nat
  /\ at = "launch" => step = 0
  /\ at \in {"launch", "done"} => stepper.step = step /\ stepper.stage = 0 /\ loop = 0
  /\ at \in {"parse", "stage"} => stepper.step = step /\ stepper.stage = loop /\ step < NumSteps
  /\ at = "output" => stepper.step = step + 1 /\ stepper.stage = 0 /\ loop = stepper.nstages

(* Files up to the finished step are written.                              *)
WrittenOK ==
  /\ output_frequency \in OutputFrequencies
  /\ \A w \in written : w[2].updates = w[1] * stepper.nstages /\ w[2].clock["swe"] = w[1] * Dt
  /\ at = "launch" => written = {}
  /\ at \in {"parse", "stage", "output", "done"} =>
       {w[1] : w \in written} = {n \in 0 .. step : n % output_frequency = 0}

IInv == StepperOK /\ SlotsOK /\ LoopsOK /\ WrittenOK

(* A step begins and ends with the state at its bounds.                    *)
LEMMA SchemeStages ==
  ASSUME NEW m \in Schemes
  PROVE  m[1] \in {1, 2, 3, 4} /\ StageTimes(m)[1] = 0 /\ StageTimes(m)[m[1] + 1] = 12
         /\ \A i \in 0 .. m[1] : StageTimes(m)[i + 1] \in Nat
BY DEF Schemes, StageTimes

(* Dt in units of Dt / Den.                                                *)
LEMMA DtUnits == Dt \div Den \in Nat /\ Dt = 12 * (Dt \div Den)
<1>1. PICK k \in Nat : Dt = 12 * k
  BY StepAssumption, DenDivides
<1> QED
  BY <1>1 DEF Den

(* It holds before Launch.                                                 *)
LEMMA InitIInv == Init => IInv
<1> SUFFICES ASSUME Init PROVE IInv
  OBVIOUS
<1>1. PICK m \in Schemes : stepper = NewStepper(m, Dt)
  BY DEF Init
<1>2. m[1] \in {1, 2, 3, 4} /\ StageTimes(m)[1] = 0
  BY <1>1, SchemeStages
<1>3. StepperOK
  BY <1>1, <1>2, StepAssumption DEF StepperOK, NewStepper
<1>4. SlotsOK
  <2>1. q = [i \in 0 .. stepper.nstages |-> [updates |-> 0, clock |-> [p \in {"swe"} |-> 0]]]
    BY DEF Init, NewSlots
  <2>2. stepper.stage = 0 /\ stepper.timestamp = 0 /\ stepper.t = 0 /\ stepper.scheme = m /\ stepper.nstages = m[1]
    BY <1>1 DEF NewStepper
  <2> QED
    BY <1>2, <2>1, <2>2, DtUnits DEF SlotsOK
<1>5. LoopsOK
  BY <1>1 DEF Init, LoopsOK, NewStepper
<1>6. WrittenOK
  BY DEF Init, WrittenOK
<1> QED
  BY <1>3, <1>4, <1>5, <1>6 DEF IInv

(* ++stepper: the next stage, or the first stage of the next step.         *)
LEMMA StepperTicks ==
  ASSUME StepperOK, stepper' = Increment(stepper)
  PROVE  /\ StepperOK'
         /\ stepper'.scheme = stepper.scheme /\ stepper'.nstages = stepper.nstages
         /\ stepper'.timestamp = stepper.timestamp + 1
         /\ IF stepper.stage + 1 = stepper.nstages
            THEN /\ stepper'.stage = 0 /\ stepper'.step = stepper.step + 1
                 /\ stepper'.t = stepper.t + Dt
            ELSE /\ stepper'.stage = stepper.stage + 1 /\ stepper'.step = stepper.step
                 /\ stepper'.t = stepper.t
<1> DEFINE n == stepper.nstages
           g == stepper.stage
           r == stepper.step
<1>1. /\ n \in {1, 2, 3, 4} /\ g \in Nat /\ g < n /\ r \in Nat /\ stepper.t \in Nat /\ Dt \in Nat
      /\ stepper.timestamp \in Nat /\ stepper.timestamp = r * n + g /\ stepper.t = r * Dt
  BY SchemeStages, StepAssumption DEF StepperOK
<1>2. /\ stepper' = [stepper EXCEPT !.stage = (g + 1) % n, !.timestamp = @ + 1,
                        !.t = IF (g + 1) % n = 0 THEN @ + stepper.dt ELSE @,
                        !.step = IF (g + 1) % n = 0 THEN @ + 1 ELSE @]
  BY DEF Increment
<1>3. (g + 1) % n = IF g + 1 = n THEN 0 ELSE g + 1
  <2> HIDE DEF n, g
  <2> QED
    BY <1>1
<1>4. /\ stepper'.scheme = stepper.scheme /\ stepper'.nstages = n /\ stepper'.dt = Dt
      /\ stepper'.timestamp = stepper.timestamp + 1
      /\ stepper'.stage = IF g + 1 = n THEN 0 ELSE g + 1
      /\ stepper'.step = IF g + 1 = n THEN r + 1 ELSE r
      /\ stepper'.t = IF g + 1 = n THEN stepper.t + Dt ELSE stepper.t
  <2>1. (g + 1) % n = 0 <=> g + 1 = n
    BY <1>1, <1>3
  <2> QED
    BY <1>1, <1>2, <1>3, <2>1 DEF StepperOK
<1>5. stepper' \in [scheme : Schemes, nstages : Nat, dt : Nat, step : Nat, stage : Nat,
                    timestamp : Nat, t : Nat]
  <2>1. /\ stepper'.stage \in Nat /\ stepper'.step \in Nat /\ stepper'.t \in Nat /\ stepper'.timestamp \in Nat
    BY <1>1, <1>4
  <2> QED
    BY <1>2, <1>4, <2>1 DEF StepperOK
<1> HIDE DEF n, g, r
<1>6. /\ r * n \in Int /\ r * Dt \in Int /\ n \in Int /\ g \in Int /\ r \in Int
      /\ (r + 1) * n = r * n + n /\ (r + 1) * Dt = r * Dt + Dt
  <2>1. n \in Int /\ g \in Int /\ r \in Int /\ Dt \in Int
    BY <1>1
  <2>2. \A a, b \in Int : a * b \in Int /\ (a + 1) * b = a * b + b
    OBVIOUS
  <2> QED
    BY <2>1, <2>2
<1>7. stepper'.timestamp = stepper'.step * n + stepper'.stage /\ stepper'.t = stepper'.step * Dt
      /\ stepper'.stage < n
  <2> DEFINE a == r * n
             b == r * Dt
  <2>1. a \in Int /\ b \in Int /\ (r + 1) * n = a + n /\ (r + 1) * Dt = b + Dt
    BY <1>6
  <2>2. stepper.timestamp = a + g /\ stepper.t = b
    BY <1>1
  <2>3. CASE g + 1 = n
    <3>1. stepper'.step = r + 1 /\ stepper'.stage = 0
      BY <1>4, <2>3
    <3>2. stepper'.timestamp = (a + g) + 1 /\ stepper'.t = b + Dt
      BY <1>4, <2>2, <2>3
    <3>3. (a + g) + 1 = (a + n) + 0 /\ 0 < n
      <4> HIDE DEF a
      <4> QED
        BY <1>1, <1>6, <2>1, <2>3
    <3> QED
      BY <2>1, <3>1, <3>2, <3>3
  <2>4. CASE g + 1 # n
    <3>1. stepper'.step = r /\ stepper'.stage = g + 1
      BY <1>4, <2>4
    <3>2. stepper'.timestamp = (a + g) + 1 /\ stepper'.t = b
      BY <1>4, <2>2, <2>4
    <3>3. (a + g) + 1 = a + (g + 1) /\ g + 1 < n
      <4> HIDE DEF a
      <4> QED
        BY <1>1, <1>6, <2>1, <2>4
    <3> QED
      BY <3>1, <3>2, <3>3
  <2> QED
    BY <2>3, <2>4
<1>8. StepperOK'
  BY <1>4, <1>5, <1>7 DEF StepperOK, n
<1> QED
  BY <1>4, <1>8 DEF n, g, r

(* UpdateState and ++stepper: the slot of the next stage has the new state.*)
LEMMA SlotsAdvance ==
  ASSUME StepperOK, SlotsOK, stepper' = Increment(stepper), q' = UpdateState(stepper, q, "swe")
  PROVE  SlotsOK'
<1> DEFINE n == stepper.nstages
           g == stepper.stage
           k == Dt \div Den
           m == stepper.scheme
           new == NextState(stepper, q, "swe")
<1>1. /\ m \in Schemes /\ n = m[1] /\ n \in {1, 2, 3, 4} /\ g \in Nat /\ g < n /\ stepper.t \in Nat
      /\ stepper.timestamp \in Nat /\ stepper.dt = 12 * k /\ k \in Nat
  BY SchemeStages, DtUnits DEF StepperOK
<1>2. /\ stepper'.scheme = m /\ stepper'.nstages = n /\ stepper'.timestamp = stepper.timestamp + 1
      /\ IF g + 1 = n THEN stepper'.stage = 0 /\ stepper'.t = stepper.t + 12 * k
                      ELSE stepper'.stage = g + 1 /\ stepper'.t = stepper.t
  BY StepperTicks, DtUnits
<1>3. DOMAIN q[0].clock = {"swe"} /\ q \in [0 .. n -> [updates : Nat, clock : [{"swe"} -> Int]]]
  BY <1>1 DEF SlotsOK
<1>4. new.clock["swe"] = stepper.t + k * StageTimes(m)[g + 2]
  <2>1. \A i \in 0 .. g : q[i].clock["swe"] = stepper.t + k * StageTimes(m)[i + 1]
    BY DEF SlotsOK
  <2>2. "swe" \in DOMAIN q[0].clock /\ g \in 0 .. n - 1 /\ stepper.t \in Int
    BY <1>1, <1>3
  <2> QED
    BY ONLY <1>1, <2>1, <2>2, StateAdvances
<1>5. StageTimes(m)[g + 2] \in Nat /\ StageTimes(m)[1] = 0 /\ StageTimes(m)[n + 1] = 12
  <2>1. g + 1 \in 0 .. m[1] /\ (g + 1) + 1 = g + 2
    BY <1>1
  <2>2. /\ StageTimes(m)[1] = 0 /\ StageTimes(m)[m[1] + 1] = 12
        /\ \A i \in 0 .. m[1] : StageTimes(m)[i + 1] \in Nat
    BY <1>1, SchemeStages
  <2>3. StageTimes(m)[(g + 1) + 1] \in Nat
    BY <2>1, <2>2
  <2> QED
    BY <1>1, <2>1, <2>2, <2>3
<1>6. new \in [updates : Nat, clock : [{"swe"} -> Int]] /\ new.updates = stepper.timestamp + 1
  <2>1. new.clock["swe"] \in Int
    BY <1>1, <1>4, <1>5
  <2>2. new.updates = stepper.timestamp + 1
    BY DEF SlotsOK, NextState
  <2>3. new = [updates |-> new.updates, clock |-> new.clock] /\ DOMAIN new.clock = {"swe"}
        /\ new.clock = [p \in {"swe"} |-> new.clock[p]]
    BY <1>3 DEF NextState
  <2> HIDE DEF new
  <2>4. new.clock \in [{"swe"} -> Int] /\ new.updates \in Nat
    BY <1>1, <2>1, <2>2, <2>3
  <2> QED
    BY <2>2, <2>3, <2>4
<1> HIDE DEF new
<1>7. CASE g + 1 = n
  <2>1. q' = [q EXCEPT ![n] = q[0], ![0] = new]
    BY <1>7 DEF UpdateState, new
  <2>2. q' \in [0 .. n -> [updates : Nat, clock : [{"swe"} -> Int]]] /\ q'[0] = new
    <3>1. 0 \in 0 .. n /\ n \in 0 .. n /\ n # 0
      BY <1>1
    <3> HIDE DEF n
    <3> QED
      BY <1>3, <1>6, <2>1, <3>1
  <2>3. new.clock["swe"] = stepper'.t + k * StageTimes(m)[1]
    <3>1. g + 2 = n + 1
      BY <1>1, <1>7
    <3>2. new.clock["swe"] = stepper.t + k * 12
      BY <1>4, <1>5, <3>1
    <3>3. k * StageTimes(m)[1] = 0 /\ k * 12 = 12 * k
      BY <1>1, <1>5
    <3>4. stepper'.t = stepper.t + 12 * k /\ stepper'.t + 0 = stepper'.t
      BY <1>1, <1>2, <1>7
    <3> QED
      BY <3>2, <3>3, <3>4
  <2>4. stepper'.stage = 0
    BY <1>2, <1>7
  <2>5. \A i \in 0 .. stepper'.stage :
          q'[i].clock["swe"] = stepper'.t + (Dt \div Den) * StageTimes(stepper'.scheme)[i + 1]
    <3>1. \A i \in 0 .. stepper'.stage : i = 0 /\ i + 1 = 1
      BY <2>4
    <3> QED
      BY <1>2, <2>2, <2>3, <3>1
  <2>6. q'[stepper'.stage].updates = stepper'.timestamp
    BY <1>2, <1>6, <2>2, <2>4
  <2> QED
    BY <1>2, <2>2, <2>5, <2>6 DEF SlotsOK
<1>8. CASE g + 1 # n
  <2>1. q' = [q EXCEPT ![g + 1] = new]
    BY <1>8 DEF UpdateState, new
  <2>2. /\ q' \in [0 .. n -> [updates : Nat, clock : [{"swe"} -> Int]]] /\ q'[g + 1] = new
        /\ \A i \in 0 .. g : q'[i] = q[i]
    <3>1. g + 1 \in 0 .. n /\ \A i \in 0 .. g : i \in 0 .. n /\ i # g + 1
      BY <1>1, <1>8
    <3> HIDE DEF n, g
    <3> QED
      BY <1>3, <1>6, <2>1, <3>1
  <2>3. \A i \in 0 .. g + 1 : q'[i].clock["swe"] = stepper.t + k * StageTimes(m)[i + 1]
    <3>1. \A i \in 0 .. g + 1 : i \in 0 .. g \/ i = g + 1
      BY <1>1
    <3>2. \A i \in 0 .. g : q'[i].clock["swe"] = stepper.t + k * StageTimes(m)[i + 1]
      BY <2>2 DEF SlotsOK
    <3>3. q'[g + 1].clock["swe"] = stepper.t + k * StageTimes(m)[(g + 1) + 1]
      <4>1. (g + 1) + 1 = g + 2
        BY <1>1
      <4> QED
        BY <1>4, <2>2, <4>1
    <3> QED
      BY <3>1, <3>2, <3>3
  <2> QED
    BY <1>2, <1>6, <1>8, <2>2, <2>3 DEF SlotsOK
<1> QED
  BY <1>7, <1>8

-----------------------------------------------------------------------------
(* The times of the stages that GetTimeAtCurrentStage adds.                *)

(* A row of the table crk, from the earlier rows of a table c.             *)
CrkRow(m, c, i) ==
  [k \in 0 .. i |->
     LET Through(l) == IF k < l /\ l < i THEN c[l][k] * Ark(m)[i + 1][l + 1] ELSE 0
     IN  IF k = i THEN 0
         ELSE Brk(m, i, k) + (Through(1) + Through(2)) \div Den]

(* A row is zero when the earlier ones are: brk has only a diagonal, and   *)
(* the loop over k < i leaves that of crk out.                             *)
LEMMA ZeroRow ==
  ASSUME NEW m \in Schemes, NEW c, NEW i \in 0 .. m[1] - 1,
         \A l \in 0 .. i - 1 : \A k \in 0 .. l : c[l][k] = 0
  PROVE  CrkRow(m, c, i) = [k \in 0 .. i |-> 0]
<1>1. m[1] \in {1, 2, 3, 4} /\ i \in Nat /\ i < m[1]
  BY SchemeStages
<1>2. ASSUME NEW k \in 0 .. i PROVE CrkRow(m, c, i)[k] = 0
  <2> DEFINE Through(l) == IF k < l /\ l < i THEN c[l][k] * Ark(m)[i + 1][l + 1] ELSE 0
  <2>1. CrkRow(m, c, i)[k] = IF k = i THEN 0 ELSE Brk(m, i, k) + (Through(1) + Through(2)) \div Den
    BY DEF CrkRow
  <2>2. ASSUME NEW l \in {1, 2} PROVE Through(l) = 0
    <3>1. CASE k < l /\ l < i
      <4>1. c[l][k] = 0
        BY <1>1, <2>2, <3>1
      <4>2. Ark(m)[i + 1][l + 1] \in Int
        <5>1. <<i, l>> \in {<<2, 1>>, <<3, 1>>, <<3, 2>>}
          BY <1>1, <2>2, <3>1
        <5>2. m[1] > i
          BY <1>1
        <5>3. m \in {<<3, 3>>, <<4, 3>>} /\ (i = 3 => m = <<4, 3>>)
          BY <5>1, <5>2 DEF Schemes
        <5> QED
          BY <5>1, <5>3 DEF Ark
      <4> QED
        BY <3>1, <4>1, <4>2
    <3>2. CASE ~(k < l /\ l < i)
      BY <3>2
    <3> QED
      BY <3>1, <3>2
  <2>3. Through(1) = 0 /\ Through(2) = 0
    BY <2>2
  <2> HIDE DEF Through
  <2>4. k # i => Brk(m, i, k) = 0
    BY DEF Brk
  <2> QED
    BY <2>1, <2>3, <2>4 DEF Den
<1> QED
  BY <1>2 DEF CrkRow

(* The table of the code satisfies its own rows: one that does exists.     *)
LEMMA CrkRows ==
  ASSUME NEW m \in Schemes, NEW i \in 0 .. m[1] - 1
  PROVE  Crk(m)[i] = CrkRow(m, Crk(m), i)
<1> DEFINE Rows == 0 .. m[1] - 1
           Fits(c) == c = [j \in Rows |-> CrkRow(m, c, j)]
           zero == [j \in Rows |-> [k \in 0 .. j |-> 0]]
<1>1. ASSUME NEW j \in Rows PROVE CrkRow(m, zero, j) = [k \in 0 .. j |-> 0]
  <2>1. \A l \in 0 .. j - 1 : l \in Rows
    BY SchemeStages
  <2>2. \A l \in 0 .. j - 1 : \A k \in 0 .. l : zero[l][k] = 0
    BY <2>1
  <2> HIDE DEF zero
  <2> QED
    BY <2>2, ZeroRow
<1>2. Fits(zero)
  BY <1>1
<1>3. Crk(m) = CHOOSE c : Fits(c)
  BY DEF Crk, CrkRow
<1> HIDE DEF zero, Fits
<1>4. Fits(Crk(m))
  BY <1>2, <1>3
<1> QED
  BY <1>4 DEF Fits

(* Every stage is at the time of its step.                                 *)
LEMMA StagesAtStep ==
  ASSUME NEW m \in Schemes, NEW k \in 0 .. m[1] - 1
  PROVE  Drk(m)[k] = 0
<1>1. m[1] \in {1, 2, 3, 4}
  BY SchemeStages
<1> DEFINE Zero(i) == \A l \in 0 .. i : \A j \in 0 .. l : Crk(m)[l][j] = 0
<1>2. ASSUME NEW i \in 0 .. m[1] - 1, Zero(i - 1)
      PROVE  Zero(i)
  <2>1. Crk(m)[i] = [j \in 0 .. i |-> 0]
    BY <1>2, CrkRows, ZeroRow
  <2>2. \A l \in 0 .. i : l \in 0 .. i - 1 \/ l = i
    BY <1>1
  <2> QED
    BY <1>2, <2>1, <2>2
<1>3. Zero(-1)
  OBVIOUS
<1>4. Zero(0)
  BY <1>1, <1>2, <1>3
<1>5. m[1] > 1 => Zero(1)
  BY <1>1, <1>2, <1>4
<1>6. m[1] > 2 => Zero(2)
  BY <1>1, <1>2, <1>5
<1>7. ASSUME NEW i \in 0 .. 2, i + 1 < m[1], NEW l \in 0 .. i PROVE Crk(m)[i][l] = 0
  <2>1. i = 0 \/ i = 1 \/ i = 2
    BY <1>7
  <2> QED
    BY <1>1, <1>4, <1>5, <1>6, <1>7, <2>1
<1> HIDE DEF Zero
<1> DEFINE Entry(l) == IF l < k THEN Crk(m)[k - 1][l] ELSE 0
<1>8. Drk(m)[k] = Entry(0) + Entry(1) + Entry(2)
  BY DEF Drk
<1>9. ASSUME NEW l \in {0, 1, 2} PROVE Entry(l) = 0
  <2>1. CASE l < k
    <3>1. k - 1 \in 0 .. 2 /\ (k - 1) + 1 < m[1] /\ l \in 0 .. k - 1
      BY <1>1, <2>1
    <3>2. Crk(m)[k - 1][l] = 0
      BY <1>7, <3>1
    <3> QED
      BY <2>1, <3>2
  <2>2. CASE ~(l < k)
    BY <2>2
  <2> QED
    BY <2>1, <2>2
<1> HIDE DEF Entry
<1> QED
  BY <1>8, <1>9

-----------------------------------------------------------------------------
(* Every step keeps the invariant.                                         *)

(* The file of step 0 is written.                                          *)
LEMMA LaunchIInv == IInv /\ Launch => IInv'
<1> SUFFICES ASSUME IInv, Launch PROVE IInv'
  OBVIOUS
<1>1. /\ step = 0 /\ stepper.step = 0 /\ stepper.stage = 0 /\ loop = 0 /\ written = {} /\ at = "launch"
      /\ stepper.t = 0 * Dt /\ stepper.timestamp = 0 * stepper.nstages + 0 /\ stepper.nstages \in Nat
  BY DEF IInv, Launch, LoopsOK, WrittenOK, StepperOK
<1>2. StepperOK' /\ SlotsOK'
  BY DEF IInv, Launch, StepperOK, SlotsOK
<1>3. LoopsOK'
  BY <1>1 DEF IInv, Launch, LoopsOK
<1>4. q[0].updates = 0 * stepper.nstages /\ q[0].clock["swe"] = 0 * Dt
  <2>1. q[0].updates = stepper.timestamp
    BY <1>1 DEF IInv, SlotsOK
  <2>2. q[0].clock["swe"] = stepper.t + (Dt \div Den) * StageTimes(stepper.scheme)[1]
    <3>1. 0 \in 0 .. stepper.stage /\ 0 + 1 = 1
      BY <1>1
    <3> QED
      BY <3>1 DEF IInv, SlotsOK
  <2>3. StageTimes(stepper.scheme)[1] = 0
    BY SchemeStages DEF IInv, StepperOK
  <2> QED
    BY <1>1, <2>1, <2>2, <2>3, DtUnits
<1>5. output_frequency \in Nat \ {0} /\ 0 % output_frequency = 0
  BY StepAssumption DEF IInv, WrittenOK
<1>6. written' = {<<0, q[0]>>}
  BY <1>1, <1>5 DEF Launch, WriteOutput
<1>7. WrittenOK'
  <2>1. {w[1] : w \in written'} = {0}
    BY <1>6
  <2>2. {n \in 0 .. 0 : n % output_frequency = 0} = {0}
    BY <1>5
  <2>3. step' = 0 /\ output_frequency' = output_frequency /\ stepper' = stepper /\ at' # "launch"
    BY <1>1 DEF Launch, inputVars
  <2>4. \A w \in written' : w[2].updates = w[1] * stepper.nstages /\ w[2].clock["swe"] = w[1] * Dt
    BY <1>4, <1>6
  <2>5. output_frequency \in OutputFrequencies
    BY DEF IInv, WrittenOK
  <2> QED
    BY <2>1, <2>2, <2>3, <2>4, <2>5 DEF WrittenOK
<1> QED
  BY <1>2, <1>3, <1>7 DEF IInv

(* Parsing touches the data sets only.                                     *)
LEMMA ParseIInv == IInv /\ Parse => IInv'
<1> SUFFICES ASSUME IInv, Parse PROVE IInv'
  OBVIOUS
<1>1. /\ at = "parse" /\ at' \in {"stage", "fatal"}
      /\ UNCHANGED <<step, loop, stepper, q, output_frequency, written>>
  BY DEF Parse, inputVars
<1>2. StepperOK' /\ SlotsOK'
  BY <1>1 DEF IInv, StepperOK, SlotsOK
<1>3. LoopsOK'
  BY <1>1 DEF IInv, LoopsOK
<1>4. WrittenOK'
  BY <1>1 DEF IInv, WrittenOK
<1> QED
  BY <1>2, <1>3, <1>4 DEF IInv

(* The loop of step_serial ends when the stepper begins a new step.        *)
LEMMA StageIInv == IInv /\ Stage => IInv'
<1> SUFFICES ASSUME IInv, Stage PROVE IInv'
  OBVIOUS
<1>1. /\ stepper' = Increment(stepper) /\ q' = UpdateState(stepper, q, "swe") /\ at = "stage" /\ loop' = loop + 1
      /\ at' \in {IF loop + 1 < stepper.nstages THEN "parse" ELSE "output", "aborted"}
      /\ UNCHANGED <<step, output_frequency, written>>
  BY DEF Stage, inputVars
<1>2. /\ StepperOK' /\ stepper'.nstages = stepper.nstages
      /\ IF stepper.stage + 1 = stepper.nstages
         THEN stepper'.stage = 0 /\ stepper'.step = stepper.step + 1
         ELSE stepper'.stage = stepper.stage + 1 /\ stepper'.step = stepper.step
  BY <1>1, StepperTicks DEF IInv
<1>3. SlotsOK'
  BY <1>1, SlotsAdvance DEF IInv
<1>4. LoopsOK'
  <2>1. stepper.step = step /\ stepper.stage = loop /\ step < NumSteps /\ step \in Nat /\ loop \in Nat
    BY <1>1 DEF IInv, LoopsOK
  <2>2. stepper.nstages \in Nat /\ loop < stepper.nstages
    BY <2>1 DEF IInv, StepperOK
  <2>3. IF loop + 1 = stepper.nstages
        THEN at' \in {"output", "aborted"} /\ stepper'.stage = 0 /\ stepper'.step = step + 1
        ELSE at' \in {"parse", "aborted"} /\ stepper'.stage = loop + 1 /\ stepper'.step = step
    <3>1. loop + 1 < stepper.nstages <=> loop + 1 # stepper.nstages
      BY <2>1, <2>2
    <3> QED
      BY <1>1, <1>2, <2>1, <3>1
  <2>4. step' = step /\ loop' = loop + 1 /\ loop + 1 \in Nat
    BY <1>1, <2>1
  <2>5. CASE loop + 1 = stepper.nstages
    BY <1>2, <2>1, <2>3, <2>4, <2>5 DEF LoopsOK
  <2>6. CASE loop + 1 # stepper.nstages
    BY <1>2, <2>1, <2>3, <2>4, <2>6 DEF LoopsOK
  <2> QED
    BY <2>5, <2>6
<1>5. WrittenOK'
  BY <1>1, <1>2 DEF IInv, WrittenOK
<1> QED
  BY <1>2, <1>3, <1>4, <1>5 DEF IInv

(* The state of slot 0 is that of the finished step.                       *)
LEMMA OutputIInv == IInv /\ Output => IInv'
<1> SUFFICES ASSUME IInv, Output PROVE IInv'
  OBVIOUS
<1> DEFINE r == step + 1
           n == stepper.nstages
<1>1. /\ step \in Nat /\ r \in Nat /\ stepper.step = r /\ stepper.stage = 0 /\ n \in Nat
      /\ stepper.t = r * Dt /\ stepper.timestamp = r * n + 0 /\ at = "output"
  BY DEF IInv, Output, LoopsOK, StepperOK
<1>2. StepperOK' /\ SlotsOK'
  BY DEF IInv, Output, StepperOK, SlotsOK
<1>3. LoopsOK'
  <2>1. step' = r /\ loop' = 0 /\ stepper' = stepper /\ at' = IF r < NumSteps THEN "parse" ELSE "done"
    BY DEF Output
  <2> QED
    BY <1>1, <2>1 DEF LoopsOK
<1>4. q[0].updates = r * n /\ q[0].clock["swe"] = r * Dt
  <2>1. q[0].updates = stepper.timestamp
    BY <1>1 DEF IInv, SlotsOK
  <2>2. q[0].clock["swe"] = stepper.t + (Dt \div Den) * StageTimes(stepper.scheme)[1]
    <3>1. 0 \in 0 .. stepper.stage /\ 0 + 1 = 1
      BY <1>1
    <3> QED
      BY <3>1 DEF IInv, SlotsOK
  <2>3. StageTimes(stepper.scheme)[1] = 0
    BY SchemeStages DEF IInv, StepperOK
  <2>4. (Dt \div Den) * 0 = 0 /\ stepper.t \in Nat
    BY DtUnits DEF IInv, StepperOK
  <2>5. stepper.timestamp = r * n /\ stepper.t + 0 = r * Dt
    <3> HIDE DEF r, n
    <3>1. r * n \in Nat
      BY <1>1
    <3> QED
      BY <1>1, <2>4, <3>1
  <2> QED
    BY <2>1, <2>2, <2>3, <2>4, <2>5
<1>5. output_frequency \in Nat \ {0}
  BY StepAssumption DEF IInv, WrittenOK
<1>6. written' = IF r % output_frequency = 0 THEN written \cup {<<r, q[0]>>} ELSE written
  BY <1>1 DEF Output, WriteOutput
<1>7. WrittenOK'
  <2>1. {w[1] : w \in written} = {i \in 0 .. step : i % output_frequency = 0}
    BY <1>1 DEF IInv, WrittenOK
  <2>2. {w[1] : w \in written'} = {i \in 0 .. r : i % output_frequency = 0}
    <3>1. 0 .. r = (0 .. step) \cup {r}
      BY <1>1
    <3> HIDE DEF r
    <3>2. CASE r % output_frequency = 0
      <4> DEFINE file == <<r, q[0]>>
      <4>1. {w[1] : w \in written'} = {w[1] : w \in written} \cup {r}
        <5>1. file[1] = r /\ written' = written \cup {file}
          BY <1>6, <3>2
        <5> HIDE DEF file
        <5> QED
          BY <5>1
      <4> QED
        BY <2>1, <3>1, <3>2, <4>1
    <3>3. CASE r % output_frequency # 0
      BY <1>6, <2>1, <3>1, <3>3
    <3> QED
      BY <3>2, <3>3
  <2>3. step' = r /\ output_frequency' = output_frequency /\ stepper' = stepper /\ at' # "launch"
    BY DEF Output, inputVars
  <2>4. \A w \in written' : w[2].updates = w[1] * n /\ w[2].clock["swe"] = w[1] * Dt
    <3>1. \A w \in written : w[2].updates = w[1] * n /\ w[2].clock["swe"] = w[1] * Dt
      BY DEF IInv, WrittenOK
    <3> HIDE DEF r, n
    <3> QED
      BY <1>4, <1>6, <3>1
  <2>5. output_frequency \in OutputFrequencies
    BY DEF IInv, WrittenOK
  <2> HIDE DEF r
  <2> QED
    BY <2>2, <2>3, <2>4, <2>5 DEF WrittenOK
<1> QED
  BY <1>2, <1>3, <1>7 DEF IInv

(* All steps together.                                                     *)
LEMMA NextIInv == IInv /\ [Next]_vars => IInv'
<1> SUFFICES ASSUME IInv, [Next]_vars PROVE IInv'
  OBVIOUS
<1>1. ASSUME UNCHANGED vars PROVE IInv'
  BY <1>1 DEF vars, inputVars, IInv, StepperOK, SlotsOK, LoopsOK, WrittenOK
<1>2. CASE Terminated
  BY <1>1, <1>2 DEF Terminated
<1> QED
  BY <1>1, <1>2, LaunchIInv, ParseIInv, StageIInv, OutputIInv DEF Next

(* The loops, the stepper, the slots and the output stay in step.          *)
THEOREM Invariance == Spec => []IInv
BY InitIInv, NextIInv, PTL DEF Spec

(* For any number and length of steps, any frequencies and any of the four *)
(* schemes, the slot of the current stage holds the newest state, and a    *)
(* completed step has advanced it by dt.                                   *)
THEOREM SlotIsCurrent == Spec => []CurrentState
<1>1. IInv => CurrentState
  <2> SUFFICES ASSUME IInv PROVE CurrentState
    OBVIOUS
  <2> DEFINE n == stepper.nstages
             g == stepper.stage
             r == stepper.step
  <2>1. /\ n \in {1, 2, 3, 4} /\ g \in Nat /\ g < n /\ r \in Nat /\ stepper.timestamp = r * n + g
        /\ stepper.scheme \in Schemes /\ stepper.t \in Nat /\ stepper.t = r * Dt
    BY SchemeStages DEF IInv, StepperOK
  <2>2. g = 0 => q[0].clock["swe"] = stepper.t
    <3> SUFFICES ASSUME g = 0 PROVE q[0].clock["swe"] = stepper.t
      OBVIOUS
    <3>1. 0 \in 0 .. g /\ 0 + 1 = 1
      OBVIOUS
    <3>2. q[0].clock["swe"] = stepper.t + (Dt \div Den) * StageTimes(stepper.scheme)[1]
      BY <3>1 DEF IInv, SlotsOK
    <3>3. (Dt \div Den) * 0 = 0 /\ StageTimes(stepper.scheme)[1] = 0
      BY <2>1, SchemeStages, DtUnits
    <3> QED
      BY <2>1, <3>2, <3>3
  <2>3. (r * n + g) \div n = r
    <3> HIDE DEF n, g, r
    <3> QED
      BY <2>1
  <2>4. Restored(stepper) = stepper
    <3>1. Restored(stepper) = [stepper EXCEPT !.step = r]
      BY <2>1, <2>3 DEF Restored
    <3> QED
      BY <3>1 DEF IInv, StepperOK
  <2> QED
    BY <2>1, <2>2, <2>4 DEF CurrentState, IInv, SlotsOK
<1> QED
  BY <1>1, Invariance, PTL

(* The output files are those of the multiples of the frequency, and hold  *)
(* the states of the times of their numbers.                               *)
THEOREM OutputsAreComplete == Spec => []OutputComplete
<1>1. IInv => OutputComplete
  BY DEF IInv, WrittenOK, OutputComplete
<1> QED
  BY <1>1, Invariance, PTL

-----------------------------------------------------------------------------
(* The meteorological data in memory.                                      *)

(* What memory holds from the parse of step n to the next one.             *)
Loaded(f, n) == [k \in {StepStart(n, f), StepEnd(n, f)} |-> "file"]

(* A multiple of f that is smaller than f is 0.                            *)
LEMMA SmallMultiple ==
  ASSUME NEW d \in Int, NEW f \in Nat \ {0}, NEW r \in Int, -f < r, r < f, d * f = r
  PROVE  d = 0
<1>1. CASE d >= 1
  <2>1. d * f >= f
    BY <1>1
  <2> QED
    BY <2>1
<1>2. CASE d <= -1
  <2>1. d * f <= -f
    BY <1>2
  <2> QED
    BY <2>1
<1> QED
  BY <1>1, <1>2

(* Quotient and remainder.                                                 *)
LEMMA Division ==
  ASSUME NEW n \in Nat, NEW f \in Nat \ {0}
  PROVE  n % f \in Nat /\ n % f < f /\ n \div f \in Int /\ n = (n \div f) * f + (n % f)
OBVIOUS

(* The remainders of consecutive numbers.                                  *)
LEMMA ModStep ==
  ASSUME NEW n \in Nat \ {0}, NEW f \in Nat \ {0}
  PROVE  IF n % f = 0 THEN (n - 1) % f = f - 1 ELSE (n - 1) % f = (n % f) - 1
<1> DEFINE a == n \div f
           r == n % f
           b == (n - 1) \div f
           s == (n - 1) % f
<1>1. r \in Nat /\ r < f /\ a \in Int /\ n = a * f + r
  BY Division
<1>2. s \in Nat /\ s < f /\ b \in Int /\ n - 1 = b * f + s
  <2>1. n - 1 \in Nat
    OBVIOUS
  <2> QED
    BY <2>1, Division
<1> HIDE DEF a, r, b, s
<1>3. (a - b) * f = s - r + 1
  <2>1. (a - b) * f = a * f - b * f /\ a * f \in Int /\ b * f \in Int
    BY <1>1, <1>2
  <2> QED
    BY <1>1, <1>2, <2>1
<1>4. CASE r = 0
  <2>1. (a - b - 1) * f = s + 1 - f
    <3>1. (a - b - 1) * f = (a - b) * f - f
      BY <1>1, <1>2
    <3> QED
      BY <1>1, <1>2, <1>3, <1>4, <3>1
  <2>2. a - b - 1 = 0
    <3>1. -f < s + 1 - f /\ s + 1 - f < f /\ a - b - 1 \in Int /\ s + 1 - f \in Int
      BY <1>1, <1>2
    <3> QED
      BY <2>1, <3>1, SmallMultiple
  <2>3. s + 1 - f = 0
    BY <1>2, <2>1, <2>2
  <2> QED
    BY <1>2, <1>4, <2>3 DEF r, s
<1>5. CASE r # 0
  <2>1. -f < s - r + 1 /\ s - r + 1 < f /\ a - b \in Int /\ s - r + 1 \in Int
    BY <1>1, <1>2, <1>5
  <2>2. a - b = 0
    BY <1>3, <2>1, SmallMultiple
  <2>3. s - r + 1 = 0
    BY <1>2, <1>3, <2>2
  <2> QED
    BY <1>1, <1>2, <1>5, <2>3 DEF r, s
<1> QED
  BY <1>4, <1>5

(* The interval of a step contains it; the interval of the next step is    *)
(* the same one, or begins where it ended.                                 *)
LEMMA Intervals ==
  ASSUME NEW n \in Nat, NEW f \in Nat \ {0}
  PROVE  /\ StepStart(n, f) \in Int /\ StepStart(n, f) <= n /\ n < StepEnd(n, f)
         /\ StepEnd(n, f) = StepStart(n, f) + f
         /\ n % f = 0 => StepStart(n, f) = n
         /\ n # 0 => IF n % f = 0 THEN StepStart(n - 1, f) = n - f
                                  ELSE StepStart(n - 1, f) = StepStart(n, f)
<1>1. n % f \in Nat /\ n % f < f /\ StepStart(n, f) = n - (n % f) /\ StepEnd(n, f) = (n - (n % f)) + f
  BY Division DEF StepStart, StepEnd
<1>2. ASSUME n # 0
      PROVE  IF n % f = 0 THEN StepStart(n - 1, f) = n - f ELSE StepStart(n - 1, f) = StepStart(n, f)
  <2>1. StepStart(n - 1, f) = (n - 1) - ((n - 1) % f)
    BY DEF StepStart
  <2>2. IF n % f = 0 THEN (n - 1) % f = f - 1 ELSE (n - 1) % f = (n % f) - 1
    BY <1>2, ModStep
  <2>3. CASE n % f = 0
    BY <2>1, <2>2, <2>3
  <2>4. CASE n % f # 0
    <3> DEFINE r == n % f
    <3>1. r \in Nat /\ StepStart(n, f) = n - r /\ StepStart(n - 1, f) = (n - 1) - (r - 1)
      BY <1>1, <2>1, <2>2, <2>4
    <3> HIDE DEF r
    <3>2. StepStart(n - 1, f) = StepStart(n, f)
      BY <3>1
    <3> QED
      BY <2>4, <3>2
  <2> QED
    BY <2>3, <2>4
<1> DEFINE r == n % f
<1>3. r \in Nat /\ r < f /\ StepStart(n, f) = n - r /\ StepEnd(n, f) = (n - r) + f
  BY <1>1
<1>4. n % f = 0 => r = 0
  OBVIOUS
<1> HIDE DEF r
<1> QED
  BY <1>2, <1>3, <1>4

(* The first parse reads both data sets.                                   *)
LEMMA FirstParse ==
  ASSUME NEW f \in Nat \ {0}, NEW data, DOMAIN data = {}
  PROVE  ParseInput(data, f, 0, 0) = Loaded(f, 0)
<1>1. StepStart(0, f) = 0 /\ StepEnd(0, f) = f /\ 0 % f = 0 /\ 0 + f = f
  BY Intervals
<1>2. Opened(data, f, 0) = {0, f} /\ DOMAIN Kept(data, f, 0) = {}
  BY <1>1 DEF Opened, Kept
<1>3. ParseMeteoInput(data, f, 0) = [k \in {0, f} |-> "file"]
  BY <1>2 DEF ParseMeteoInput
<1>4. ParseInput(data, f, 0, 0) = InterpolateMeteoData(ParseMeteoInput(data, f, 0), f, 0)
  BY <1>1 DEF ParseInput, Parses
<1> QED
  BY <1>1, <1>3, <1>4 DEF InterpolateMeteoData, Loaded

(* Interpolation adds nothing to what is loaded.                           *)
LEMMA InterpolationFinds ==
  ASSUME NEW f, NEW n
  PROVE  InterpolateMeteoData(Loaded(f, n), f, n) = Loaded(f, n)
BY DEF InterpolateMeteoData, Loaded

(* Later stages of a step read nothing.                                    *)
LEMMA LaterStage ==
  ASSUME NEW f, NEW n, NEW g, g # 0
  PROVE  ParseInput(Loaded(f, n), f, n, g) = Loaded(f, n)
BY InterpolationFinds DEF ParseInput, Parses

(* The first stage of a step reads a data set where an interval begins,    *)
(* and drops the one before: no wrap of the difference is reached.         *)
LEMMA NextParse ==
  ASSUME NEW f \in Nat \ {0}, NEW n \in Nat \ {0}, n < UintRange
  PROVE  ParseInput(Loaded(f, n - 1), f, n, 0) = Loaded(f, n)
<1>1. CASE n % f = 0
  <2>1. /\ StepStart(n, f) = n /\ StepEnd(n, f) = n + f
        /\ StepStart(n - 1, f) = n - f /\ StepEnd(n - 1, f) = n
    <3>1. StepStart(n, f) = n /\ StepEnd(n, f) = StepStart(n, f) + f /\ StepStart(n - 1, f) = n - f
      BY <1>1, Intervals
    <3>2. StepEnd(n - 1, f) = StepStart(n - 1, f) + f
      BY DEF StepEnd
    <3> QED
      BY <3>1, <3>2
  <2>2. Previous(n, f) = n - f
    <3>1. f <= n
      <4>1. StepStart(n - 1, f) = (n - 1) - ((n - 1) % f) /\ (n - 1) % f = f - 1
        BY <1>1, ModStep DEF StepStart
      <4>2. (n - 1) \div f \in Int /\ n - 1 = ((n - 1) \div f) * f + ((n - 1) % f)
        BY Division
      <4> DEFINE b == (n - 1) \div f
      <4>3. b \in Int /\ n - 1 = b * f + (f - 1)
        BY <4>1, <4>2
      <4> HIDE DEF b
      <4>4. b >= 0
        <5>1. CASE b <= -1
          <6>1. b * f <= -f /\ b * f \in Int
            BY <4>3, <5>1
          <6> QED
            BY <4>3, <6>1
        <5> QED
          BY <4>3, <5>1
      <4>5. b * f >= 0
        BY <4>3, <4>4
      <4> QED
        BY <4>3, <4>5
    <3>2. n - f \in Nat /\ n - f < UintRange /\ UintRange \in Nat \ {0}
      BY <3>1, UintRangeAssumption
    <3> QED
      BY <3>2 DEF Previous
  <2>3. DOMAIN Kept(Loaded(f, n - 1), f, n) = {n}
    BY <2>1, <2>2 DEF Kept, Loaded
  <2>4. Opened(Loaded(f, n - 1), f, n) = {n + f}
    BY <2>3 DEF Opened
  <2>5. ParseMeteoInput(Loaded(f, n - 1), f, n) = [k \in {n, n + f} |-> "file"]
    BY <2>1, <2>3, <2>4 DEF ParseMeteoInput, Loaded
  <2>6. ParseMeteoInput(Loaded(f, n - 1), f, n) = Loaded(f, n)
    BY <2>1, <2>5 DEF Loaded
  <2> QED
    BY <1>1, <2>6, InterpolationFinds DEF ParseInput, Parses
<1>2. CASE n % f # 0
  <2>1. Loaded(f, n - 1) = Loaded(f, n)
    BY <1>2, Intervals DEF Loaded, StepEnd
  <2> QED
    BY <1>2, <2>1, InterpolationFinds DEF ParseInput, Parses
<1> QED
  BY <1>1, <1>2

(* The step whose data was parsed last, -1 before the first.               *)
LastParsed == IF at = "stage" \/ stepper.stage # 0 THEN stepper.step ELSE stepper.step - 1

(* Memory holds what that parse left.                                      *)
MeteoOK ==
  /\ meteo_parse_frequency \in MeteoFrequencies
  /\ meteo_parse_frequency # 0 /\ at \in {"launch", "parse", "stage", "output"} =>
       IF LastParsed = -1 THEN DOMAIN node_meteo_data_step = {}
       ELSE node_meteo_data_step = Loaded(meteo_parse_frequency, LastParsed)

(* Nothing is loaded before the first parse.                               *)
LEMMA InitMeteoOK == Init => MeteoOK
<1> SUFFICES ASSUME Init PROVE MeteoOK
  OBVIOUS
<1>1. stepper.step = 0 /\ stepper.stage = 0 /\ at = "launch"
  BY DEF Init, NewStepper
<1>2. LastParsed = -1
  BY <1>1 DEF LastParsed
<1>3. DOMAIN node_meteo_data_step = {}
  BY DEF Init
<1> QED
  BY <1>2, <1>3 DEF MeteoOK, Init

(* Every parse finds the data of the previous one.                         *)
LEMMA NextMeteoOK == IInv /\ MeteoOK /\ [Next]_vars => MeteoOK'
<1> SUFFICES ASSUME IInv, MeteoOK, [Next]_vars PROVE MeteoOK'
  OBVIOUS
<1> DEFINE f == meteo_parse_frequency
           n == stepper.step
           g == stepper.stage
<1>1. f \in Nat /\ n \in Nat /\ g \in Nat /\ stepper.nstages \in {1, 2, 3, 4} /\ g < stepper.nstages
  BY StepAssumption, SchemeStages DEF IInv, StepperOK, MeteoOK
<1>2. CASE Launch
  <2>1. at = "launch" /\ at' \in {"parse", "done"} /\ UNCHANGED <<stepper, node_meteo_data_step, meteo_parse_frequency>>
    BY <1>2 DEF Launch, inputVars
  <2>2. LastParsed' = LastParsed
    BY <2>1 DEF LastParsed
  <2> QED
    BY <2>1, <2>2 DEF MeteoOK
<1>3. CASE Parse
  <2>1. at = "parse" /\ UNCHANGED <<stepper, meteo_parse_frequency>>
    BY <1>3 DEF Parse, inputVars
  <2>2. CASE at' = "stage" /\ f # 0
    <3>1. node_meteo_data_step' = ParseInput(node_meteo_data_step, f, n, g)
      BY <1>3, <2>2 DEF Parse
    <3>2. LastParsed' = n /\ n # -1
      BY <1>1, <2>1, <2>2 DEF LastParsed
    <3>3. node_meteo_data_step' = Loaded(f, n)
      <4>1. CASE g # 0
        <5>1. LastParsed = n
          BY <4>1 DEF LastParsed
        <5>2. node_meteo_data_step = Loaded(f, n)
          BY <2>1, <2>2, <3>2, <5>1 DEF MeteoOK
        <5> QED
          BY <3>1, <4>1, <5>2, LaterStage
      <4>2. CASE g = 0 /\ n = 0
        <5>1. LastParsed = -1
          BY <2>1, <4>2 DEF LastParsed
        <5>2. DOMAIN node_meteo_data_step = {}
          BY <2>1, <2>2, <5>1 DEF MeteoOK
        <5> QED
          BY <1>1, <2>2, <3>1, <4>2, <5>2, FirstParse
      <4>3. CASE g = 0 /\ n # 0
        <5>1. LastParsed = n - 1
          BY <2>1, <4>3 DEF LastParsed
        <5>2. node_meteo_data_step = Loaded(f, n - 1)
          BY <1>1, <2>1, <2>2, <4>3, <5>1 DEF MeteoOK
        <5>3. n < UintRange
          <6>1. n = step /\ step < NumSteps
            BY <2>1 DEF IInv, LoopsOK
          <6> QED
            BY <1>1, <6>1, StepAssumption, UintRangeAssumption
        <5> HIDE DEF f, n, g
        <5> QED
          BY <1>1, <2>2, <3>1, <4>3, <5>2, <5>3, NextParse
      <4> QED
        BY <4>1, <4>2, <4>3
    <3> QED
      BY <2>1, <3>2, <3>3 DEF MeteoOK
  <2>3. CASE at' # "stage"
    <3>1. at' = "fatal"
      BY <1>3, <2>3 DEF Parse
    <3> QED
      BY <2>1, <3>1 DEF MeteoOK
  <2>4. CASE f = 0
    BY <2>1, <2>4 DEF MeteoOK
  <2> QED
    BY <2>2, <2>3, <2>4
<1>4. CASE Stage
  <2>1. /\ at = "stage" /\ UNCHANGED <<node_meteo_data_step, meteo_parse_frequency>>
        /\ at' \in {"parse", "output", "aborted"} /\ stepper' = Increment(stepper)
    BY <1>4 DEF Stage, inputVars
  <2>2. LastParsed = n
    BY <2>1 DEF LastParsed
  <2>3. IF g + 1 = stepper.nstages THEN stepper'.stage = 0 /\ stepper'.step = n + 1
                                   ELSE stepper'.stage = g + 1 /\ stepper'.step = n
    BY <2>1, StepperTicks DEF IInv
  <2>4. LastParsed' = n
    <3>1. at' # "stage"
      BY <2>1
    <3>2. CASE g + 1 = stepper.nstages
      BY <1>1, <2>3, <3>1, <3>2 DEF LastParsed
    <3>3. CASE g + 1 # stepper.nstages
      BY <1>1, <2>3, <3>1, <3>3 DEF LastParsed
    <3> QED
      BY <3>2, <3>3
  <2> QED
    BY <2>1, <2>2, <2>4 DEF MeteoOK
<1>5. CASE Output
  <2>1. /\ at = "output" /\ at' \in {"parse", "done"}
        /\ UNCHANGED <<stepper, node_meteo_data_step, meteo_parse_frequency>>
    BY <1>5 DEF Output, inputVars
  <2>2. LastParsed' = LastParsed
    BY <2>1 DEF LastParsed
  <2> QED
    BY <2>1, <2>2 DEF MeteoOK
<1>6. ASSUME UNCHANGED vars PROVE MeteoOK'
  BY <1>6 DEF vars, inputVars, MeteoOK, LastParsed
<1>7. CASE Terminated
  BY <1>6, <1>7 DEF Terminated
<1> QED
  BY <1>2, <1>3, <1>4, <1>5, <1>6, <1>7 DEF Next

(* For every parse frequency, length and number of steps and scheme, an    *)
(* interpolation finds the two data sets around its time, both read from   *)
(* files, and memory holds no others.                                      *)
THEOREM MeteoIsLoaded == Spec => []MeteoLoaded
<1>1. IInv /\ MeteoOK => MeteoLoaded
  <2> SUFFICES ASSUME IInv, MeteoOK, at = "stage", meteo_parse_frequency # 0
               PROVE  Interpolable(node_meteo_data_step, meteo_parse_frequency, stepper.step, Dt,
                                   GetTimeAtCurrentStage(stepper))
    BY DEF MeteoLoaded
  <2> DEFINE f == meteo_parse_frequency
             n == stepper.step
             a == StepStart(n, f)
             b == StepEnd(n, f)
  <2>1. f \in Nat \ {0} /\ n \in Nat /\ Dt \in Nat
    BY StepAssumption DEF IInv, StepperOK, MeteoOK
  <2>2. node_meteo_data_step = Loaded(f, n)
    <3>1. LastParsed = n /\ n # -1
      BY <2>1 DEF LastParsed
    <3> QED
      BY <3>1 DEF MeteoOK
  <2>3. GetTimeAtCurrentStage(stepper) = n * Dt
    <3>1. Drk(stepper.scheme)[stepper.stage] = 0
      <4>1. stepper.scheme \in Schemes /\ stepper.stage \in 0 .. stepper.scheme[1] - 1
        BY SchemeStages DEF IInv, StepperOK
      <4> QED
        BY <4>1, StagesAtStep
    <3>2. stepper.t = n * Dt /\ stepper.t \in Nat /\ stepper.dt = Dt /\ Dt * 0 = 0 /\ 0 \div Den = 0
      BY <2>1 DEF IInv, StepperOK, Den
    <3>3. GetTimeAtCurrentStage(stepper) = stepper.t + 0
      BY <3>1, <3>2 DEF GetTimeAtCurrentStage
    <3> QED
      BY <3>2, <3>3
  <2>4. a \in Int /\ a <= n /\ n < b /\ b \in Int
    BY <2>1, Intervals
  <2>5. a * Dt <= n * Dt /\ n * Dt <= b * Dt
    <3> HIDE DEF a, b, n
    <3>1. \A x, y \in Int : x <= y => x * Dt <= y * Dt
      BY <2>1
    <3> QED
      BY <2>1, <2>4, <3>1
  <2>6. DOMAIN node_meteo_data_step = {a, b} /\ node_meteo_data_step[a] = "file" /\ node_meteo_data_step[b] = "file"
    BY <2>2 DEF Loaded
  <2> QED
    BY <2>3, <2>5, <2>6 DEF Interpolable
<1>2. Init => IInv /\ MeteoOK
  BY InitIInv, InitMeteoOK
<1>3. (IInv /\ MeteoOK) /\ [Next]_vars => (IInv /\ MeteoOK)'
  BY NextIInv, NextMeteoOK
<1> QED
  BY <1>1, <1>2, <1>3, PTL DEF Spec
=============================================================================
