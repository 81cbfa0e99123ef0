---------------------------- MODULE ESSPRKStepper ----------------------------
(* ESSPRKStepper: the strong stability preserving Runge-Kutta time stepper,*)
(* its coefficients, clock and update of the state slots of an element.    *)
(* Coefficients are integers in units of 1/Den.  Time is an integer too,   *)
(* and the state of an element is reduced to the number of updates it took *)
(* and the solutions of y' = 1: for every part of the equations, the time  *)
(* the state has been advanced to by that part.                            *)
EXTENDS Integers

(* The schemes modelled, as <<nstages, order>>, of the twelve in the code*)
Schemes == {<<1, 1>>, <<2, 2>>, <<3, 3>>, <<4, 3>>}

(* Denominator of the coefficients.                                        *)
Den == 12

(* ark[stage][s]: weight of the state of stage s in the next state.        *)
Ark(m) ==
  CASE m = <<1, 1>> -> << <<12>> >>
    [] m = <<2, 2>> -> << <<12>>, <<6, 6>> >>
    [] m = <<3, 3>> -> << <<12>>, <<9, 3>>, <<4, 0, 8>> >>
    [] m = <<4, 3>> -> << <<12>>, <<0, 12>>, <<8, 0, 4>>, <<0, 0, 0, 12>> >>

(* brk[stage][s]: weight of the rate of stage s, all on the diagonal.      *)
BrkDiagonal(m) ==
  CASE m = <<1, 1>> -> <<12>>
    [] m = <<2, 2>> -> <<12, 6>>
    [] m = <<3, 3>> -> <<12, 3, 8>>
    [] m = <<4, 3>> -> <<6, 6, 2, 6>>
Brk(m, stage, s) == IF s = stage THEN BrkDiagonal(m)[stage + 1] ELSE 0

(* crk[i][k], filled row by row for k < i; the diagonal keeps its zero.    *)
(* The rows between k and i are 1 and 2 at most.                           *)
Crk(m) ==
  LET crk[i \in 0 .. m[1] - 1] ==
        [k \in 0 .. i |->
           LET Through(l) == IF k < l /\ l < i THEN crk[l][k] * Ark(m)[i + 1][l + 1] ELSE 0
           IN  IF k = i THEN 0
               ELSE Brk(m, i, k) + (Through(1) + Through(2)) \div Den]
  IN  crk

(* drk[k]: the time of stage k within the step, in units of dt / Den, the  *)
(* sum of a row of crk.                                                    *)
Drk(m) ==
  [k \in 0 .. m[1] - 1 |->
     LET Entry(l) == IF l < k THEN Crk(m)[k - 1][l] ELSE 0
     IN  Entry(0) + Entry(1) + Entry(2)]

(* A stepper before its first stage.                                       *)
NewStepper(m, dt) ==
  [scheme |-> m, nstages |-> m[1], dt |-> dt, step |-> 0, stage |-> 0, timestamp |-> 0, t |-> 0]

GetTimeAtCurrentStage(s) == s.t + (s.dt * Drk(s.scheme)[s.stage]) \div Den

(* operator++                                                              *)
Increment(s) ==
  LET stage == (s.stage + 1) % s.nstages
  IN  [s EXCEPT !.stage = stage, !.timestamp = @ + 1,
                !.t = IF stage = 0 THEN @ + s.dt ELSE @,
                !.step = IF stage = 0 THEN @ + 1 ELSE @]

(* save and load: the step number is not archived but recomputed.          *)
Restored(s) == [s EXCEPT !.step = s.timestamp \div s.nstages]

(* The slots of an element before the first stage.                         *)
NewSlots(s, parts) == [i \in 0 .. s.nstages |-> [updates |-> 0, clock |-> [p \in parts |-> 0]]]

(* The weighted sum over the slots up to the stage, of which there are four*)
(* at most, with the rates of one part.                                    *)
NextState(s, q, part) ==
  LET Term(i, p) ==
        IF i > s.stage THEN 0
        ELSE Ark(s.scheme)[s.stage + 1][i + 1] * q[i].clock[p]
             + IF p = part THEN s.dt * Brk(s.scheme, s.stage, i) ELSE 0
  IN  [updates |-> q[s.stage].updates + 1,
       clock |-> [p \in DOMAIN q[0].clock |->
                    (Term(0, p) + Term(1, p) + Term(2, p) + Term(3, p)) \div Den]]

(* Mutant: the new state stays in the last slot.                           *)
UpdateState_NoSwap(s, q, part) == [q EXCEPT ![s.stage + 1] = NextState(s, q, part)]

(* UpdateState of an element with slots q, whose rates are those of a part;*)
(* the last stage swaps the new state into slot 0.                         *)
UpdateState(s, q, part) ==
  IF s.stage + 1 = s.nstages
  THEN [q EXCEPT ![s.nstages] = q[0], ![0] = NextState(s, q, part)]
  ELSE [q EXCEPT ![s.stage + 1] = NextState(s, q, part)]
=============================================================================
