------------------------------ MODULE GnSerial ------------------------------
(* Serial::Simulation::Run with the Green-Naghdi problem: a time step is   *)
(* half a step of the shallow water equations, a step of the dispersive    *)
(* correction and again half a step, driven by one SecondStrangStepper.    *)
EXTENDS ESSPRKStepper, MeteoParser, FiniteSets

CONSTANTS
  Dt,                \* length of a time step, a multiple of 2 * Den
  NumSteps,          \* number of time steps of a run
  MeteoFrequencies   \* parse frequencies, in steps; 0 is no parsing

ASSUME StepAssumption == Dt \in Nat /\ Dt % (2 * Den) = 0 /\ NumSteps \in Nat

VARIABLES
  at, step, loop,
  half,        \* loop of step_serial: 1 and 3 shallow water, 2 correction
  first, second, done_first, done_second, current,   \* SecondStrangStepper
  q,           \* state slots of an element, shared by both parts
  executed,    \* stages executed, of both steppers
  node_meteo_data_step, meteo_parse_frequency

stepperVars == <<first, second, done_first, done_second, current>>
vars == <<at, step, loop, half, stepperVars, q, executed,
          node_meteo_data_step, meteo_parse_frequency>>

-----------------------------------------------------------------------------
(* The stepper current points to.                                          *)
Current == IF current = "first" THEN first ELSE second

(* The stepper UpdateState uses, chosen by the flags.                      *)
Updating == IF done_first /\ ~done_second THEN second ELSE first

(* A scheme and a parse frequency; SetDT halves the step of first.         *)
Init ==
  /\ at = "launch" /\ step = 0 /\ loop = 0 /\ half = 1
  /\ \E m \in Schemes : first = NewStepper(m, Dt \div 2) /\ second = NewStepper(m, Dt)
  /\ done_first = FALSE /\ done_second = FALSE /\ current = "first"
  /\ q = NewSlots(first, {"swe", "dispersive"})
  /\ executed = 0
  /\ node_meteo_data_step = <<>>
  /\ meteo_parse_frequency \in MeteoFrequencies

(* Mutant: the flags are not cleared after the second half step.           *)
Switch_NoReset ==
  IF ~done_first THEN done_first' = TRUE /\ done_second' = FALSE /\ current' = "second"
  ELSE done_first' = TRUE /\ done_second' = TRUE /\ current' = "first"

(* operator++ of the SecondStrangStepper, when a sub-stepper ends its step *)
Switch ==
  \/ /\ ~done_first /\ ~done_second
     /\ done_first' = TRUE /\ current' = "second" /\ UNCHANGED done_second
  \/ /\ done_first /\ ~done_second
     /\ done_second' = TRUE /\ current' = "first" /\ UNCHANGED done_first
  \/ /\ done_first /\ done_second
     /\ done_first' = FALSE /\ done_second' = FALSE /\ current' = "first"

IncrementCurrent ==
  /\ first' = IF current = "first" THEN Increment(first) ELSE first
  /\ second' = IF current = "second" THEN Increment(second) ELSE second
  /\ IF Increment(Current).stage = 0 THEN Switch
     ELSE UNCHANGED <<done_first, done_second, current>>

Launch ==
  /\ at = "launch"
  /\ at' = IF step < NumSteps THEN "parse" ELSE "done"
  /\ UNCHANGED <<step, loop, half, stepperVars, q, executed,
                 node_meteo_data_step, meteo_parse_frequency>>

(* ParseInput with the stepper of the current half (all files are there).  *)
Parse ==
  /\ at = "parse"
  /\ at' = "stage"
  /\ node_meteo_data_step' =
       IF meteo_parse_frequency = 0 THEN node_meteo_data_step
       ELSE ParseInput(node_meteo_data_step, meteo_parse_frequency, Current.step, Current.stage)
  /\ UNCHANGED <<step, loop, half, stepperVars, q, executed, meteo_parse_frequency>>

(* One iteration of a loop of step_serial: stage_serial of the shallow     *)
(* water equations or dispersive_correction_serial, then ++stepper.  The   *)
(* loop bound is asked of the stepper that is current after it.            *)
Stage ==
  /\ at = "stage"
  /\ q' = UpdateState(Updating, q, IF half = 2 THEN "dispersive" ELSE "swe")
  /\ executed' = executed + 1
  /\ IncrementCurrent
  /\ LET more == loop + 1 < Current'.nstages
     IN  \/ /\ loop' = IF more THEN loop + 1 ELSE 0
            /\ half' = IF more \/ half = 3 THEN half ELSE half + 1
            /\ at' = IF more \/ half # 3 THEN "parse" ELSE "output"
         \/ at' = "aborted" /\ half # 2 /\ UNCHANGED <<loop, half>>
  /\ UNCHANGED <<step, node_meteo_data_step, meteo_parse_frequency>>

(* WriteOutput changes no state; the next time step begins.                *)
Output ==
  /\ at = "output"
  /\ step' = step + 1
  /\ half' = 1
  /\ at' = IF step + 1 < NumSteps THEN "parse" ELSE "done"
  /\ UNCHANGED <<loop, stepperVars, q, executed, node_meteo_data_step,
                 meteo_parse_frequency>>

Terminated == at \in {"done", "aborted"} /\ UNCHANGED vars

Next == Launch \/ Parse \/ Stage \/ Output \/ Terminated

Spec == Init /\ [][Next]_vars

-----------------------------------------------------------------------------
(* The loops of step_serial and the flags of the stepper agree without     *)
(* telling each other: every half is advanced by its own stepper, which the*)
(* flags and the pointer name alike, and at the end of a time step both    *)
(* parts have advanced the one state they share by exactly dt.             *)
SplitInStep ==
  /\ at \in {"parse", "stage"} =>
       /\ current = IF half = 2 THEN "second" ELSE "first"
       /\ Updating = Current
       /\ loop = Current.stage
  /\ q[Current.stage].updates = executed
  /\ at \in {"output", "done"} =>
       /\ q[0].clock["swe"] = first.t /\ q[0].clock["dispersive"] = second.t
       /\ first.t = second.t /\ first.step = 2 * second.step

(* What reading the data sets relies on, as in RkdgSerial: a data set that *)
(* is not there is a fatal error, never an empty one (swe_parser.hpp:113). *)
MeteoLoaded ==
  at = "stage" /\ meteo_parse_frequency # 0 =>
    LET n == Current.step
    IN  /\ node_meteo_data_step[StepStart(n, meteo_parse_frequency)] = "file"
        /\ node_meteo_data_step[StepEnd(n, meteo_parse_frequency)] = "file"
=============================================================================
