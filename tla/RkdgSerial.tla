----------------------------- MODULE RkdgSerial -----------------------------
(* Serial::Simulation::Run with RKDG or EHDG shallow water: the loops over *)
(* time steps and stages, the stepper, the state slots of the elements     *)
(* (one element stands for all, they are updated in one loop), the parser  *)
(* of meteorological data and the output of every few steps.               *)
EXTENDS ESSPRKStepper, MeteoParser, FiniteSets

CONSTANTS
  Dt,                 \* length of a time step, a multiple of 2 * Den
  NumSteps,           \* number of time steps of a run
  MeteoFrequencies,   \* parse frequencies, in steps; 0 is no parsing
  OutputFrequencies   \* output frequencies, in steps

ASSUME StepAssumption ==
  /\ Dt \in Nat /\ Dt % (2 * Den) = 0
  /\ NumSteps \in Nat /\ NumSteps < UintRange   \* uint n_steps
  /\ MeteoFrequencies \subseteq Nat /\ OutputFrequencies \subseteq Nat \ {0}

VARIABLES
  at,        \* next call of Run or step_serial
  step,      \* finished time steps (loop of Run)
  loop,      \* stages done in the loop of step_serial
  stepper,   \* the ESSPRKStepper
  q,         \* state slots of an element
  node_meteo_data_step, meteo_parse_frequency, files,
  output_frequency,
  written    \* output files: <<step number of the name, state written>>

inputVars == <<meteo_parse_frequency, files, output_frequency>>
vars == <<at, step, loop, stepper, q, node_meteo_data_step, inputVars, written>>

-----------------------------------------------------------------------------
(* A scheme, frequencies and data files, of which one may be missing.      *)
Init ==
  /\ at = "launch" /\ step = 0 /\ loop = 0
  /\ \E m \in Schemes : stepper = NewStepper(m, Dt)
  /\ q = NewSlots(stepper, {"swe"})
  /\ node_meteo_data_step = <<>>
  /\ meteo_parse_frequency \in MeteoFrequencies
  /\ output_frequency \in OutputFrequencies
  /\ \E missing \in 0 .. NumSteps + 1 :
       files = {i * meteo_parse_frequency : i \in (0 .. NumSteps + 1) \ {missing}}
  /\ written = {}

(* Mutant: the state of the last stage's slot is written.                  *)
WriteOutput_LastSlot ==
  written' = IF stepper.step % output_frequency = 0
             THEN written \cup {<<stepper.step, q[stepper.nstages]>>} ELSE written

(* Writer::WriteOutput, which reads state[0].                              *)
WriteOutput ==
  written' = IF stepper.step % output_frequency = 0
             THEN written \cup {<<stepper.step, q[0]>>} ELSE written

(* WriteFirstStep before the loop of Run.                                  *)
Launch ==
  /\ at = "launch"
  /\ WriteOutput
  /\ at' = IF step < NumSteps THEN "parse" ELSE "done"
  /\ UNCHANGED <<step, loop, stepper, q, node_meteo_data_step, inputVars>>

(* ParseInput; a missing file is a fatal error.                            *)
Parse ==
  /\ at = "parse"
  /\ \/ meteo_parse_frequency = 0 /\ at' = "stage" /\ UNCHANGED node_meteo_data_step
     \/ /\ meteo_parse_frequency # 0
        /\ MissingFile(node_meteo_data_step, meteo_parse_frequency, stepper.step, stepper.stage, files)
        /\ at' = "fatal" /\ UNCHANGED node_meteo_data_step
     \/ /\ meteo_parse_frequency # 0
        /\ ~MissingFile(node_meteo_data_step, meteo_parse_frequency, stepper.step, stepper.stage, files)
        /\ at' = "stage"
        /\ node_meteo_data_step' = ParseInput(node_meteo_data_step, meteo_parse_frequency,
                                              stepper.step, stepper.stage)
  /\ UNCHANGED <<step, loop, stepper, q, inputVars, written>>

(* stage_serial: kernels, UpdateState of all elements, ++stepper, post-    *)
(* processing of the new state, abort at a NaN.                            *)
Stage ==
  /\ at = "stage"
  /\ q' = UpdateState(stepper, q, "swe")
  /\ stepper' = Increment(stepper)
  /\ loop' = loop + 1
  /\ at' \in {IF loop + 1 < stepper.nstages THEN "parse" ELSE "output", "aborted"}
  /\ UNCHANGED <<step, node_meteo_data_step, inputVars, written>>

(* The end of step_serial and of the iteration of Run.                     *)
Output ==
  /\ at = "output"
  /\ WriteOutput
  /\ step' = step + 1
  /\ loop' = 0
  /\ at' = IF step + 1 < NumSteps THEN "parse" ELSE "done"
  /\ UNCHANGED <<stepper, q, node_meteo_data_step, inputVars>>

Terminated == at \in {"done", "fatal", "aborted"} /\ UNCHANGED vars

Next == Launch \/ Parse \/ Stage \/ Output \/ Terminated

Spec == Init /\ [][Next]_vars

-----------------------------------------------------------------------------
(* The slot of the current stage holds the newest state (what kernels, wet-*)
(* ting and drying and the limiter read after ++stepper), a completed step *)
(* has advanced it by exactly dt for every scheme, and the step number is  *)
(* the one a stepper restored by load() would have.                        *)
CurrentState ==
  /\ q[stepper.stage].updates = stepper.timestamp
  /\ stepper.stage = 0 => q[0].clock["swe"] = stepper.t
  /\ stepper.t = stepper.step * Dt
  /\ Restored(stepper) = stepper

(* Every interpolation of meteorological data finds the two data sets      *)
(* around the current time, however steps, stages, loads and erasures      *)
(* interleave, and memory holds no others.                                 *)
MeteoLoaded ==
  at = "stage" /\ meteo_parse_frequency # 0 =>
    Interpolable(node_meteo_data_step, meteo_parse_frequency, stepper.step, Dt,
                 GetTimeAtCurrentStage(stepper))

(* Output files are written for all multiples of the frequency, and hold   *)
(* the state at the time of their number.                                  *)
OutputComplete ==
  /\ \A w \in written : w[2].updates = w[1] * stepper.nstages /\ w[2].clock["swe"] = w[1] * Dt
  /\ at \in {"parse", "done"} /\ loop = 0 =>
       {w[1] : w \in written} = {n \in 0 .. step : n % output_frequency = 0}

(* "Get the simulated time at the current step and stage"                  *)
(* (general_definitions.hpp:260): the time the state of the stage is at.   *)
StageTime == GetTimeAtCurrentStage(stepper) = q[stepper.stage].clock["swe"]
=============================================================================
