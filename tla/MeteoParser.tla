---------------------------- MODULE MeteoParser ----------------------------
(* SWE::Parser: the meteorological data sets kept in memory, by the number *)
(* of the time step they belong to.  A data set is "file" when it was read *)
(* from a file and "empty" when operator[] of std::map created it.         *)
EXTENDS Integers

CONSTANT UintRange   \* number of values of a uint

ASSUME UintRangeAssumption == UintRange \in Nat \ {0}

(* The data set before this one, in unsigned arithmetic.                   *)
Previous(n, frequency) == (n - frequency) % UintRange

(* Mutant: the data set that ended is the one of this step.                *)
Kept_Wrong(data, frequency, n) ==
  [k \in DOMAIN data \ {n} |-> data[k]]

(* What ParseMeteoInput keeps at step n.                                   *)
Kept(data, frequency, n) ==
  [k \in DOMAIN data \ {Previous(n, frequency)} |-> data[k]]

(* The files ParseMeteoInput opens; one that is missing is fatal.          *)
Opened(data, frequency, n) ==
  {n, n + frequency} \ DOMAIN Kept(data, frequency, n)

ParseMeteoInput(data, frequency, n) ==
  LET opened == Opened(data, frequency, n)
  IN  [k \in DOMAIN Kept(data, frequency, n) \cup opened |->
         IF k \in opened THEN "file" ELSE data[k]]

StepStart(n, frequency) == n - (n % frequency)
StepEnd(n, frequency) == StepStart(n, frequency) + frequency

(* InterpolateMeteoData creates the data sets it does not find.            *)
InterpolateMeteoData(data, frequency, n) ==
  [k \in DOMAIN data \cup {StepStart(n, frequency), StepEnd(n, frequency)} |->
     IF k \in DOMAIN data THEN data[k] ELSE "empty"]

(* ParseInput at step n and stage; Files are the data files on disk.       *)
Parses(frequency, n, stage) == n % frequency = 0 /\ stage = 0

MissingFile(data, frequency, n, stage, files) ==
  Parses(frequency, n, stage) /\ ~(Opened(data, frequency, n) \subseteq files)

ParseInput(data, frequency, n, stage) ==
  InterpolateMeteoData(IF Parses(frequency, n, stage)
                       THEN ParseMeteoInput(data, frequency, n) ELSE data, frequency, n)

(* What an interpolation at step n and time t relies on: both data sets    *)
(* are read from files, t is between them, and no others are kept.         *)
Interpolable(data, frequency, n, dt, t) ==
  LET start == StepStart(n, frequency)  end == StepEnd(n, frequency)
  IN  /\ data[start] = "file" /\ data[end] = "file"
      /\ start * dt <= t /\ t <= end * dt
      /\ DOMAIN data = {start, end}
=============================================================================
