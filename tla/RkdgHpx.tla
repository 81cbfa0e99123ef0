-------------------------------- MODULE RkdgHpx --------------------------------
(***************************************************************************)
(* The RKDG shallow-water solver on HPX: HPXSimulation::Run chains the     *)
(* futures of every submesh - Preprocessor, Launch, then one Step per time *)
(* step - and Step chains its stages.  There is no barrier: a submesh runs *)
(* as soon as its own chain and the messages it waits for allow.           *)
(*                                                                         *)
(* at[u] is the next continuation of u's chain.  An exception ends a chain *)
(* (every continuation calls f.get() first), except that of Preprocessor,  *)
(* which the Launch continuation ignores.                                  *)
(***************************************************************************)
EXTENDS HpxCommunicator

CONSTANTS
  NumStages,       \* Runge-Kutta stages of a time step
  NumSteps,        \* time steps to run
  WettingDrying,   \* SWE::PostProcessing::wetting_drying
  SlopeLimiting,   \* SWE::PostProcessing::slope_limiting
  MayBlowUp,       \* the solution may become NaN (scrutinize_solution)
  MayThrow         \* an input file may be missing (manning or meteo data)

ASSUME RkdgHpxAssumption ==
  /\ NumStages \in Nat \ {0}
  /\ NumSteps \in Nat \ {0}
  /\ {WettingDrying, SlopeLimiting, MayBlowUp, MayThrow} \subseteq BOOLEAN
  /\ CommTypes = {"baryctr_coord", "bound_state", "baryctr_state"}
  /\ CommIndex["baryctr_coord"] = 0 /\ CommIndex["bound_state"] = 1
  /\ CommIndex["baryctr_state"] = 2
  /\ UintRange > 4

VARIABLES
  at,                   \* the next continuation of u's chain
  timestamp,            \* stages completed: stepper.GetTimestamp()
  baryctr_coord_neigh,  \* per rank boundary: the neighbour coordinates stored
  q_ex,                 \* per rank boundary: exterior state of the last flux
  q_at_baryctr_neigh,   \* per rank boundary: averages the limiter stored
  threw,                \* an exception was thrown in u's chain
  terminated            \* hpx::terminate was called

rkdgVars == <<at, timestamp, baryctr_coord_neigh, q_ex, q_at_baryctr_neigh, threw, terminated>>
vars == <<commVars, rkdgVars>>

-----------------------------------------------------------------------------
Init ==
  /\ CommInit
  /\ at = [u \in Unit |-> "preprocessor"]
  /\ timestamp = [u \in Unit |-> 0]
  /\ baryctr_coord_neigh = [rb \in RankBoundaries |-> Written(rb[2], rb[1], "baryctr_coord", -1)]
  /\ q_ex = [rb \in RankBoundaries |-> Written(rb[2], rb[1], "bound_state", -1)]
  /\ q_at_baryctr_neigh = [rb \in RankBoundaries |-> Written(rb[2], rb[1], "baryctr_state", -1)]
  /\ threw = [u \in Unit |-> FALSE]
  /\ terminated = FALSE

Goto(u, loc) == ~terminated /\ at' = [at EXCEPT ![u] = loc]
Throw(u, loc) == Goto(u, loc) /\ threw' = [threw EXCEPT ![u] = TRUE]

(* A continuation that exchanges nothing.                                  *)
Local(u, from, to) ==
  /\ at[u] = from
  /\ Goto(u, to)
  /\ UNCHANGED <<timestamp, baryctr_coord_neigh, q_ex, q_at_baryctr_neigh, threw, terminated>>
  /\ UNCHANGED commVars

(* preprocessor_hpx up to its continuation.  Missing manning data makes    *)
(* initialize_data_serial throw before anything is sent or received; the   *)
(* continuation that launches the submesh runs nevertheless.               *)
Preprocessor(u) ==
  \/ /\ at[u] = "preprocessor"
     /\ SendAll(u, "baryctr_coord", timestamp[u], timestamp[u])
     /\ ReceiveAll(u, "baryctr_coord", timestamp[u])
     /\ Goto(u, "post_receive")
     /\ UNCHANGED <<receive_buffer, timestamp, baryctr_coord_neigh, q_ex,
                    q_at_baryctr_neigh, threw, terminated>>
  \/ /\ MayThrow
     /\ at[u] = "preprocessor"
     /\ Throw(u, "launch")
     /\ UNCHANGED <<timestamp, baryctr_coord_neigh, q_ex, q_at_baryctr_neigh, terminated>>
     /\ UNCHANGED commVars

PostReceive(u) ==
  /\ at[u] = "post_receive"
  /\ Received(u, "baryctr_coord")
  /\ baryctr_coord_neigh' = Taken(baryctr_coord_neigh, u, "baryctr_coord")
  /\ Goto(u, "launch")
  /\ UNCHANGED <<timestamp, q_ex, q_at_baryctr_neigh, threw, terminated>>
  /\ UNCHANGED commVars

Launch(u) == Local(u, "launch", "stage")

(* ParseInput, then stage_hpx up to its first continuation: the gets, the  *)
(* message, the work before the receive.  Missing meteo data makes         *)
(* ParseInput throw, and no later continuation of the chain runs.          *)
Stage(u) ==
  \/ /\ at[u] = "stage"
     /\ ReceiveAll(u, "bound_state", timestamp[u])
     /\ SendAll(u, "bound_state", timestamp[u], timestamp[u])
     /\ Goto(u, "receive")
     /\ UNCHANGED <<receive_buffer, timestamp, baryctr_coord_neigh, q_ex,
                    q_at_baryctr_neigh, threw, terminated>>
  \/ /\ MayThrow
     /\ at[u] = "stage"
     /\ Throw(u, "exceptional")
     /\ UNCHANGED <<timestamp, baryctr_coord_neigh, q_ex, q_at_baryctr_neigh, terminated>>
     /\ UNCHANGED commVars

AfterWetDry == IF SlopeLimiting THEN "limiter" ELSE "scrutinize"
AfterReceive == IF WettingDrying THEN "wet_dry" ELSE AfterWetDry

(* Continuation of the receive future: fluxes over distributed faces,      *)
(* UpdateState, ++stepper.                                                 *)
Receive(u) ==
  /\ at[u] = "receive"
  /\ Received(u, "bound_state")
  /\ q_ex' = Taken(q_ex, u, "bound_state")
  /\ timestamp' = [timestamp EXCEPT ![u] = @ + 1]
  /\ Goto(u, AfterReceive)
  /\ UNCHANGED <<baryctr_coord_neigh, q_at_baryctr_neigh, threw, terminated>>
  /\ UNCHANGED commVars

WetDry(u) == Local(u, "wet_dry", AfterWetDry)

(* Mutant: the gets of the limiter are forgotten.                          *)
Limiter_NoReceive(u) ==
  /\ at[u] = "limiter"
  /\ SendAll(u, "baryctr_state", timestamp[u], timestamp[u])
  /\ Goto(u, "sl_receive")
  /\ UNCHANGED <<receive_buffer, pending, timestamp, baryctr_coord_neigh, q_ex,
                 q_at_baryctr_neigh, threw, terminated>>

(* Mutant: the gets name the stage before ++stepper, the messages the one  *)
(* after it.                                                               *)
Limiter_OldTimestamp(u) ==
  /\ at[u] = "limiter"
  /\ ReceiveAll(u, "baryctr_state", timestamp[u] - 1)
  /\ SendAll(u, "baryctr_state", timestamp[u], timestamp[u])
  /\ Goto(u, "sl_receive")
  /\ UNCHANGED <<receive_buffer, timestamp, baryctr_coord_neigh, q_ex,
                 q_at_baryctr_neigh, threw, terminated>>

(* CS_slope_limiter_hpx; the stepper is already incremented.               *)
Limiter(u) ==
  /\ at[u] = "limiter"
  /\ ReceiveAll(u, "baryctr_state", timestamp[u])
  /\ SendAll(u, "baryctr_state", timestamp[u], timestamp[u])
  /\ Goto(u, "sl_receive")
  /\ UNCHANGED <<receive_buffer, timestamp, baryctr_coord_neigh, q_ex,
                 q_at_baryctr_neigh, threw, terminated>>

SlReceive(u) ==
  /\ at[u] = "sl_receive"
  /\ Received(u, "baryctr_state")
  /\ q_at_baryctr_neigh' = Taken(q_at_baryctr_neigh, u, "baryctr_state")
  /\ Goto(u, "scrutinize")
  /\ UNCHANGED <<timestamp, baryctr_coord_neigh, q_ex, threw, terminated>>
  /\ UNCHANGED commVars

AfterStage(u) == IF timestamp[u] % NumStages = 0 THEN "output" ELSE "stage"

(* A NaN terminates all localities.                                        *)
Scrutinize(u) ==
  \/ Local(u, "scrutinize", AfterStage(u))
  \/ /\ MayBlowUp /\ ~terminated
     /\ at[u] = "scrutinize"
     /\ terminated' = TRUE
     /\ UNCHANGED <<at, timestamp, baryctr_coord_neigh, q_ex, q_at_baryctr_neigh, threw>>
     /\ UNCHANGED commVars

(* The last continuation of Step, followed by the next Step of the chain.  *)
Output(u) ==
  Local(u, "output", IF timestamp[u] = NumSteps * NumStages THEN "done" ELSE "stage")

-----------------------------------------------------------------------------
UnitStep(u) ==
  \/ Preprocessor(u) \/ PostReceive(u) \/ Launch(u) \/ Stage(u) \/ Receive(u)
  \/ WetDry(u) \/ Limiter(u) \/ SlReceive(u) \/ Scrutinize(u) \/ Output(u)

Message == ~terminated /\ (\E p \in pending : Arrive(p)) /\ UNCHANGED rkdgVars

(* HPXSimulation::Run is finished when all chains are: when_all.           *)
Finished == terminated \/ \A u \in Unit : at[u] \in {"done", "exceptional"}
Stopped == Finished /\ UNCHANGED vars

(* The neighbours of a submesh that threw wait for messages that never     *)
(* come: a run with MayThrow may hang.                                     *)
Next == (\E u \in Unit : UnitStep(u)) \/ Message \/ Stopped

Spec == Init /\ [][Next]_vars

(* While a continuation is ready or a value on its way, HPX goes on.       *)
FairSpec == Spec /\ WF_vars((\E u \in Unit : UnitStep(u)) \/ Message)

-----------------------------------------------------------------------------
SinceLimited(ts) == IF ts > 0 THEN ts ELSE -1    \* the limiter first runs at 1

LimiterPending == {"wet_dry", "limiter", "sl_receive"}

(* Every flux over a distributed face and every limited slope is computed  *)
(* from the neighbour's data of the same stage, although nothing orders    *)
(* the messages and submeshes that threw drop out of the exchange.         *)
FreshData ==
  \A rb \in RankBoundaries :
    LET u == rb[1]  v == rb[2]
    IN  /\ at[u] \notin {"preprocessor", "post_receive"} /\ ~threw[u] =>
             baryctr_coord_neigh[rb] = Written(v, u, "baryctr_coord", 0)
        /\ q_ex[rb] = Written(v, u, "bound_state", timestamp[u] - 1)
        /\ SlopeLimiting =>
             q_at_baryctr_neigh[rb] = Written(v, u, "baryctr_state",
               SinceLimited(IF at[u] \in LimiterPending THEN timestamp[u] - 1 ELSE timestamp[u]))

(* A generation is never set while an earlier message of that number waits *)
(* in the channel, even when the unsigned generation number wraps around.  *)
NoChannelError == ~channel_error

(* At most two messages wait in a channel, however long the run.           *)
ChannelBound == \A rb \in RankBoundaries : Cardinality(channel[rb]) <= 2

(* Every run ends, or is hung by an exception: a submesh that throws leaves*)
(* its neighbours waiting for messages that never come.                    *)
Failed == \E u \in Unit : threw[u]
Termination == <>(Finished \/ Failed)

(* A submesh whose chain threw an exception computes no further stage (the *)
(* continuations "check for exceptions", simulation_hpx.hpp:101).          *)
NoStageAfterException ==
  [][\A u \in Unit : threw[u] => timestamp'[u] = timestamp[u]]_vars

-----------------------------------------------------------------------------
(* The rounds of NeighbourSync, as for the MPI program.                    *)
PerStage == IF SlopeLimiting THEN 2 ELSE 1

ConsumedRounds(u) ==
  IF at[u] \in {"preprocessor", "post_receive"} THEN 0
  ELSE 1 + PerStage * timestamp[u]
         - (IF SlopeLimiting /\ at[u] \in LimiterPending THEN 1 ELSE 0)

PostedRounds(u) ==
  ConsumedRounds(u) + (IF at[u] \in {"post_receive", "receive", "sl_receive"} THEN 1 ELSE 0)

(* Round in which data of a given type and timestamp is published.         *)
RoundOf(d) ==
  CASE d.ts = -1 -> 0
    [] d.ts # -1 /\ d.comm = "baryctr_coord" -> 1
    [] d.ts # -1 /\ d.comm = "bound_state" -> 2 + PerStage * d.ts
    [] d.ts # -1 /\ d.comm = "baryctr_state" -> 1 + PerStage * d.ts

InUse(rb) ==
  IF timestamp[rb[1]] = 0 THEN baryctr_coord_neigh[rb]
  ELSE IF SlopeLimiting /\ at[rb[1]] \notin LimiterPending
       THEN q_at_baryctr_neigh[rb] ELSE q_ex[rb]

Sync == INSTANCE NeighbourSync WITH
  posted <- [u \in Unit |-> PostedRounds(u)],
  consumed <- [u \in Unit |-> ConsumedRounds(u)],
  got <- [u \in Unit |-> [v \in Neigh[u] |-> RoundOf(InUse(<<u, v>>))]]

(* The HPX program implements the exchange of rounds between neighbours,   *)
(* as long as no exception is thrown.                                      *)
SyncSpec == Sync!Init /\ [][Failed' \/ Sync!Next]_(Sync!vars)
=============================================================================
