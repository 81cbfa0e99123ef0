------------------------------- MODULE RkdgOmpi -------------------------------
(***************************************************************************)
(* The RKDG shallow-water solver on MPI ranks with OpenMP threads:         *)
(* OMPISimulation::Run, Problem::preprocessor_ompi, step_ompi, stage_ompi  *)
(* and CS_slope_limiter_ompi.                                              *)
(*                                                                         *)
(* Every thread runs the same sequence of loops over its own submeshes,    *)
(* with no barrier between threads.  at[u] is the loop in which u comes    *)
(* next, and Turn(u) says that the loops before are finished on u's thread *)
(* and that u is next in its loop.  One action is one loop body.           *)
(* Kernels are abstracted to the data they exchange: which neighbour state *)
(* the fluxes, and the limiter, of a submesh are computed from.            *)
(***************************************************************************)
EXTENDS OmpiThreads

CONSTANTS
  NumStages,       \* Runge-Kutta stages of a time step
  NumSteps,        \* time steps to run
  WettingDrying,   \* SWE::PostProcessing::wetting_drying
  SlopeLimiting,   \* SWE::PostProcessing::slope_limiting
  MayBlowUp        \* the solution may become NaN (scrutinize_solution)

ASSUME RkdgOmpiAssumption ==
  /\ NumStages \in Nat \ {0}
  /\ NumSteps \in Nat \ {0}
  /\ {WettingDrying, SlopeLimiting, MayBlowUp} \subseteq BOOLEAN
  /\ CommTypes = {"baryctr_coord", "bound_state", "baryctr_state"}

VARIABLES
  at,                   \* the loop whose body u runs next
  timestamp,            \* stages completed: stepper.GetTimestamp()
  baryctr_coord_neigh,  \* per rank boundary: the neighbour coordinates stored
  q_ex,                 \* per rank boundary: exterior state of the last flux
  q_at_baryctr_neigh,   \* per rank boundary: averages the limiter stored
  aborted               \* MPI_Abort was called

rkdgVars == <<at, timestamp, baryctr_coord_neigh, q_ex, q_at_baryctr_neigh, aborted>>
vars == <<commVars, rkdgVars>>

Locations == {"init_data", "pre_receive", "pre_send", "pre_post_receive",
              "pre_wait_sends", "launch", "exchange", "pre_work", "receive",
              "wet_dry", "sl_exchange", "sl_work", "sl_receive",
              "sl_wait_sends", "scrutinize", "wait_sends", "output", "done"}

-----------------------------------------------------------------------------
SameThread(u, w) ==
  \E t \in 0 .. NumThreads[Locality[u]] - 1 :
    ThreadRuns(Locality[u], t, u) /\ ThreadRuns(Locality[u], t, w)

(* Sequential execution of a thread: submeshes with smaller numbers have   *)
(* run the body of u's loop and left it, those with larger ones have not.  *)
Turn(u) ==
  /\ SameThread(u, u)
  /\ ~aborted
  /\ \A w \in Unit \ {u} : SameThread(u, w) =>
       (at[w] = at[u] <=> SubmeshId[w] > SubmeshId[u])

Goto(u, loc) == at' = [at EXCEPT ![u] = loc]

(* What u reads from its receive buffers for type c, per neighbour.        *)
Taken(old, u, c) ==
  [rb \in RankBoundaries |->
     IF rb[1] = u THEN GetFromReceiveBuffer(u, rb[2], c) ELSE old[rb]]

Init ==
  /\ CommInit
  /\ at = [u \in Unit |-> "init_data"]
  /\ timestamp = [u \in Unit |-> 0]
  /\ baryctr_coord_neigh = [rb \in RankBoundaries |-> Written(rb[2], rb[1], "baryctr_coord", -1)]
  /\ q_ex = [rb \in RankBoundaries |-> Written(rb[2], rb[1], "bound_state", -1)]
  /\ q_at_baryctr_neigh = [rb \in RankBoundaries |-> Written(rb[2], rb[1], "baryctr_state", -1)]
  /\ aborted = FALSE

-----------------------------------------------------------------------------
(* preprocessor_ompi: five loops exchanging barycentre coordinates.        *)
InitData(u) ==
  /\ at[u] = "init_data" /\ Turn(u)
  /\ SetToSendBuffer(u, "baryctr_coord", timestamp[u])
  /\ Goto(u, "pre_receive")
  /\ UNCHANGED <<receive_buffer, send_requests, receive_requests, unsent,
                 unreceived, network, posted, mpi_error>>
  /\ UNCHANGED <<timestamp, baryctr_coord_neigh, q_ex, q_at_baryctr_neigh, aborted>>

PreReceiveAll(u) ==
  /\ at[u] = "pre_receive" /\ Turn(u)
  /\ ReceiveAll(u, "baryctr_coord")
  /\ mpi_error' = (mpi_error \/ ReceiveErroneous(u, "baryctr_coord"))
  /\ Goto(u, "pre_send")
  /\ UNCHANGED <<send_buffer, receive_buffer, send_requests, unsent, network>>
  /\ UNCHANGED <<timestamp, baryctr_coord_neigh, q_ex, q_at_baryctr_neigh, aborted>>

(* Mutant: the sends are started only after the receives have arrived.     *)
PreSendAll_AfterReceive(u) ==
  /\ at[u] = "pre_send" /\ Turn(u)
  /\ WaitAllReceives(u, "baryctr_coord")
  /\ SendAll(u, "baryctr_coord")
  /\ Goto(u, "pre_post_receive")
  /\ UNCHANGED <<send_buffer, receive_buffer, unreceived, posted, mpi_error>>
  /\ UNCHANGED <<timestamp, baryctr_coord_neigh, q_ex, q_at_baryctr_neigh, aborted>>

PreSendAll(u) ==
  /\ at[u] = "pre_send" /\ Turn(u)
  /\ SendAll(u, "baryctr_coord")
  /\ mpi_error' = (mpi_error \/ SendErroneous(u, "baryctr_coord"))
  /\ Goto(u, "pre_post_receive")
  /\ UNCHANGED <<send_buffer, receive_buffer, receive_requests, unreceived, posted>>
  /\ UNCHANGED <<timestamp, baryctr_coord_neigh, q_ex, q_at_baryctr_neigh, aborted>>

PrePostReceive(u) ==
  /\ at[u] = "pre_post_receive" /\ Turn(u)
  /\ WaitAllReceives(u, "baryctr_coord")
  /\ baryctr_coord_neigh' = Taken(baryctr_coord_neigh, u, "baryctr_coord")
  /\ Goto(u, "pre_wait_sends")
  /\ UNCHANGED <<send_buffer, receive_buffer, send_requests, unsent, unreceived,
                 network, posted, mpi_error>>
  /\ UNCHANGED <<timestamp, q_ex, q_at_baryctr_neigh, aborted>>

PreWaitSends(u) ==
  /\ at[u] = "pre_wait_sends" /\ Turn(u)
  /\ WaitAllSends(u, "baryctr_coord")
  /\ Goto(u, "launch")
  /\ UNCHANGED <<send_buffer, receive_buffer, receive_requests, unsent, unreceived,
                 network, posted, mpi_error>>
  /\ UNCHANGED <<timestamp, baryctr_coord_neigh, q_ex, q_at_baryctr_neigh, aborted>>

(* A loop body without communication: WriteFirstStep and resize, the       *)
(* volume, source, interface and boundary kernels, the wetting-drying      *)
(* kernel, the limiter's interface and boundary kernels, WriteOutput.      *)
Local(u, from, to) ==
  /\ at[u] = from /\ Turn(u)
  /\ Goto(u, to)
  /\ UNCHANGED <<timestamp, baryctr_coord_neigh, q_ex, q_at_baryctr_neigh, aborted>>
  /\ UNCHANGED commVars

Launch(u) == Local(u, "launch", "exchange")

-----------------------------------------------------------------------------
(* stage_ompi, first loop: the receives are started before the sends.      *)
Exchange(u) ==
  /\ at[u] = "exchange" /\ Turn(u)
  /\ ReceiveAll(u, "bound_state")
  /\ SetToSendBuffer(u, "bound_state", timestamp[u])
  /\ SendAll(u, "bound_state")
  /\ mpi_error' = (mpi_error \/ ReceiveErroneous(u, "bound_state")
                             \/ SendErroneous(u, "bound_state"))
  /\ Goto(u, "pre_work")
  /\ UNCHANGED receive_buffer
  /\ UNCHANGED <<timestamp, baryctr_coord_neigh, q_ex, q_at_baryctr_neigh, aborted>>

PreWork(u) == Local(u, "pre_work", "receive")

AfterWetDry == IF SlopeLimiting THEN "sl_exchange" ELSE "scrutinize"
AfterReceive == IF WettingDrying THEN "wet_dry" ELSE AfterWetDry

(* Mutant: the fluxes are computed before the receives have completed.     *)
Receive_NoWait(u) ==
  /\ at[u] = "receive" /\ Turn(u)
  /\ q_ex' = Taken(q_ex, u, "bound_state")
  /\ timestamp' = [timestamp EXCEPT ![u] = @ + 1]
  /\ Goto(u, AfterReceive)
  /\ UNCHANGED <<commVars, baryctr_coord_neigh, q_at_baryctr_neigh, aborted>>

(* Third loop: fluxes over distributed faces, UpdateState, ++stepper.      *)
Receive(u) ==
  /\ at[u] = "receive" /\ Turn(u)
  /\ WaitAllReceives(u, "bound_state")
  /\ q_ex' = Taken(q_ex, u, "bound_state")
  /\ timestamp' = [timestamp EXCEPT ![u] = @ + 1]
  /\ Goto(u, AfterReceive)
  /\ UNCHANGED <<send_buffer, receive_buffer, send_requests, unsent, unreceived,
                 network, posted, mpi_error>>
  /\ UNCHANGED <<baryctr_coord_neigh, q_at_baryctr_neigh, aborted>>

WetDry(u) == Local(u, "wet_dry", AfterWetDry)

(* CS_slope_limiter_ompi: four loops; the stepper is already incremented.  *)
SlExchange(u) ==
  /\ at[u] = "sl_exchange" /\ Turn(u)
  /\ ReceiveAll(u, "baryctr_state")
  /\ SetToSendBuffer(u, "baryctr_state", timestamp[u])
  /\ SendAll(u, "baryctr_state")
  /\ mpi_error' = (mpi_error \/ ReceiveErroneous(u, "baryctr_state")
                             \/ SendErroneous(u, "baryctr_state"))
  /\ Goto(u, "sl_work")
  /\ UNCHANGED receive_buffer
  /\ UNCHANGED <<timestamp, baryctr_coord_neigh, q_ex, q_at_baryctr_neigh, aborted>>

SlWork(u) == Local(u, "sl_work", "sl_receive")

(* Mutants: the limiter waits for the requests of the boundary states.     *)
SlReceive_WrongType(u) ==
  /\ at[u] = "sl_receive" /\ Turn(u)
  /\ WaitAllReceives(u, "bound_state")
  /\ q_at_baryctr_neigh' = Taken(q_at_baryctr_neigh, u, "baryctr_state")
  /\ Goto(u, "sl_wait_sends")
  /\ UNCHANGED <<send_buffer, receive_buffer, send_requests, unsent, unreceived,
                 network, posted, mpi_error>>
  /\ UNCHANGED <<timestamp, baryctr_coord_neigh, q_ex, aborted>>

SlWaitSends_WrongType(u) ==
  /\ at[u] = "sl_wait_sends" /\ Turn(u)
  /\ WaitAllSends(u, "bound_state")
  /\ Goto(u, "scrutinize")
  /\ UNCHANGED <<send_buffer, receive_buffer, receive_requests, unsent, unreceived,
                 network, posted, mpi_error>>
  /\ UNCHANGED <<timestamp, baryctr_coord_neigh, q_ex, q_at_baryctr_neigh, aborted>>

SlReceive(u) ==
  /\ at[u] = "sl_receive" /\ Turn(u)
  /\ WaitAllReceives(u, "baryctr_state")
  /\ q_at_baryctr_neigh' = Taken(q_at_baryctr_neigh, u, "baryctr_state")
  /\ Goto(u, "sl_wait_sends")
  /\ UNCHANGED <<send_buffer, receive_buffer, send_requests, unsent, unreceived,
                 network, posted, mpi_error>>
  /\ UNCHANGED <<timestamp, baryctr_coord_neigh, q_ex, aborted>>

SlWaitSends(u) ==
  /\ at[u] = "sl_wait_sends" /\ Turn(u)
  /\ WaitAllSends(u, "baryctr_state")
  /\ Goto(u, "scrutinize")
  /\ UNCHANGED <<send_buffer, receive_buffer, receive_requests, unsent, unreceived,
                 network, posted, mpi_error>>
  /\ UNCHANGED <<timestamp, baryctr_coord_neigh, q_ex, q_at_baryctr_neigh, aborted>>

(* A NaN found by scrutinize_solution aborts all ranks.                    *)
Scrutinize(u) ==
  \/ Local(u, "scrutinize", "wait_sends")
  \/ /\ MayBlowUp
     /\ at[u] = "scrutinize" /\ Turn(u)
     /\ aborted' = TRUE
     /\ UNCHANGED <<at, timestamp, baryctr_coord_neigh, q_ex, q_at_baryctr_neigh>>
     /\ UNCHANGED commVars

(* Mutant: the boundary-state sends are never waited for.                  *)
WaitSends_Missing(u) ==
  Local(u, "wait_sends", IF timestamp[u] % NumStages = 0 THEN "output" ELSE "exchange")

(* The last loop of a stage; the last stage of a step is followed by the   *)
(* output loop of step_ompi.                                               *)
WaitSends(u) ==
  /\ at[u] = "wait_sends" /\ Turn(u)
  /\ WaitAllSends(u, "bound_state")
  /\ Goto(u, IF timestamp[u] % NumStages = 0 THEN "output" ELSE "exchange")
  /\ UNCHANGED <<send_buffer, receive_buffer, receive_requests, unsent, unreceived,
                 network, posted, mpi_error>>
  /\ UNCHANGED <<timestamp, baryctr_coord_neigh, q_ex, q_at_baryctr_neigh, aborted>>

Output(u) ==
  Local(u, "output",
        IF timestamp[u] = NumSteps * NumStages THEN "done" ELSE "exchange")

-----------------------------------------------------------------------------
UnitStep(u) ==
  \/ InitData(u) \/ PreReceiveAll(u) \/ PreSendAll(u) \/ PrePostReceive(u)
  \/ PreWaitSends(u) \/ Launch(u)
  \/ Exchange(u) \/ PreWork(u) \/ Receive(u) \/ WetDry(u)
  \/ SlExchange(u) \/ SlWork(u) \/ SlReceive(u) \/ SlWaitSends(u)
  \/ Scrutinize(u) \/ WaitSends(u) \/ Output(u)

Mpi == ~aborted /\ MpiProgress /\ UNCHANGED rkdgVars

Stopped == aborted \/ \A u \in Unit : at[u] = "done"
Terminated == Stopped /\ UNCHANGED vars

Next == (\E u \in Unit : UnitStep(u)) \/ Mpi \/ Terminated

Spec == Init /\ [][Next]_vars

(* While a thread or the MPI library can do something, something is done:  *)
(* nothing is said of which of them.                                       *)
FairSpec == Spec /\ WF_vars((\E u \in Unit : UnitStep(u)) \/ Mpi)

-----------------------------------------------------------------------------
SinceLimited(ts) == IF ts > 0 THEN ts ELSE -1    \* the limiter first runs at 1

BeforePostReceive == {"init_data", "pre_receive", "pre_send", "pre_post_receive"}
LimiterPending == {"wet_dry", "sl_exchange", "sl_work", "sl_receive"}

(* Values stay in their ranges (see CommTypeOK for the communicator).      *)
TypeOK ==
  /\ CommTypeOK
  /\ at \in [Unit -> Locations]
  /\ timestamp \in [Unit -> Nat]
  /\ \A stored \in {baryctr_coord_neigh, q_ex, q_at_baryctr_neigh} :
       stored \in [RankBoundaries -> Data]
  /\ aborted \in BOOLEAN

(* The loops between the start of an exchange and the wait that ends it,   *)
(* for the sends and for the receives.                                     *)
SendPending(c) ==
  CASE c = "baryctr_coord" -> {"pre_post_receive", "pre_wait_sends"}
    [] c = "bound_state"   -> {"pre_work", "receive", "wet_dry", "sl_exchange", "sl_work",
                               "sl_receive", "sl_wait_sends", "scrutinize", "wait_sends"}
    [] c = "baryctr_state" -> {"sl_work", "sl_receive", "sl_wait_sends"}
ReceivePending(c) ==
  CASE c = "baryctr_coord" -> {"pre_send", "pre_post_receive"}
    [] c = "bound_state"   -> {"pre_work", "receive"}
    [] c = "baryctr_state" -> {"sl_work", "sl_receive"}

(* A request is active only between the SendAll or ReceiveAll that starts  *)
(* it and the wait for the same type: every exchange is finished before    *)
(* the next one of its type begins, on all paths through a stage.          *)
RequestDiscipline ==
  /\ \A s \in send_requests : at[s[1]] \in SendPending(s[3])
  /\ \A s \in receive_requests : at[s[1]] \in ReceivePending(s[3])

(* Every flux over a distributed face is computed from the neighbour's     *)
(* state of the same stage, the limiter uses the neighbour's average of    *)
(* the same stage, and the coordinates are the neighbour's: although one   *)
(* tag serves all types and nothing but messages orders the ranks.         *)
FreshData ==
  \A rb \in RankBoundaries :
    LET u == rb[1]  v == rb[2]
    IN  /\ at[u] \notin BeforePostReceive =>
             baryctr_coord_neigh[rb] = Written(v, u, "baryctr_coord", 0)
        /\ q_ex[rb] = Written(v, u, "bound_state", timestamp[u] - 1)
        /\ SlopeLimiting =>
             q_at_baryctr_neigh[rb] = Written(v, u, "baryctr_state",
               SinceLimited(IF at[u] \in LimiterPending THEN timestamp[u] - 1 ELSE timestamp[u]))

(* MPI may read a send buffer until the send is waited for; no kernel      *)
(* writes the buffer before.                                               *)
SendBufferStable ==
  [][\A u \in Unit : \A c \in CommTypes :
       send_buffer'[u][c] # send_buffer[u][c] => UnitSlots(u, c) \cap send_requests = {}]_vars

(* MPI is used correctly: no request is started while it is active, every  *)
(* message fits the receive it is matched with, and when all submeshes are *)
(* done nothing is in flight and no request is active, so that MPI_Finalize*)
(* finds a quiet communicator.                                             *)
MpiCorrect ==
  /\ ~mpi_error
  /\ (\A u \in Unit : at[u] = "done") =>
       /\ send_requests = {} /\ receive_requests = {}
       /\ \A e \in Envelopes : network[e] = <<>> /\ posted[e] = <<>>

(* Every run ends: all submeshes reach the last step, unless NaN aborts it.*)
Termination == <>(aborted \/ \A u \in Unit : at[u] = "done")

-----------------------------------------------------------------------------
(* The rounds of NeighbourSync: coordinates, then per stage the boundary   *)
(* states and, with the limiter, the averages.                             *)
PerStage == IF SlopeLimiting THEN 2 ELSE 1

ConsumedRounds(u) ==
  IF at[u] \in BeforePostReceive THEN 0
  ELSE 1 + PerStage * timestamp[u]
         - (IF SlopeLimiting /\ at[u] \in LimiterPending THEN 1 ELSE 0)

PostedRounds(u) ==
  ConsumedRounds(u) +
    (IF at[u] \in {"pre_post_receive", "pre_work", "receive", "sl_work", "sl_receive"}
     THEN 1 ELSE 0)

(* Round in which data of a given type and timestamp is published.         *)
RoundOf(d) ==
  CASE d.ts = -1 -> 0
    [] d.ts # -1 /\ d.comm = "baryctr_coord" -> 1
    [] d.ts # -1 /\ d.comm = "bound_state" -> 2 + PerStage * d.ts
    [] d.ts # -1 /\ d.comm = "baryctr_state" -> 1 + PerStage * d.ts

InUse(rb) ==
  IF timestamp[rb[1]] = 0 THEN baryctr_coord_neigh[rb]
  ELSE IF SlopeLimiting /\ at[rb[1]] \notin LimiterPending
       THEN q_at_baryctr_neigh[rb] ELSE q_ex[rb]

Sync == INSTANCE NeighbourSync WITH
  posted <- [u \in Unit |-> PostedRounds(u)],
  consumed <- [u \in Unit |-> ConsumedRounds(u)],
  got <- [u \in Unit |-> [v \in Neigh[u] |-> RoundOf(InUse(<<u, v>>))]]

(* The MPI program implements the exchange of rounds between neighbours.   *)
SyncSpec == Sync!Spec
=============================================================================
