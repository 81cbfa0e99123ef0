------------------------------- MODULE GnOmpi -------------------------------
(***************************************************************************)
(* The Green-Naghdi solver on MPI ranks with OpenMP threads:               *)
(* OMPISimulation::Run, preprocessor_ompi of the shallow water part and of *)
(* the dispersive part, compute_bathymetry_derivatives_ompi, step_ompi,    *)
(* stage_ompi, dispersive_correction_ompi, compute_derivatives_ompi and    *)
(* ompi_solve_global_dc_problem.                                           *)
(*                                                                         *)
(* The loops have no conditions but their fixed bounds, so the program of  *)
(* a thread is written out as one sequence of loops, barriers and parts of *)
(* master sections.  A loop runs its body for the submeshes of the thread, *)
(* or for all of the rank in a master section.  One action is one body,    *)
(* one barrier or one group of collective calls.  The type "derivatives"   *)
(* is used twice and "dbath" three times without a change of timestamp, so *)
(* data is stamped with the place of the loop that wrote it.               *)
(***************************************************************************)
EXTENDS GlobalNumbering, ExchangeLoops, FiniteSetsExt

CONSTANTS
  NumStages,       \* stages of the Runge-Kutta schemes
  NumSteps,        \* time steps to run
  SlopeLimiting,   \* SWE::PostProcessing::slope_limiting
  MayBlowUp        \* the solution may become NaN (scrutinize_solution)

ASSUME GnOmpiAssumption ==
  /\ {NumStages, NumSteps} \subseteq Nat \ {0}
  /\ {SlopeLimiting, MayBlowUp} \subseteq BOOLEAN
  /\ CommTypes = {"baryctr_coord", "init_global_prob", "bound_state", "baryctr_state",
                  "dc_global_dof_indx", "dbath", "derivatives"}

VARIABLES
  pc,      \* pc[th]: the place of th in the program
  su_id,   \* su_id[th]: the submesh it runs next there
  dc_global_dof_offsets,        \* of a submesh within its rank
  total_dc_global_dof_offsets,  \* per rank, gathered by rank 0 (-1: not yet)
  total_dc_global_dof_offset,   \* per rank, scattered by rank 0
  dc_global_dof_indx,  \* per edge: its unknown in the global system (-1: none)
  condensed,     \* condensed[u]: the place where u's edge systems were condensed
  system,        \* per rank: the contributions added since the last zeroing
  dc_solution,   \* per rank: the contributions the last solution solves
  w1,            \* w1[u]: the contributions behind u's last correction
  stored,        \* per slot: the data u last took from its receive buffer
  aborted        \* MPI_Abort was called

threadVars == <<pc, su_id>>
numberVars == <<dc_global_dof_offsets, total_dc_global_dof_offsets,
                total_dc_global_dof_offset, dc_global_dof_indx>>
solveVars == <<condensed, system, dc_solution, w1>>
vars == <<commVars, threadVars, numberVars, solveVars, stored, aborted>>

-----------------------------------------------------------------------------
(* A place of the program is named by what is there and what it does.      *)
Exchange(c) == <<<<c, "exchange">>, <<c, "receive">>, <<c, "wait">>>>
ExchangeAndWork(c) ==
  <<<<c, "exchange">>, <<c, "work">>, <<c, "receive">>, <<c, "wait">>>>

(* The master sections, which the other threads skip, are between barriers.*)
NumberingSection ==
  <<<<"omp", "number">>, <<"master", "gather">>, <<"master", "scatter">>,
    <<"master", "finalize">>, <<"master", "receive_all">>, <<"master", "send_all">>,
    <<"master", "post_receive">>, <<"master", "wait_all">>, <<"omp", "numbered">>>>

(* The depth's first, second and third derivatives, each from the          *)
(* neighbours' averages of the one before.                                 *)
BathDerivatives == ExchangeAndWork("dbath")
BathSecondDerivatives == ExchangeAndWork("dbath")
BathThirdDerivatives == ExchangeAndWork("dbath")

Preprocessor ==
  Exchange("baryctr_coord") \o Exchange("init_global_prob")
  \o NumberingSection
  \o BathDerivatives \o BathSecondDerivatives \o BathThirdDerivatives
  \o <<<<"launch", "work">>>>

SweStage ==
  <<<<"parse", "work">>, <<"bound_state", "exchange">>, <<"bound_state", "work">>,
    <<"bound_state", "receive">>>>
  \o (IF SlopeLimiting THEN ExchangeAndWork("baryctr_state") ELSE <<>>)
  \o <<<<"scrutinize", "work">>, <<"bound_state", "wait">>>>

(* Derivatives of velocity and surface, then the second ones of velocity.  *)
Derivatives == ExchangeAndWork("derivatives")
SecondDerivatives == ExchangeAndWork("derivatives")

(* Mutant: no barrier after the solve.                                     *)
SolveSection_NoBarrier ==
  <<<<"dc", "condense">>, <<"omp", "solve">>, <<"master", "assemble">>, <<"master", "solve">>,
    <<"dc", "update">>>>
SolveSection ==
  <<<<"dc", "condense">>, <<"omp", "solve">>, <<"master", "assemble">>, <<"master", "solve">>,
    <<"omp", "solved">>, <<"dc", "update">>>>

DispersiveCorrection ==
  <<<<"parse", "work">>>> \o Derivatives \o SecondDerivatives
  \o <<<<"kernels", "work">>>> \o SolveSection \o <<<<"correct", "work">>>>

(* n times the places of s.                                                *)
Times(n, s) == [i \in 1 .. n * Len(s) |-> s[((i - 1) % Len(s)) + 1]]

TimeStep ==
  Times(NumStages, SweStage) \o Times(NumStages, DispersiveCorrection)
  \o Times(NumStages, SweStage) \o <<<<"output", "work">>>>

Program == Preprocessor \o Times(NumSteps, TimeStep)
Done == Len(Program) + 1
Place(p) == IF p = Done THEN <<"done", "done">> ELSE Program[p]

-----------------------------------------------------------------------------
At(th) == Place(pc[th])
Type(th) == At(th)[1]
Part(th) == At(th)[2]
InMaster(th) == At(th)[1] = "master"

FirstId(th) == BeginSimId(th[1], th[2])
EndId(th) == IF InMaster(th) THEN NumUnits(th[1]) ELSE EndSimId(th[1], th[2])

(* The next place after p in the program where th has something to do: the *)
(* master sections are thread 0's, and a thread without submeshes passes   *)
(* its loops on the way to the next barrier.                               *)
HasWork(th) == FirstId(th) < EndSimId(th[1], th[2])
Stops(th, i) ==
  \/ Place(i)[1] \in {"omp", "done"}
  \/ IF Place(i)[1] = "master" THEN th[2] = 0 ELSE HasWork(th)
NextPlace(th, p) ==
  CHOOSE i \in p + 1 .. Done : Stops(th, i) /\ \A j \in p + 1 .. i - 1 : ~Stops(th, j)

GoOn(th) ==
  /\ pc' = [pc EXCEPT ![th] = NextPlace(th, pc[th])]
  /\ su_id' = [su_id EXCEPT ![th] = FirstId(th)]

(* th runs the body of the loop it is at for submesh u.                    *)
Body(th, u) ==
  /\ ~aborted
  /\ th[1] = Locality[u] /\ su_id[th] = SubmeshId[u] /\ su_id[th] < EndId(th)
  /\ IF su_id[th] + 1 < EndId(th)
     THEN su_id' = [su_id EXCEPT ![th] = @ + 1] /\ UNCHANGED pc
     ELSE GoOn(th)

(* A barrier lets all threads of a rank go on once all have come to one.   *)
Barrier(l) ==
  LET Team == {th \in Threads : th[1] = l}
  IN  /\ \A th \in Team : At(th)[1] = "omp"
      /\ pc' = [th \in Threads |-> IF th \in Team THEN NextPlace(th, pc[th]) ELSE pc[th]]
      /\ su_id' = [th \in Threads |-> IF th \in Team THEN FirstId(th) ELSE su_id[th]]
      /\ ~aborted
      /\ UNCHANGED <<commVars, numberVars, solveVars, stored, aborted>>

Init ==
  /\ CommInit
  /\ pc = [th \in Threads |-> NextPlace(th, 0)]
  /\ su_id = [th \in Threads |-> FirstId(th)]
  /\ dc_global_dof_offsets = [u \in Unit |-> 0]
  /\ total_dc_global_dof_offsets = [l \in Ranks |-> -1]
  /\ total_dc_global_dof_offset = [l \in Ranks |-> 0]
  /\ dc_global_dof_indx = [e \in Edges |-> -1]
  /\ condensed = [u \in Unit |-> 0]
  /\ system = [l \in Ranks |-> {}]
  /\ dc_solution = [l \in Ranks |-> {}]
  /\ w1 = [u \in Unit |-> {}]
  /\ stored = [s \in Slots |-> Written(s[2], s[1], s[3], -1)]
  /\ aborted = FALSE

-----------------------------------------------------------------------------
(* The loops of all exchanges; the data received goes into the derivatives,*)
(* numerical fluxes, coordinates and limiter averages of u.                *)
ExchangeLoop(th, u) ==
  /\ Part(th) = "exchange" /\ Body(th, u)
  /\ ExchangeBody(u, Type(th), pc[th])
  /\ UNCHANGED <<numberVars, solveVars, stored, aborted>>

ReceiveLoop(th, u) ==
  /\ Part(th) = "receive" /\ Body(th, u)
  /\ WaitReceivesBody(u, Type(th))
  /\ stored' = [s \in Slots |-> IF s[1] = u /\ s[3] = Type(th) THEN receive_buffer[s] ELSE stored[s]]
  /\ UNCHANGED <<numberVars, solveVars, aborted>>

(* Mutant: the sends are not waited for.                                   *)
WaitLoop_Missing(th, u) ==
  /\ Part(th) = "wait" /\ Body(th, u)
  /\ UNCHANGED <<commVars, numberVars, solveVars, stored, aborted>>

WaitLoop(th, u) ==
  /\ Part(th) = "wait" /\ Body(th, u)
  /\ WaitSendsBody(u, Type(th))
  /\ UNCHANGED <<numberVars, solveVars, stored, aborted>>

(* A loop body that touches the data of its own submesh only: kernels,     *)
(* parsing, updates of the state, output.                                  *)
Local(th, u) ==
  /\ Part(th) = "work" /\ Body(th, u)
  /\ UNCHANGED <<commVars, numberVars, solveVars, stored, aborted>>

(* A NaN found by scrutinize_solution aborts all ranks.                    *)
Scrutinize(th, u) ==
  /\ MayBlowUp /\ At(th) = <<"scrutinize", "work">> /\ Body(th, u)
  /\ aborted' = TRUE
  /\ UNCHANGED <<commVars, numberVars, solveVars, stored>>

-----------------------------------------------------------------------------
(* The numbering section.  The edges of each submesh of the rank are       *)
(* numbered from 0.                                                        *)
NumberLocally(l) ==
  dc_global_dof_indx' = [e \in Edges |->
    IF Locality[e[1]] = l THEN LocalIndex(e) ELSE dc_global_dof_indx[e]]

(* The offsets of the submeshes in their rank; counts go to rank 0.        *)
Gather(th) ==
  LET l == th[1]
  IN  /\ At(th) = <<"master", "gather">> /\ ~aborted
      /\ NumberLocally(l)
      /\ dc_global_dof_offsets' = [u \in Unit |->
           IF Locality[u] = l THEN OffsetInRank(u) ELSE dc_global_dof_offsets[u]]
      /\ total_dc_global_dof_offsets' = [total_dc_global_dof_offsets EXCEPT ![l] = RankCount(l)]
      /\ GoOn(th)
      /\ UNCHANGED <<commVars, total_dc_global_dof_offset, solveVars, stored, aborted>>

(* The rank's offset and the size of the system are known when all ranks   *)
(* have come to the gather; PETSc objects are created.                     *)
Scatter(th) ==
  /\ At(th) = <<"master", "scatter">> /\ ~aborted
  /\ \A r \in Ranks : total_dc_global_dof_offsets[r] # -1
  /\ total_dc_global_dof_offset' = [total_dc_global_dof_offset EXCEPT
       ![th[1]] = OffsetOfRank(total_dc_global_dof_offsets, th[1])]
  /\ GoOn(th)
  /\ UNCHANGED <<commVars, dc_global_dof_offsets, total_dc_global_dof_offsets,
                 dc_global_dof_indx, solveVars, stored, aborted>>

(* Final numbers of the edges u owns; a message is written only for those. *)
Finalize(th, u) ==
  /\ At(th) = <<"master", "finalize">> /\ Body(th, u)
  /\ dc_global_dof_offsets' =
       [dc_global_dof_offsets EXCEPT ![u] = @ + total_dc_global_dof_offset[th[1]]]
  /\ dc_global_dof_indx' = [e \in Edges |->
       IF e[1] = u /\ (e[2] = u \/ Owns(u, e[2]))
       THEN dc_global_dof_indx[e] + dc_global_dof_offsets'[u] ELSE dc_global_dof_indx[e]]
  /\ IF OwnedEdges(u) = {} THEN UNCHANGED send_buffer
     ELSE SetToSendBuffer(u, "dc_global_dof_indx", pc[th])
  /\ UNCHANGED <<receive_buffer, send_requests, receive_requests, unsent, unreceived,
                 network, posted, mpi_error, total_dc_global_dof_offsets,
                 total_dc_global_dof_offset, solveVars, stored, aborted>>

MasterReceiveAll(th, u) ==
  /\ At(th) = <<"master", "receive_all">> /\ Body(th, u)
  /\ ReceiveAll(u, "dc_global_dof_indx")
  /\ mpi_error' = (mpi_error \/ ReceiveErroneous(u, "dc_global_dof_indx"))
  /\ UNCHANGED <<send_buffer, receive_buffer, send_requests, unsent, network, numberVars,
                 solveVars, stored, aborted>>

(* Mutant: the rank's sends wait for its receives.                         *)
MasterSendAll_Late(th, u) ==
  /\ At(th) = <<"master", "send_all">>
  /\ UnitSlots(u, "dc_global_dof_indx") \cap unreceived = {}
  /\ Body(th, u)
  /\ SendAll(u, "dc_global_dof_indx")
  /\ mpi_error' = (mpi_error \/ SendErroneous(u, "dc_global_dof_indx"))
  /\ UNCHANGED <<send_buffer, receive_buffer, receive_requests, unreceived, posted,
                 numberVars, solveVars, stored, aborted>>

MasterSendAll(th, u) ==
  /\ At(th) = <<"master", "send_all">> /\ Body(th, u)
  /\ SendAll(u, "dc_global_dof_indx")
  /\ mpi_error' = (mpi_error \/ SendErroneous(u, "dc_global_dof_indx"))
  /\ UNCHANGED <<send_buffer, receive_buffer, receive_requests, unreceived, posted,
                 numberVars, solveVars, stored, aborted>>

(* Edges a neighbour owns get the number it sent, which was final when it  *)
(* was written; a buffer nothing was written to holds 0.                   *)
PostReceive(th, u) ==
  /\ At(th) = <<"master", "post_receive">> /\ Body(th, u)
  /\ WaitReceivesBody(u, "dc_global_dof_indx")
  /\ dc_global_dof_indx' = [e \in Edges |->
       IF e[1] = u /\ e[2] # u /\ Owns(e[2], u)
       THEN IF receive_buffer[<<u, e[2], "dc_global_dof_indx">>].ts = -1 THEN 0
            ELSE dc_global_dof_indx[<<e[2], u>>]
       ELSE dc_global_dof_indx[e]]
  /\ UNCHANGED <<dc_global_dof_offsets, total_dc_global_dof_offsets,
                 total_dc_global_dof_offset, solveVars, stored, aborted>>

MasterWait(th, u) ==
  /\ At(th) = <<"master", "wait_all">> /\ Body(th, u)
  /\ WaitSendsBody(u, "dc_global_dof_indx")
  /\ UNCHANGED <<numberVars, solveVars, stored, aborted>>

-----------------------------------------------------------------------------
(* ompi_solve_global_dc_problem: u's edge systems, condensed.              *)
Condense(th, u) ==
  /\ At(th) = <<"dc", "condense">> /\ Body(th, u)
  /\ condensed' = [condensed EXCEPT ![u] = pc[th]]
  /\ UNCHANGED <<commVars, numberVars, system, dc_solution, w1, stored, aborted>>

(* The master adds the systems of all submeshes of its rank (ADD_VALUES).  *)
Assemble(th, u) ==
  /\ At(th) = <<"master", "assemble">> /\ Body(th, u)
  /\ system' = [system EXCEPT ![th[1]] = @ \cup {<<u, condensed[u]>>}]
  /\ UNCHANGED <<commVars, numberVars, condensed, dc_solution, w1, stored, aborted>>

(* Mutant: the system is not zeroed, ADD_VALUES adds to the last one.      *)
Solve_NotZeroed ==
  /\ ~aborted
  /\ \A th \in Masters : At(th) = <<"master", "solve">>
  /\ pc' = [th \in Threads |-> IF th \in Masters THEN NextPlace(th, pc[th]) ELSE pc[th]]
  /\ dc_solution' = [l \in Ranks |-> UNION {system[r] : r \in Ranks}]
  /\ UNCHANGED <<su_id, commVars, numberVars, condensed, system, w1, stored, aborted>>

(* The collective calls of the masters: assembly over the ranks, KSPSolve, *)
(* VecScatter to the rank's solution, and zeroing for the next system.     *)
Solve ==
  /\ ~aborted
  /\ \A th \in Masters : At(th) = <<"master", "solve">>
  /\ pc' = [th \in Threads |-> IF th \in Masters THEN NextPlace(th, pc[th]) ELSE pc[th]]
  /\ dc_solution' = [l \in Ranks |-> UNION {system[r] : r \in Ranks}]
  /\ system' = [l \in Ranks |-> {}]
  /\ UNCHANGED <<su_id, commVars, numberVars, condensed, w1, stored, aborted>>

Update(th, u) ==
  /\ At(th) = <<"dc", "update">> /\ Body(th, u)
  /\ w1' = [w1 EXCEPT ![u] = dc_solution[th[1]]]
  /\ UNCHANGED <<commVars, numberVars, condensed, system, dc_solution, stored, aborted>>

-----------------------------------------------------------------------------
ThreadStep(th) ==
  \/ Gather(th) \/ Scatter(th)
  \/ \E u \in Unit :
       \/ ExchangeLoop(th, u) \/ ReceiveLoop(th, u) \/ WaitLoop(th, u)
       \/ Local(th, u) \/ Scrutinize(th, u)
       \/ Finalize(th, u) \/ MasterReceiveAll(th, u) \/ MasterSendAll(th, u)
       \/ PostReceive(th, u) \/ MasterWait(th, u)
       \/ Condense(th, u) \/ Assemble(th, u) \/ Update(th, u)

Mpi ==
  /\ ~aborted /\ MpiProgress
  /\ UNCHANGED <<threadVars, numberVars, solveVars, stored, aborted>>

AllDone == \A th \in Threads : pc[th] = Done
Terminated == (aborted \/ AllDone) /\ UNCHANGED vars

Progress ==
  \/ \E th \in Threads : ThreadStep(th)
  \/ \E l \in Ranks : Barrier(l)
  \/ Solve \/ Mpi

Next == Progress \/ Terminated

Spec == Init /\ [][Next]_vars
(* Weak fairness of Progress: the program as a whole does not stop while   *)
(* something in it can go on.  WF_vars(Progress) is written out, as every  *)
(* step that changes vars is one of Progress.                              *)
FairSpec == Spec /\ ([]<><<TRUE>>_vars \/ []<>~ENABLED Progress)

-----------------------------------------------------------------------------
(* The places among S that th has passed for submesh u.                    *)
Passed(th, u, S) ==
  {p \in S : p < pc[th] \/ (p = pc[th] /\ su_id[th] > SubmeshId[u])}
Places(entry) == {p \in DOMAIN Program : Program[p] = entry}
ReceivePlaces == [c \in CommTypes |-> Places(<<c, "receive">>)]
ExchangePlaces == [c \in CommTypes |-> Places(<<c, "exchange">>)]
CondensePlaces == Places(<<"dc", "condense">>)
UpdatePlaces == Places(<<"dc", "update">>)
LastBefore(p, S) == Max({i \in S : i < p})

(* Every use of received data is of the neighbour's matching loop: the     *)
(* second round of derivatives never gets the first one's message, nor one *)
(* of the previous stage, though type, timestamp and tag are the same.     *)
FreshData ==
  \A th \in Threads : \A s \in Slots :
    Runs(th, s[1]) =>
      LET received == Passed(th, s[1], ReceivePlaces[s[3]])
      IN  received # {} =>
            stored[s] = Written(s[2], s[1], s[3], LastBefore(Max(received), ExchangePlaces[s[3]]))

(* A correction that a submesh applies solves the system made of the       *)
(* contributions of all submeshes to the same correction, all of them and  *)
(* nothing left from the one before; the unknowns of the system are        *)
(* numbered alike on both sides of every distributed edge.                 *)
OneSystem ==
  \A th \in Threads : \A u \in Unit :
    Runs(th, u) =>
      LET updates == Passed(th, u, UpdatePlaces)
      IN  updates # {} => /\ w1[u] = Unit \X {LastBefore(Max(updates), CondensePlaces)}
                          /\ Numbering(dc_global_dof_indx)

(* MPI is used correctly, also where the master sends for submeshes of     *)
(* other threads: no request is started while it is active, every message  *)
(* fits the receive it is matched with, and when all threads are done      *)
(* nothing is in flight and no request is active.                          *)
MpiCorrect ==
  /\ ~mpi_error
  /\ AllDone => /\ send_requests = {} /\ receive_requests = {}
                /\ \A e \in Envelopes : network[e] = <<>> /\ posted[e] = <<>>

(* Every run ends: no thread is left at a barrier, no rank in a collective *)
(* call and no receive without its message.                                *)
Termination == <>(aborted \/ AllDone)
=============================================================================
