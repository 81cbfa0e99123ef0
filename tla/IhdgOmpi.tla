------------------------------- MODULE IhdgOmpi -------------------------------
(***************************************************************************)
(* The implicit (IHDG) shallow-water solver on MPI ranks with OpenMP       *)
(* threads: OMPISimulation::Run, preprocessor_ompi, step_ompi, stage_ompi  *)
(* and ompi_solve_global_problem.                                          *)
(*                                                                         *)
(* A thread <<l, t>> of rank l runs its loops one after the other, each    *)
(* over its submeshes, meets the other threads of its rank at barriers,    *)
(* and thread 0 of a rank alone runs the master sections, some of whose    *)
(* calls are collective over the ranks.  One action is one loop body, one  *)
(* barrier or one group of collective calls.                               *)
(***************************************************************************)
EXTENDS GlobalNumbering, ExchangeLoops, NewtonIterates

CONSTANTS
  NumSteps,        \* time steps to run (each has a single stage)
  SlopeLimiting,   \* SWE::PostProcessing::slope_limiting
  MayBlowUp        \* the solution may become NaN (scrutinize_solution)

ASSUME IhdgOmpiAssumption ==
  /\ NumSteps \in Nat \ {0}
  /\ {SlopeLimiting, MayBlowUp} \subseteq BOOLEAN
  /\ CommTypes = {"baryctr_coord", "init_global_prob", "baryctr_state"}

VARIABLES
  loop,    \* loop[th]: the loop, barrier or master section th is in
  su_id,   \* su_id[th]: the submesh it runs next in that loop
  step,    \* step[th]: the time step, from 1
  iter,    \* iter[th]: the Newton iteration, from 1
  timestamp,                 \* stepper.GetTimestamp() of a submesh
  global_dof_offsets,        \* of a submesh within its rank
  total_global_dof_offsets,  \* per rank, gathered by rank 0 (-1: not yet)
  total_global_dof_offset,   \* per rank, scattered by rank 0
  global_dof_indx,   \* per edge: its unknown in the global system (-1: none)
  local_system,      \* local_system[u]: the iterate u's systems are condensed for
  system,            \* per rank: the contributions added since the last zeroing
  solution,          \* per rank: the contributions the last solution solves
  converged,         \* per rank: global_data.converged
  increment,         \* increment[u]: the contributions behind u's last update
  baryctr_coord_neigh,  \* per rank boundary: the neighbour coordinates stored
  bath_ex,              \* per rank boundary: the neighbour state stored
  q_at_baryctr_neigh,   \* per rank boundary: averages the limiter stored
  aborted               \* MPI_Abort was called

threadVars == <<loop, su_id, step, iter>>
numberVars == <<global_dof_offsets, total_global_dof_offsets,
                total_global_dof_offset, global_dof_indx>>
solveVars == <<local_system, system, solution, converged, increment>>
storedVars == <<baryctr_coord_neigh, bath_ex, q_at_baryctr_neigh>>
vars == <<commVars, threadVars, numberVars, solveVars, storedVars, timestamp, aborted>>

-----------------------------------------------------------------------------
(* Mutant: the barrier after the solve is missing.                         *)
AfterBarrier_NoWait(th) ==
  CASE loop[th] = "pre_barrier"      -> IF th[2] = 0 THEN "gather" ELSE "numbered_barrier"
    [] loop[th] = "numbered_barrier" -> "launch"
    [] loop[th] = "solve_barrier"    -> IF th[2] = 0 THEN "assemble" ELSE "update"
    [] loop[th] = "solved_barrier"   -> "update"

(* After a barrier only the master, thread 0, enters the master section,   *)
(* the others go on to the barrier that ends it.                           *)
AfterBarrier(th) ==
  CASE loop[th] = "pre_barrier"      -> IF th[2] = 0 THEN "gather" ELSE "numbered_barrier"
    [] loop[th] = "numbered_barrier" -> "launch"
    [] loop[th] = "solve_barrier"    -> IF th[2] = 0 THEN "assemble" ELSE "solved_barrier"
    [] loop[th] = "solved_barrier"   -> "update"

(* What follows a loop or a part of a master section.                      *)
Successor(th) ==
  CASE loop[th] = "pre_exchange"     -> "pre_post_receive"
    [] loop[th] = "pre_post_receive" -> "pre_wait_sends"
    [] loop[th] = "pre_wait_sends"   -> "pre_barrier"
    [] loop[th] = "gather"           -> "scatter"
    [] loop[th] = "scatter"          -> "gp_exchange"
    [] loop[th] = "gp_exchange"      -> "gp_post_receive"
    [] loop[th] = "gp_post_receive"  -> "gp_wait_sends"
    [] loop[th] = "gp_wait_sends"    -> "numbered_barrier"
    [] loop[th] = "launch"           -> "init_iteration"
    [] loop[th] = "init_iteration"   -> "local"
    [] loop[th] = "local"            -> "condense"
    [] loop[th] = "condense"         -> "solve_barrier"
    [] loop[th] = "assemble"         -> "solve"
    [] loop[th] = "solve"            -> "solved_barrier"
    [] loop[th] = "update"           -> "decide"
    [] loop[th] = "advance"          -> IF SlopeLimiting THEN "sl_exchange" ELSE "scrutinize"
    [] loop[th] = "sl_exchange"      -> "sl_work"
    [] loop[th] = "sl_work"          -> "sl_receive"
    [] loop[th] = "sl_receive"       -> "sl_wait_sends"
    [] loop[th] = "sl_wait_sends"    -> "scrutinize"
    [] loop[th] = "scrutinize"       -> "output"
    [] loop[th] = "output"           -> IF step[th] = NumSteps THEN "done" ELSE "init_iteration"

Barriers == {"pre_barrier", "numbered_barrier", "solve_barrier", "solved_barrier"}
MasterLoops == {"gp_exchange", "gp_post_receive", "gp_wait_sends", "assemble"}
UnitLoops == {"pre_exchange", "pre_post_receive", "pre_wait_sends", "launch",
              "init_iteration", "local", "condense", "update", "advance",
              "sl_exchange", "sl_work", "sl_receive", "sl_wait_sends",
              "scrutinize", "output"}

(* A thread's loops run over its share of the submeshes, a master section's*)
(* over all submeshes of the rank.                                         *)
FirstId(th) == BeginSimId(th[1], th[2])
EndId(th) == IF loop[th] \in MasterLoops THEN NumUnits(th[1]) ELSE EndSimId(th[1], th[2])

GoOn(th, to) ==
  /\ loop' = [loop EXCEPT ![th] = to]
  /\ su_id' = [su_id EXCEPT ![th] = FirstId(th)]

(* Leaving a loop; after the output loop comes the next time step, whose   *)
(* Newton iteration starts again.                                          *)
Leave(th) ==
  /\ GoOn(th, Successor(th))
  /\ IF loop[th] = "output"
     THEN /\ step' = [step EXCEPT ![th] = @ + 1]
          /\ iter' = [iter EXCEPT ![th] = 1]
     ELSE UNCHANGED <<step, iter>>

(* th runs the body of the loop named at for submesh u.                    *)
Body(th, u, at) ==
  /\ loop[th] = at /\ ~aborted
  /\ th[1] = Locality[u] /\ su_id[th] = SubmeshId[u] /\ su_id[th] < EndId(th)
  /\ IF su_id[th] + 1 < EndId(th)
     THEN su_id' = [su_id EXCEPT ![th] = @ + 1] /\ UNCHANGED <<loop, step, iter>>
     ELSE Leave(th)

(* A thread without submeshes runs through its loops, up to the barrier,   *)
(* the decision or the end of the time step that follows them.             *)
Skip(th) ==
  LET SkipTo(at) == loop' = [loop EXCEPT ![th] = at]
  IN  /\ ~aborted /\ FirstId(th) >= EndId(th)
      /\ \/ loop[th] = "pre_exchange" /\ SkipTo("pre_barrier") /\ UNCHANGED <<step, iter>>
         \/ loop[th] \in {"launch", "init_iteration", "local"} /\ SkipTo("solve_barrier")
            /\ UNCHANGED <<step, iter>>
         \/ loop[th] = "update" /\ SkipTo("decide") /\ UNCHANGED <<step, iter>>
         \/ /\ loop[th] = "advance"
            /\ SkipTo(IF step[th] = NumSteps THEN "done" ELSE "init_iteration")
            /\ step' = [step EXCEPT ![th] = @ + 1]
            /\ iter' = [iter EXCEPT ![th] = 1]
      /\ UNCHANGED <<su_id, commVars, numberVars, solveVars, storedVars, timestamp, aborted>>

(* A barrier lets all threads of a rank go on once all have come to one.   *)
Barrier(l) ==
  LET Team == {th \in Threads : th[1] = l}
  IN  /\ \A th \in Team : loop[th] \in Barriers
      /\ loop' = [th \in Threads |-> IF th \in Team THEN AfterBarrier(th) ELSE loop[th]]
      /\ ~aborted
      /\ UNCHANGED <<su_id, step, iter, commVars, numberVars, solveVars, storedVars,
                     timestamp, aborted>>

-----------------------------------------------------------------------------
Init ==
  /\ CommInit
  /\ loop = [th \in Threads |-> "pre_exchange"]
  /\ su_id = [th \in Threads |-> FirstId(th)]
  /\ step = [th \in Threads |-> 1]
  /\ iter = [th \in Threads |-> 1]
  /\ timestamp = [u \in Unit |-> 0]
  /\ global_dof_offsets = [u \in Unit |-> 0]
  /\ total_global_dof_offsets = [l \in Ranks |-> -1]
  /\ total_global_dof_offset = [l \in Ranks |-> 0]
  /\ global_dof_indx = [e \in Edges |-> -1]
  /\ local_system = [u \in Unit |-> [step |-> 0, iter |-> 1]]
  /\ system = [l \in Ranks |-> {}]
  /\ solution = [l \in Ranks |-> {}]
  /\ converged = [l \in Ranks |-> FALSE]
  /\ increment = [u \in Unit |-> {}]
  /\ baryctr_coord_neigh = [rb \in RankBoundaries |-> Written(rb[2], rb[1], "baryctr_coord", -1)]
  /\ bath_ex = [rb \in RankBoundaries |-> Written(rb[2], rb[1], "init_global_prob", -1)]
  /\ q_at_baryctr_neigh = [rb \in RankBoundaries |-> Written(rb[2], rb[1], "baryctr_state", -1)]
  /\ aborted = FALSE

-----------------------------------------------------------------------------
(* What u reads from its receive buffers for type c, per neighbour.        *)
Taken(old, u, c) ==
  [rb \in RankBoundaries |->
     IF rb[1] = u THEN GetFromReceiveBuffer(u, rb[2], c) ELSE old[rb]]

(* preprocessor_ompi, the loops of each thread.                            *)
PreExchange(th, u) ==
  /\ Body(th, u, "pre_exchange")
  /\ ExchangeBody(u, "baryctr_coord", timestamp[u])
  /\ UNCHANGED <<numberVars, solveVars, storedVars, timestamp, aborted>>

PrePostReceive(th, u) ==
  /\ Body(th, u, "pre_post_receive")
  /\ WaitReceivesBody(u, "baryctr_coord")
  /\ baryctr_coord_neigh' = Taken(baryctr_coord_neigh, u, "baryctr_coord")
  /\ UNCHANGED <<numberVars, solveVars, bath_ex, q_at_baryctr_neigh, timestamp, aborted>>

PreWaitSends(th, u) ==
  /\ Body(th, u, "pre_wait_sends")
  /\ WaitSendsBody(u, "baryctr_coord")
  /\ UNCHANGED <<numberVars, solveVars, storedVars, timestamp, aborted>>

(* Its master section.  All edges of the rank are numbered locally and the *)
(* counts gathered on rank 0.                                              *)
Gather(th) ==
  LET l == th[1]
  IN  /\ loop[th] = "gather" /\ ~aborted
      /\ global_dof_indx' = [e \in Edges |->
           IF Locality[e[1]] = l THEN LocalIndex(e) ELSE global_dof_indx[e]]
      /\ global_dof_offsets' = [u \in Unit |->
           IF Locality[u] = l THEN OffsetInRank(u) ELSE global_dof_offsets[u]]
      /\ total_global_dof_offsets' = [total_global_dof_offsets EXCEPT ![l] = RankCount(l)]
      /\ Leave(th)
      /\ UNCHANGED <<commVars, solveVars, storedVars, total_global_dof_offset, timestamp, aborted>>

(* The offset of the rank, and the size of the system, are known when all  *)
(* ranks have come to the gather; PETSc objects are created.               *)
Scatter(th) ==
  /\ loop[th] = "scatter" /\ ~aborted
  /\ \A r \in Ranks : total_global_dof_offsets[r] # -1
  /\ total_global_dof_offset' = [total_global_dof_offset EXCEPT ![th[1]] = OffsetOfRank(total_global_dof_offsets, th[1])]
  /\ Leave(th)
  /\ UNCHANGED <<commVars, solveVars, storedVars, global_dof_offsets,
                 total_global_dof_offsets, global_dof_indx, timestamp, aborted>>

(* Mutant: the sends are started only after the receives have arrived.     *)
GpExchange_AfterReceive(th, u) ==
  /\ \A v \in Neigh[u] : receive_buffer[<<u, v, "init_global_prob">>].ts = 0
  /\ Body(th, u, "gp_exchange")
  /\ ExchangeBody(u, "init_global_prob", timestamp[u])
  /\ UNCHANGED <<numberVars, solveVars, storedVars, timestamp, aborted>>

(* The final numbers of u's own edges; those of owned edges are sent.      *)
GpExchange(th, u) ==
  /\ Body(th, u, "gp_exchange")
  /\ ExchangeBody(u, "init_global_prob", timestamp[u])
  /\ global_dof_offsets' = [global_dof_offsets EXCEPT ![u] = @ + total_global_dof_offset[th[1]]]
  /\ global_dof_indx' = [e \in Edges |->
       IF e[1] = u /\ (e[2] = u \/ Owns(u, e[2]))
       THEN global_dof_indx[e] + global_dof_offsets'[u] ELSE global_dof_indx[e]]
  /\ UNCHANGED <<solveVars, storedVars, total_global_dof_offsets, total_global_dof_offset,
                 timestamp, aborted>>

(* Edges owned by a neighbour get the number the message ends with, which  *)
(* is the neighbour's own (its numbers are final when it sends them); a    *)
(* buffer nothing was received in holds 0.                                 *)
GpPostReceive(th, u) ==
  /\ Body(th, u, "gp_post_receive")
  /\ WaitReceivesBody(u, "init_global_prob")
  /\ bath_ex' = Taken(bath_ex, u, "init_global_prob")
  /\ global_dof_indx' = [e \in Edges |->
       IF e[1] = u /\ e[2] # u /\ Owns(e[2], u)
       THEN IF receive_buffer[<<u, e[2], "init_global_prob">>].ts = -1 THEN 0
            ELSE global_dof_indx[<<e[2], u>>]
       ELSE global_dof_indx[e]]
  /\ UNCHANGED <<global_dof_offsets, total_global_dof_offsets, total_global_dof_offset,
                 solveVars, baryctr_coord_neigh, q_at_baryctr_neigh, timestamp, aborted>>

GpWaitSends(th, u) ==
  /\ Body(th, u, "gp_wait_sends")
  /\ WaitSendsBody(u, "init_global_prob")
  /\ UNCHANGED <<numberVars, solveVars, storedVars, timestamp, aborted>>

(* A loop body that touches the data of its own submesh only: the first    *)
(* output, the initial guess of a stage, the local and global kernels, the *)
(* limiter's interface and boundary kernels, output.                       *)
Local(th, u, at) ==
  /\ Body(th, u, at)
  /\ UNCHANGED <<commVars, numberVars, solveVars, storedVars, timestamp, aborted>>

-----------------------------------------------------------------------------
(* ompi_solve_global_problem, first loop: the edge systems of u, condensed *)
(* from the linearisation at the thread's iterate.                         *)
Condense(th, u) ==
  /\ Body(th, u, "condense")
  /\ local_system' = [local_system EXCEPT ![u] = [step |-> step[th], iter |-> iter[th]]]
  /\ UNCHANGED <<commVars, numberVars, system, solution, converged, increment, storedVars,
                 timestamp, aborted>>

(* The master adds the systems of all submeshes of its rank (ADD_VALUES).  *)
Assemble(th, u) ==
  /\ Body(th, u, "assemble")
  /\ system' = [system EXCEPT ![th[1]] = @ \cup {<<u, local_system[u]>>}]
  /\ UNCHANGED <<commVars, numberVars, local_system, solution, converged, increment,
                 storedVars, timestamp, aborted>>

SolveWith(zeroed) ==
  /\ ~aborted
  /\ \A th \in Masters : loop[th] = "solve"
  /\ loop' = [th \in Threads |-> IF th \in Masters THEN Successor(th) ELSE loop[th]]
  /\ solution' = [l \in Ranks |-> UNION {system[r] : r \in Ranks}]
  /\ system' = [l \in Ranks |-> IF zeroed THEN {} ELSE system[l]]
  /\ \E small \in BOOLEAN : converged' = [l \in Ranks |-> small]
  /\ UNCHANGED <<su_id, step, iter, commVars, numberVars, local_system, increment,
                 storedVars, timestamp, aborted>>

(* Mutant: the system is not zeroed after it was solved.                   *)
Solve_NoZero == SolveWith(FALSE)

(* The collective calls of the masters: assembly over the ranks, KSPSolve, *)
(* VecScatter to the rank's solution, the norm of the increment (the same  *)
(* on all ranks), and zeroing for the next iteration.                      *)
Solve == SolveWith(TRUE)

(* All threads apply the increment to their submeshes.                     *)
Update(th, u) ==
  /\ Body(th, u, "update")
  /\ increment' = [increment EXCEPT ![u] = solution[th[1]]]
  /\ UNCHANGED <<commVars, numberVars, local_system, system, solution, converged,
                 storedVars, timestamp, aborted>>

(* return global_data.converged; break, or the next iteration.             *)
Decide(th) ==
  /\ loop[th] = "decide" /\ ~aborted
  /\ IF converged[th[1]] \/ iter[th] = MaxIter
     THEN GoOn(th, "advance") /\ UNCHANGED iter
     ELSE GoOn(th, "local") /\ iter' = [iter EXCEPT ![th] = @ + 1]
  /\ UNCHANGED <<step, commVars, numberVars, solveVars, storedVars, timestamp, aborted>>

(* ++stepper, the new state becomes state[0].                              *)
Advance(th, u) ==
  /\ Body(th, u, "advance")
  /\ timestamp' = [timestamp EXCEPT ![u] = @ + 1]
  /\ UNCHANGED <<commVars, numberVars, solveVars, storedVars, aborted>>

-----------------------------------------------------------------------------
(* CS_slope_limiter_ompi.                                                  *)
SlExchange(th, u) ==
  /\ Body(th, u, "sl_exchange")
  /\ ExchangeBody(u, "baryctr_state", timestamp[u])
  /\ UNCHANGED <<numberVars, solveVars, storedVars, timestamp, aborted>>

SlReceive(th, u) ==
  /\ Body(th, u, "sl_receive")
  /\ WaitReceivesBody(u, "baryctr_state")
  /\ q_at_baryctr_neigh' = Taken(q_at_baryctr_neigh, u, "baryctr_state")
  /\ UNCHANGED <<numberVars, solveVars, baryctr_coord_neigh, bath_ex, timestamp, aborted>>

(* Mutant: the limiter does not wait for its sends.                        *)
SlWaitSends_Missing(th, u) ==
  /\ Body(th, u, "sl_wait_sends")
  /\ UNCHANGED <<commVars, numberVars, solveVars, storedVars, timestamp, aborted>>

SlWaitSends(th, u) ==
  /\ Body(th, u, "sl_wait_sends")
  /\ WaitSendsBody(u, "baryctr_state")
  /\ UNCHANGED <<numberVars, solveVars, storedVars, timestamp, aborted>>

(* A NaN found by scrutinize_solution aborts all ranks.                    *)
Scrutinize(th, u) ==
  \/ Local(th, u, "scrutinize")
  \/ /\ MayBlowUp
     /\ Body(th, u, "scrutinize")
     /\ aborted' = TRUE
     /\ UNCHANGED <<commVars, numberVars, solveVars, storedVars, timestamp>>

-----------------------------------------------------------------------------
ThreadStep(th) ==
  \/ Skip(th) \/ Gather(th) \/ Scatter(th) \/ Decide(th)
  \/ \E u \in Unit :
       \/ PreExchange(th, u) \/ PrePostReceive(th, u) \/ PreWaitSends(th, u)
       \/ GpExchange(th, u) \/ GpPostReceive(th, u) \/ GpWaitSends(th, u)
       \/ \E at \in {"launch", "init_iteration", "local", "sl_work", "output"} : Local(th, u, at)
       \/ Condense(th, u) \/ Assemble(th, u) \/ Update(th, u) \/ Advance(th, u)
       \/ SlExchange(th, u) \/ SlReceive(th, u) \/ SlWaitSends(th, u)
       \/ Scrutinize(th, u)

Mpi ==
  /\ ~aborted /\ MpiProgress
  /\ UNCHANGED <<threadVars, numberVars, solveVars, storedVars, timestamp, aborted>>

AllDone == \A th \in Threads : loop[th] = "done"
Terminated == (aborted \/ AllDone) /\ UNCHANGED vars

Progress ==
  \/ \E th \in Threads : ThreadStep(th)
  \/ \E l \in Ranks : Barrier(l)
  \/ Solve \/ Mpi

Next == Progress \/ Terminated

Spec == Init /\ [][Next]_vars

(* Weak fairness of Progress: the program as a whole does not stop while   *)
(* some thread, barrier, collective call or the MPI library can take a     *)
(* step; nothing is said of which.  WF_vars(Progress) is written out, as   *)
(* every step that changes vars is one of Progress.                        *)
FairSpec == Spec /\ ([]<><<TRUE>>_vars \/ []<>~ENABLED Progress)

-----------------------------------------------------------------------------
(* th has finished the body of loop at, for submesh u, since its phase of  *)
(* the loops in later began.                                               *)
Past(th, u, at, later) ==
  loop[th] \in later \/ (loop[th] = at /\ su_id[th] > SubmeshId[u])

Stepping == {"init_iteration", "local", "condense", "solve_barrier", "assemble", "solve",
             "solved_barrier", "update", "decide", "advance", "sl_exchange", "sl_work",
             "sl_receive", "sl_wait_sends", "scrutinize", "output", "done"}
Numbered == Stepping \cup {"numbered_barrier", "launch"}
Limited == {"sl_wait_sends", "scrutinize", "output", "done"}

(* The global numbering: both sides of a distributed edge have the same    *)
(* number, and the numbers of all edges are 0 .. N - 1, none used twice,   *)
(* although four scans on different ranks and a message produced them.     *)
NumberingCorrect ==
  (\A th \in Threads : loop[th] \in Numbered) => Numbering(global_dof_indx)

(* While the master of a rank is in a master section, which uses the data  *)
(* of all its submeshes, the other threads wait at the barrier ending it.  *)
MasterAlone ==
  \A th, m \in Threads : th[1] = m[1] /\ th # m =>
    /\ loop[m] \in {"gather", "scatter", "gp_exchange", "gp_post_receive", "gp_wait_sends"} =>
         loop[th] \in {"pre_barrier", "numbered_barrier"}
    /\ loop[m] \in {"assemble", "solve"} => loop[th] \in {"solve_barrier", "solved_barrier"}

(* All threads that come to the solve are in the same time step and Newton *)
(* iteration, on all ranks: the decision to end an iteration is taken      *)
(* alike by every thread, so that no barrier or collective call is met by  *)
(* another one.                                                            *)
LockStep ==
  LET Solving == {"solve_barrier", "assemble", "solve", "solved_barrier"}
  IN  \A th, m \in Threads :
        \/ th[1] = m[1] /\ {loop[th], loop[m]} \subseteq Solving
        \/ loop[th] = "solve" /\ loop[m] = "solve"
        => step[th] = step[m] /\ iter[th] = iter[m]

(* The stored coordinates, neighbour states and limiter averages are those *)
(* of the neighbour, the averages of the step just advanced to.            *)
FreshData ==
  \A th \in Threads : \A rb \in RankBoundaries : Runs(th, rb[1]) =>
    LET u == rb[1]  v == rb[2]
    IN  /\ loop[th] \in Numbered \ {"numbered_barrier"} =>
             /\ baryctr_coord_neigh[rb] = Written(v, u, "baryctr_coord", 0)
             /\ bath_ex[rb] = Written(v, u, "init_global_prob", 0)
        /\ SlopeLimiting /\ Past(th, u, "sl_receive", Limited) =>
             q_at_baryctr_neigh[rb] = Written(v, u, "baryctr_state", timestamp[u])

(* MPI is used correctly, also where the master sends for submeshes of     *)
(* other threads: no request is started while it is active, every message  *)
(* fits the receive it is matched with, and when all threads are done      *)
(* nothing is in flight and no request is active.                          *)
MpiCorrect ==
  /\ ~mpi_error
  /\ AllDone => /\ send_requests = {} /\ receive_requests = {}
                /\ \A e \in Envelopes : network[e] = <<>> /\ posted[e] = <<>>

(* Every run ends, whatever the Newton iterations do: no thread is left at *)
(* a barrier and no rank in a collective call.                             *)
Termination == <>(aborted \/ AllDone)

-----------------------------------------------------------------------------
(* The Newton iteration of GlobalProblem: a solution is known by the       *)
(* iterate that all submeshes, each once, contributed to; one that mixes   *)
(* iterates or lacks a submesh is of no iterate.                           *)
IterateOf(contributions) ==
  LET iterates == {contribution[2] : contribution \in contributions}
  IN  CASE iterates = {} -> [step |-> 0, iter |-> 1]
        [] \E x \in iterates : contributions = Unit \X {x} -> CHOOSE x \in iterates : TRUE
        [] OTHER -> [step |-> 0, iter |-> 0]

Newton == INSTANCE GlobalProblem WITH
  contributed <- local_system,
  solved <- IterateOf(solution[0]),
  converged <- (solution[0] = {} \/ converged[0]),
  applied <- [u \in Unit |-> IterateOf(increment[u])]

(* The program implements the Newton iteration on the whole mesh.          *)
NewtonSpec == Newton!Spec
=============================================================================
