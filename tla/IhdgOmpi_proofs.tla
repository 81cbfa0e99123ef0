---------------------------- MODULE IhdgOmpi_proofs ----------------------------
(***************************************************************************)
(* Proofs about IhdgOmpi, for every mesh partition, assignment of submeshes*)
(* to ranks and threads, number of steps and of iterates; and about        *)
(* GlobalProblem, which it implements.                                     *)
(***************************************************************************)
EXTENDS IhdgOmpi, OmpiThreads_proofs

-----------------------------------------------------------------------------
(* The parts of the program between its barriers.                          *)
Exchanging == {"pre_exchange", "pre_post_receive", "pre_wait_sends", "pre_barrier"}
NumberingMaster == {"gather", "scatter", "gp_exchange", "gp_post_receive", "gp_wait_sends"}
NumberingLoops == NumberingMaster \cup {"numbered_barrier"}
Preparing == {"launch", "init_iteration", "local", "condense", "solve_barrier"}
Decided == {"advance", "sl_exchange", "sl_work", "sl_receive", "sl_wait_sends",
            "scrutinize", "output"}
Updating == Decided \cup {"update", "decide"}
Computing == Preparing \cup Updating \cup {"done"}
SolvingMaster == {"assemble", "solve"}
SolvingLoops == SolvingMaster \cup {"solved_barrier"}

Parts == {Exchanging, NumberingLoops, Computing, SolvingLoops}
MasterParts == NumberingMaster \cup SolvingMaster
Loops == UNION Parts

ThreadsOK ==
  /\ loop \in [Threads -> Loops]
  /\ step \in [Threads -> Nat]
  /\ iter \in [Threads -> 1 .. MaxIter]
  /\ converged \in [Ranks -> BOOLEAN]

(* Only thread 0 of a rank is in a master section.                         *)
MasterSections ==
  \A th \in Threads : loop[th] \in MasterParts => th[2] = 0

(* The threads of a rank are between the same two barriers.                *)
SamePart ==
  \A th, m \in Threads : th[1] = m[1] =>
    \A part \in Parts : loop[th] \in part => loop[m] \in part

It(th) == [step |-> step[th], iter |-> iter[th]]

(* th's rank has solved the system of the iterate th is in.                *)
PastSolve(th) ==
  \/ loop[th] \in Updating
  \/ loop[th] = "solved_barrier" /\ loop[Master(th)] = "solved_barrier"

(* The iterate th contributes to the next time it contributes to one, or   *)
(* has contributed to if the system is not solved.                         *)
Goal(th) == IF PastSolve(th) THEN Newton!After(It(th), converged[th[1]]) ELSE It(th)

(* All threads of all ranks agree on it, and on the convergence.           *)
SameGoal == \A th, m \in Threads : Goal(th) = Goal(m)
SameConverged == \A l, r \in Ranks : converged[l] = converged[r]

(* Threads of a rank that meet for a solve come from the same iterate.     *)
SameIterate ==
  \A th, m \in Threads :
    th[1] = m[1] /\ {loop[th], loop[m]} \subseteq SolvingLoops => It(th) = It(m)

(* A thread goes on from its iterates when they converged or are used up.  *)
StepEnds ==
  \A th \in Threads : loop[th] \in Decided => converged[th[1]] \/ iter[th] = MaxIter

IInv ==
  /\ ThreadsOK /\ MasterSections /\ SamePart
  /\ SameGoal /\ SameConverged /\ SameIterate /\ StepEnds

-----------------------------------------------------------------------------
(* th goes on from its loop to the loop named to, in the same part of the  *)
(* program, into a master section or past a decision only if it was there, *)
(* and neither into nor out of the barrier after a solve.                  *)
Onward(from, to) ==
  /\ from \in Loops /\ to \in Loops
  /\ \A part \in Parts : from \in part <=> to \in part
  /\ to \in MasterParts => from \in MasterParts
  /\ from # "solved_barrier" /\ to # "solved_barrier"

(* What stays the same from one loop of an iterate to the next.            *)
SameIterates(from, to) ==
  /\ to \in Updating <=> from \in Updating
  /\ to \in Decided => from \in Decided

LEMMA InitIInv == Init => IInv
<1> SUFFICES ASSUME Init PROVE IInv
  OBVIOUS
<1> USE DEF Init
<1>1. ThreadsOK
  <2>1. "pre_exchange" \in Loops
    BY DEF Loops, Parts, Exchanging
  <2>2. 1 \in 1 .. MaxIter
    BY MaxIterAssumption
  <2> QED
    BY <2>1, <2>2 DEF ThreadsOK
<1>2. MasterSections
  BY DEF MasterSections, MasterParts, NumberingMaster, SolvingMaster
<1>3. SamePart
  BY DEF SamePart
<1>4. \A th \in Threads : ~PastSolve(th)
  BY DEF PastSolve, Updating, Decided
<1>5. SameGoal
  BY <1>4 DEF SameGoal, Goal, It
<1>6. SameConverged
  BY DEF SameConverged
<1>7. SameIterate
  BY DEF SameIterate, SolvingLoops, SolvingMaster
<1>8. StepEnds
  BY DEF StepEnds, Decided
<1> QED
  BY <1>1, <1>2, <1>3, <1>5, <1>6, <1>7, <1>8 DEF IInv

(* No thread but th goes on, and th goes on without a change of its goal.  *)
OnlyMoves(th) ==
  /\ \A m \in Threads : Goal(m)' = Goal(m)
  /\ \A m \in Threads \ {th} :
       loop'[m] = loop[m] /\ It(m)' = It(m) /\ (PastSolve(m)' <=> PastSolve(m))
  /\ PastSolve(th)' => PastSolve(th) /\ It(th)' = It(th)

(* A step of one thread keeps the invariant when it stays in its part of   *)
(* the program and neither gains nor loses an iterate.                     *)
LEMMA ThreadMove ==
  ASSUME IInv, NEW th \in Threads, NEW to, NEW s \in Nat, NEW i \in 1 .. MaxIter,
         Onward(loop[th], to),
         loop' = [loop EXCEPT ![th] = to],
         step' = [step EXCEPT ![th] = s], iter' = [iter EXCEPT ![th] = i],
         converged' = converged,
         Goal(th) = IF to \in Updating
                    THEN Newton!After([step |-> s, iter |-> i], converged[th[1]])
                    ELSE [step |-> s, iter |-> i],
         to \in SolvingLoops \cup Updating => [step |-> s, iter |-> i] = It(th),
         to \in Updating => loop[th] \in Updating,
         to \in Decided => converged[th[1]] \/ i = MaxIter
  PROVE  IInv' /\ OnlyMoves(th)
<1>1. ThreadsOK'
  BY DEF IInv, ThreadsOK, Onward
<1>2. MasterSections'
  BY DEF IInv, ThreadsOK, MasterSections, Onward
<1>3. SamePart'
  <2>1. \A m \in Threads : \A part \in Parts : loop'[m] \in part <=> loop[m] \in part
    BY DEF IInv, ThreadsOK, Onward
  <2> QED
    BY <2>1 DEF IInv, SamePart
<1>4. \A m \in Threads : m # th => It(m)' = It(m) /\ loop'[m] = loop[m]
  BY DEF IInv, ThreadsOK, It
<1>5. It(th)' = [step |-> s, iter |-> i] /\ loop'[th] = to
  BY DEF IInv, ThreadsOK, It
<1>6. \A m \in Threads : m # th => PastSolve(m)' = PastSolve(m)
  <2> SUFFICES ASSUME NEW m \in Threads, m # th PROVE PastSolve(m)' <=> PastSolve(m)
    BY DEF PastSolve
  <2>1. (loop[Master(m)] = "solved_barrier") <=> (loop'[Master(m)] = "solved_barrier")
    <3>1. CASE Master(m) = th
      BY <3>1, <1>5 DEF Onward
    <3>2. CASE Master(m) # th
      BY <3>2, <1>4, ThreadShape
    <3> QED
      BY <3>1, <3>2
  <2>2. loop'[m] = loop[m]
    BY <1>4
  <2> QED
    BY <2>1, <2>2 DEF PastSolve, Master
<1>7. PastSolve(th)' <=> to \in Updating
  BY <1>5 DEF PastSolve, Onward
<1>8. \A m \in Threads : Goal(m)' = Goal(m)
  <2> SUFFICES ASSUME NEW m \in Threads PROVE Goal(m)' = Goal(m)
    OBVIOUS
  <2>1. CASE m # th
    BY <2>1, <1>4, <1>6 DEF Goal
  <2>2. CASE m = th
    BY <2>2, <1>5, <1>7 DEF Goal
  <2> QED
    BY <2>1, <2>2
<1>9. SameGoal'
  BY <1>8 DEF IInv, SameGoal
<1>10. SameConverged'
  BY DEF IInv, SameConverged
<1>11. SameIterate'
  <2>1. \A m \in Threads : loop'[m] \in SolvingLoops => loop[m] \in SolvingLoops /\ It(m)' = It(m)
    <3>1. to \in SolvingLoops => loop[th] \in SolvingLoops
      BY DEF Onward, Parts
    <3> QED
      BY <1>4, <1>5, <3>1
  <2> QED
    BY <2>1 DEF IInv, SameIterate
<1>12. StepEnds'
  BY <1>4, <1>5 DEF IInv, StepEnds, ThreadsOK
<1>13. PastSolve(th)' => PastSolve(th) /\ It(th)' = It(th)
  BY <1>5, <1>7 DEF PastSolve
<1>14. OnlyMoves(th)
  BY <1>4, <1>6, <1>8, <1>13 DEF OnlyMoves
<1> QED
  BY <1>1, <1>2, <1>3, <1>9, <1>10, <1>11, <1>12, <1>14 DEF IInv

(* Leaving a loop that no step ends with leads on within the iterate.      *)
LEMMA SuccessorOnward ==
  ASSUME NEW th \in Threads, loop[th] \in Loops,
         loop[th] \notin {"solve", "output", "decide", "done"} \cup Barriers
  PROVE  /\ Onward(loop[th], Successor(th))
         /\ SameIterates(loop[th], Successor(th))
<1> USE DEF Onward, SameIterates, Loops, Parts, MasterParts, NumberingMaster, NumberingLoops,
            Exchanging, Preparing, Decided, Updating, Computing, SolvingMaster, SolvingLoops
<1>1. CASE loop[th] \in {"pre_exchange", "pre_post_receive", "pre_wait_sends"}
  BY <1>1 DEF Successor
<1>2. CASE loop[th] \in {"gather", "scatter", "gp_exchange"}
  BY <1>2 DEF Successor
<1>3. CASE loop[th] \in {"gp_post_receive", "gp_wait_sends", "assemble"}
  BY <1>3 DEF Successor
<1>4. CASE loop[th] \in {"launch", "init_iteration", "local", "condense"}
  BY <1>4 DEF Successor
<1>5. CASE loop[th] \in {"update", "sl_exchange", "sl_work"}
  BY <1>5 DEF Successor
<1>6. CASE loop[th] \in {"sl_receive", "sl_wait_sends", "scrutinize"}
  BY <1>6 DEF Successor
<1>7. CASE loop[th] = "advance"
  BY <1>7 DEF Successor
<1> QED
  BY <1>1, <1>2, <1>3, <1>4, <1>5, <1>6, <1>7 DEF Barriers

(* The end of a time step: its iterate becomes the first of the next step. *)
LEMMA StepEnd ==
  ASSUME IInv, NEW th \in Threads, NEW to \in {"done", "init_iteration"},
         loop[th] \in Decided,
         loop' = [loop EXCEPT ![th] = to],
         step' = [step EXCEPT ![th] = @ + 1], iter' = [iter EXCEPT ![th] = 1],
         converged' = converged
  PROVE  IInv' /\ OnlyMoves(th)
<1>1. step[th] \in Nat /\ iter[th] \in 1 .. MaxIter /\ loop[th] \in Loops /\ 1 \in 1 .. MaxIter
  BY MaxIterAssumption DEF IInv, ThreadsOK
<1>2. Onward(loop[th], to)
  BY <1>1 DEF Onward, Loops, Parts, MasterParts, NumberingMaster, NumberingLoops,
       Exchanging, Preparing, Decided, Updating, Computing, SolvingMaster, SolvingLoops
<1>3. /\ to \notin Updating /\ to \notin SolvingLoops /\ loop[th] \in Updating
  BY DEF Decided, Updating, SolvingMaster, SolvingLoops
<1>4. converged[th[1]] \/ iter[th] = MaxIter
  BY DEF IInv, StepEnds
<1>5. Goal(th) = [step |-> step[th] + 1, iter |-> 1]
  BY <1>3, <1>4 DEF Goal, PastSolve, It, Newton!After
<1>6. to \notin Decided
  BY <1>3 DEF Updating
<1>7. step' = [step EXCEPT ![th] = step[th] + 1] /\ step[th] + 1 \in Nat
  BY <1>1
<1> QED
  BY <1>1, <1>2, <1>3, <1>5, <1>6, <1>7, ThreadMove

(* Going on within an iterate.                                             *)
LEMMA StepOn ==
  ASSUME IInv, NEW th \in Threads, NEW to,
         Onward(loop[th], to), SameIterates(loop[th], to),
         loop' = [loop EXCEPT ![th] = to],
         UNCHANGED <<step, iter, converged>>
  PROVE  IInv' /\ OnlyMoves(th)
<1>1. step[th] \in Nat /\ iter[th] \in 1 .. MaxIter
  BY DEF IInv, ThreadsOK
<1>2. step' = [step EXCEPT ![th] = step[th]] /\ iter' = [iter EXCEPT ![th] = iter[th]]
  BY DEF IInv, ThreadsOK
<1>3. Goal(th) = IF to \in Updating
                 THEN Newton!After([step |-> step[th], iter |-> iter[th]], converged[th[1]])
                 ELSE [step |-> step[th], iter |-> iter[th]]
  BY DEF Goal, PastSolve, It, SameIterates, Onward
<1>4. to \in Decided => converged[th[1]] \/ iter[th] = MaxIter
  BY DEF IInv, StepEnds, SameIterates
<1> QED
  BY <1>1, <1>2, <1>3, <1>4, ThreadMove DEF It, SameIterates

LEMMA NothingMoves ==
  ASSUME IInv, UNCHANGED <<loop, step, iter, converged>>
  PROVE  IInv' /\ \A th \in Threads : OnlyMoves(th)
<1>1. ThreadsOK' /\ MasterSections' /\ SamePart'
  BY DEF IInv, ThreadsOK, MasterSections, SamePart
<1>2. \A th \in Threads : It(th)' = It(th) /\ PastSolve(th)' = PastSolve(th)
  BY DEF It, PastSolve, Master
<1>3. SameGoal' /\ SameConverged' /\ SameIterate' /\ StepEnds'
  BY <1>2 DEF IInv, SameGoal, Goal, SameConverged, SameIterate, StepEnds
<1>4. \A th \in Threads : OnlyMoves(th)
  BY <1>2 DEF OnlyMoves, Goal
<1> QED
  BY <1>1, <1>3, <1>4 DEF IInv

(* A loop body, in any loop.                                               *)
LEMMA BodyKeepsIInv ==
  ASSUME IInv, NEW th \in Threads, NEW u \in Unit, NEW at \in Loops,
         at \notin {"solve", "decide", "done"} \cup Barriers,
         Body(th, u, at), converged' = converged
  PROVE  IInv' /\ OnlyMoves(th)
<1>1. CASE UNCHANGED <<loop, step, iter>>
  BY <1>1, NothingMoves
<1>2. CASE Leave(th)
  <2>1. CASE at = "output"
    <3>1. loop' = [loop EXCEPT ![th] = IF step[th] = NumSteps THEN "done" ELSE "init_iteration"]
      BY <1>2, <2>1 DEF Leave, GoOn, Successor, Body
    <3>2. loop[th] \in Decided
      BY <2>1 DEF Body, Decided
    <3> QED
      BY <1>2, <2>1, <3>1, <3>2, StepEnd DEF Leave, Body
  <2>2. CASE at # "output"
    <3>1. Onward(loop[th], Successor(th)) /\ SameIterates(loop[th], Successor(th))
      BY <2>2, SuccessorOnward DEF Body
    <3> QED
      BY <1>2, <2>2, <3>1, StepOn DEF Leave, GoOn, Body
  <2> QED
    BY <2>1, <2>2
<1> QED
  BY <1>1, <1>2 DEF Body

LEMMA SkipKeepsIInv ==
  ASSUME IInv, NEW th \in Threads, Skip(th)
  PROVE  IInv' /\ OnlyMoves(th)
<1> USE DEF Onward, SameIterates, Loops, Parts, MasterParts, NumberingMaster, NumberingLoops,
            Exchanging, Preparing, Decided, Updating, Computing, SolvingMaster, SolvingLoops
<1>0. UNCHANGED <<su_id, converged>>
  BY DEF Skip, solveVars
<1>1. CASE loop[th] = "pre_exchange" /\ loop' = [loop EXCEPT ![th] = "pre_barrier"]
           /\ UNCHANGED <<step, iter>>
  BY <1>0, <1>1, StepOn
<1>2. CASE loop[th] \in {"launch", "init_iteration", "local"}
           /\ loop' = [loop EXCEPT ![th] = "solve_barrier"] /\ UNCHANGED <<step, iter>>
  BY <1>0, <1>2, StepOn
<1>3. CASE loop[th] = "update" /\ loop' = [loop EXCEPT ![th] = "decide"]
           /\ UNCHANGED <<step, iter>>
  BY <1>0, <1>3, StepOn
<1>4. CASE /\ loop[th] = "advance"
           /\ loop' = [loop EXCEPT ![th] = IF step[th] = NumSteps THEN "done" ELSE "init_iteration"]
           /\ step' = [step EXCEPT ![th] = @ + 1] /\ iter' = [iter EXCEPT ![th] = 1]
  BY <1>0, <1>4, StepEnd
<1> QED
  BY <1>1, <1>2, <1>3, <1>4 DEF Skip

LEMMA DecideKeepsIInv ==
  ASSUME IInv, NEW th \in Threads, Decide(th)
  PROVE  IInv' /\ OnlyMoves(th)
<1> USE DEF Onward, SameIterates, Loops, Parts, MasterParts, NumberingMaster, NumberingLoops,
            Exchanging, Preparing, Decided, Updating, Computing, SolvingMaster, SolvingLoops
<1>0. loop[th] = "decide" /\ UNCHANGED <<step, converged>>
  BY DEF Decide, solveVars
<1>1. step[th] \in Nat /\ iter[th] \in 1 .. MaxIter /\ MaxIter \in Nat
  BY MaxIterAssumption DEF IInv, ThreadsOK
<1>2. step' = [step EXCEPT ![th] = step[th]]
  BY <1>0 DEF IInv, ThreadsOK
<1>3. Goal(th) = Newton!After(It(th), converged[th[1]])
  BY <1>0 DEF Goal, PastSolve
<1>4. CASE converged[th[1]] \/ iter[th] = MaxIter
  <2>1. loop' = [loop EXCEPT ![th] = "advance"] /\ iter' = [iter EXCEPT ![th] = iter[th]]
    BY <1>4 DEF Decide, GoOn, IInv, ThreadsOK
  <2>2. Onward(loop[th], "advance")
    BY <1>0
  <2> QED
    BY <1>0, <1>1, <1>2, <1>3, <1>4, <2>1, <2>2, ThreadMove DEF It
<1>5. CASE ~(converged[th[1]] \/ iter[th] = MaxIter)
  <2>1. loop' = [loop EXCEPT ![th] = "local"] /\ iter' = [iter EXCEPT ![th] = iter[th] + 1]
    BY <1>5 DEF Decide, GoOn
  <2>2. iter[th] + 1 \in 1 .. MaxIter
    BY <1>1, <1>5
  <2>3. Goal(th) = [step |-> step[th], iter |-> iter[th] + 1]
    BY <1>3, <1>5 DEF Newton!After, It
  <2>4. Onward(loop[th], "local")
    BY <1>0
  <2> QED
    BY <1>0, <1>1, <1>2, <2>1, <2>2, <2>3, <2>4, ThreadMove
<1> QED
  BY <1>4, <1>5

(* Every step of one thread.                                               *)
LEMMA ThreadStepKeepsIInv ==
  ASSUME IInv, NEW th \in Threads, ThreadStep(th)
  PROVE  IInv' /\ OnlyMoves(th)
<1> USE DEF Loops, Parts, NumberingMaster, NumberingLoops, Exchanging, Preparing, Decided,
            Updating, Computing, SolvingMaster, SolvingLoops, Barriers
<1>1. CASE Skip(th)
  BY <1>1, SkipKeepsIInv
<1>2. CASE Decide(th)
  BY <1>2, DecideKeepsIInv
<1>3. CASE Gather(th) \/ Scatter(th)
  <2>1. /\ loop[th] \in {"gather", "scatter"} /\ UNCHANGED <<step, iter, converged>>
        /\ loop' = [loop EXCEPT ![th] = Successor(th)]
    BY <1>3 DEF Gather, Scatter, Leave, GoOn, solveVars
  <2>2. Onward(loop[th], Successor(th)) /\ SameIterates(loop[th], Successor(th))
    BY <2>1, SuccessorOnward
  <2> QED
    BY <2>1, <2>2, StepOn
<1>4. ASSUME NEW u \in Unit,
             \/ PreExchange(th, u) \/ PrePostReceive(th, u) \/ PreWaitSends(th, u)
             \/ GpExchange(th, u) \/ GpPostReceive(th, u) \/ GpWaitSends(th, u)
      PROVE  IInv' /\ OnlyMoves(th)
  <2>1. /\ \E at \in {"pre_exchange", "pre_post_receive", "pre_wait_sends",
                      "gp_exchange", "gp_post_receive", "gp_wait_sends"} : Body(th, u, at)
        /\ converged' = converged
    BY <1>4 DEF PreExchange, PrePostReceive, PreWaitSends, GpExchange, GpPostReceive,
         GpWaitSends, solveVars
  <2> QED
    BY <2>1, BodyKeepsIInv
<1>5. ASSUME NEW u \in Unit,
             \/ \E at \in {"launch", "init_iteration", "local", "sl_work", "output"} : Local(th, u, at)
             \/ Condense(th, u) \/ Assemble(th, u) \/ Update(th, u) \/ Advance(th, u)
      PROVE  IInv' /\ OnlyMoves(th)
  <2>1. /\ \E at \in {"launch", "init_iteration", "local", "sl_work", "output",
                      "condense", "assemble", "update", "advance"} : Body(th, u, at)
        /\ converged' = converged
    BY <1>5 DEF Local, Condense, Assemble, Update, Advance, solveVars
  <2> QED
    BY <2>1, BodyKeepsIInv
<1>6. ASSUME NEW u \in Unit,
             SlExchange(th, u) \/ SlReceive(th, u) \/ SlWaitSends(th, u) \/ Scrutinize(th, u)
      PROVE  IInv' /\ OnlyMoves(th)
  <2>1. /\ \E at \in {"sl_exchange", "sl_receive", "sl_wait_sends", "scrutinize"} : Body(th, u, at)
        /\ converged' = converged
    BY <1>6 DEF SlExchange, SlReceive, SlWaitSends, Scrutinize, Local, solveVars
  <2> QED
    BY <2>1, BodyKeepsIInv
<1> QED
  BY <1>1, <1>2, <1>3, <1>4, <1>5, <1>6 DEF ThreadStep

(* At a barrier all threads of a rank are at the same one.                 *)
LEMMA SameBarrier ==
  ASSUME IInv, NEW l \in Ranks, Barrier(l)
  PROVE  /\ loop[<<l, 0>>] \in Barriers
         /\ \A th \in Threads : th[1] = l => loop[th] = loop[<<l, 0>>]
<1>1. <<l, 0>> \in Threads
  BY RankHasMaster
<1>2. \A th \in Threads : th[1] = l => loop[th] \in Barriers
  BY DEF Barrier
<1>3. ASSUME NEW th \in Threads, th[1] = l
      PROVE  loop[th] = loop[<<l, 0>>]
  <2>1. <<l, 0>>[1] = l
    OBVIOUS
  <2>2. \A part \in Parts : loop[th] \in part => loop[<<l, 0>>] \in part
    BY <1>1, <1>3, <2>1 DEF IInv, SamePart
  <2>3. loop[th] \in Barriers /\ loop[<<l, 0>>] \in Barriers
    BY <1>1, <1>2, <1>3, <2>1
  <2> QED
    BY <2>2, <2>3 DEF Barriers, Parts, Exchanging, NumberingMaster, NumberingLoops, Preparing,
         Decided, Updating, Computing, SolvingMaster, SolvingLoops
<1> QED
  BY <1>1, <1>2, <1>3

LEMMA BarrierKeepsIInv ==
  ASSUME IInv, NEW l \in Ranks, Barrier(l)
  PROVE  IInv' /\ \A th \in Threads : It(th)' = It(th) /\ (PastSolve(th)' <=> PastSolve(th))
<1> DEFINE b == loop[<<l, 0>>]
<1>1. <<l, 0>> \in Threads /\ b \in Barriers
      /\ \A th \in Threads : th[1] = l => loop[th] = b
  BY SameBarrier, RankHasMaster
<1>2. /\ \A th \in Threads : th[1] = l => loop'[th] = AfterBarrier(th)
      /\ \A th \in Threads : th[1] # l => loop'[th] = loop[th]
      /\ UNCHANGED <<step, iter, converged>>
  BY DEF Barrier, solveVars
<1> DEFINE toMaster == CASE b = "pre_barrier" -> "gather"
                         [] b = "numbered_barrier" -> "launch"
                         [] b = "solve_barrier" -> "assemble"
                         [] b = "solved_barrier" -> "update"
           toOthers == CASE b = "pre_barrier" -> "numbered_barrier"
                         [] b = "numbered_barrier" -> "launch"
                         [] b = "solve_barrier" -> "solved_barrier"
                         [] b = "solved_barrier" -> "update"
<1>3. \A th \in Threads : th[1] = l =>
        loop'[th] = IF th[2] = 0 THEN toMaster ELSE toOthers
  BY <1>1, <1>2 DEF AfterBarrier, Barriers
<1>4. \E part \in Parts : toMaster \in part /\ toOthers \in part
      /\ \A other \in Parts : toMaster \in other \/ toOthers \in other => other = part
  BY <1>1 DEF Barriers, Parts, Exchanging, NumberingMaster, NumberingLoops, Preparing,
       Decided, Updating, Computing, SolvingMaster, SolvingLoops
<1>5. toMaster \in Loops /\ toOthers \in Loops
  BY <1>4 DEF Loops
<1>6. toOthers \notin MasterParts
  BY <1>1 DEF Barriers, MasterParts, NumberingMaster, SolvingMaster
<1>7. loop' \in [Threads -> Loops]
  <2>1. loop' = [th \in Threads |-> loop'[th]]
    BY DEF Barrier
  <2>2. \A th \in Threads : loop'[th] \in Loops
    BY <1>2, <1>3, <1>5 DEF IInv, ThreadsOK
  <2> QED
    BY <2>1, <2>2
<1>8. ThreadsOK'
  BY <1>2, <1>7 DEF IInv, ThreadsOK
<1>9. MasterSections'
  BY <1>2, <1>3, <1>6 DEF IInv, MasterSections
<1>10. SamePart'
  <2> SUFFICES ASSUME NEW th \in Threads, NEW m \in Threads, th[1] = m[1],
                      NEW part \in Parts, loop'[th] \in part
               PROVE  loop'[m] \in part
    BY DEF SamePart
  <2>1. CASE th[1] = l
    BY <2>1, <1>3, <1>4
  <2>2. CASE th[1] # l
    BY <2>2, <1>2 DEF IInv, SamePart
  <2> QED
    BY <2>1, <2>2
<1>11. ASSUME NEW th \in Threads
       PROVE  PastSolve(th)' = PastSolve(th)
  <2>1. CASE th[1] # l
    <3>1. loop'[th] = loop[th] /\ loop'[Master(th)] = loop[Master(th)]
      BY <2>1, <1>2, ThreadShape
    <3> QED
      BY <3>1 DEF PastSolve, Master
  <2>2. CASE th[1] = l
    <3>1. loop[th] = b /\ loop[Master(th)] = b
      BY <2>2, <1>1 DEF Master
    <3>2. Master(th) \in Threads /\ Master(th)[1] = l /\ Master(th)[2] = 0
      BY <2>2, ThreadShape DEF Master
    <3>3. loop'[Master(th)] = toMaster
      BY <3>2, <1>3
    <3>4. loop'[th] = toMaster \/ loop'[th] = toOthers
      BY <2>2, <1>3
    <3>5. PastSolve(th) <=> b = "solved_barrier"
      BY <3>1, <1>1 DEF PastSolve, Updating, Decided, Barriers
    <3>6. PastSolve(th)' <=> \/ loop'[th] \in Updating
                             \/ loop'[th] = "solved_barrier" /\ loop'[Master(th)] = "solved_barrier"
      BY DEF PastSolve, Master
    <3>7. CASE b = "solved_barrier"
      BY <3>4, <3>5, <3>6, <3>7 DEF Updating, PastSolve
    <3>8. CASE b \in {"pre_barrier", "numbered_barrier", "solve_barrier"}
      BY <3>3, <3>4, <3>5, <3>6, <3>8 DEF Updating, Decided, PastSolve
    <3> QED
      BY <3>7, <3>8, <1>1 DEF Barriers
  <2> QED
    BY <2>1, <2>2
<1>12. \A th \in Threads : It(th)' = It(th)
  BY <1>2 DEF It
<1>13. SameGoal' /\ SameConverged'
  BY <1>2, <1>11, <1>12 DEF IInv, SameGoal, SameConverged, Goal
<1>14. SameIterate'
  <2> SUFFICES ASSUME NEW th \in Threads, NEW m \in Threads, th[1] = m[1],
                      loop'[th] \in SolvingLoops, loop'[m] \in SolvingLoops
               PROVE  It(th) = It(m)
    BY <1>12 DEF SameIterate
  <2>1. CASE th[1] # l
    BY <2>1, <1>2 DEF IInv, SameIterate
  <2>2. CASE th[1] = l
    <3>1. b = "solve_barrier"
      BY <2>2, <1>1, <1>3 DEF Barriers, SolvingLoops, SolvingMaster
    <3>2. ~PastSolve(th) /\ ~PastSolve(m)
      BY <2>2, <3>1, <1>1 DEF PastSolve, Updating, Decided
    <3> QED
      BY <3>2 DEF IInv, SameGoal, Goal
  <2> QED
    BY <2>1, <2>2
<1>15. StepEnds'
  <2>1. toMaster \notin Decided /\ toOthers \notin Decided
    BY <1>1 DEF Barriers, Decided
  <2> QED
    BY <2>1, <1>2, <1>3 DEF IInv, StepEnds
<1> QED
  BY <1>8, <1>9, <1>10, <1>11, <1>12, <1>13, <1>14, <1>15 DEF IInv

(* When the masters are at the solve the other threads wait for its end,   *)
(* and all are in the same iterate.                                        *)
LEMMA AllAtSolve ==
  ASSUME IInv, \A th \in Masters : loop[th] = "solve", NEW th \in Threads
  PROVE  /\ loop[th] = IF th[2] = 0 THEN "solve" ELSE "solved_barrier"
         /\ ~PastSolve(th) /\ Goal(th) = It(th)
<1>1. Master(th) \in Threads /\ Master(th)[1] = th[1] /\ Master(th)[2] = 0
  BY ThreadShape DEF Master
<1>2. loop[Master(th)] = "solve"
  BY <1>1 DEF Masters
<1>3. loop[th] \in SolvingLoops
  BY <1>1, <1>2 DEF IInv, SamePart, Parts, SolvingLoops, SolvingMaster
<1>4. th[2] # 0 => loop[th] = "solved_barrier"
  BY <1>3 DEF IInv, MasterSections, MasterParts, SolvingLoops
<1>5. th[2] = 0 => loop[th] = "solve"
  BY DEF Masters
<1>6. ~PastSolve(th)
  BY <1>2, <1>4, <1>5 DEF PastSolve, Updating, Decided
<1> QED
  BY <1>4, <1>5, <1>6 DEF Goal

LEMMA SolveKeepsIInv ==
  ASSUME IInv, Solve
  PROVE  IInv'
<1> USE DEF Solve, SolveWith
<1>1. \A th \in Threads : /\ loop[th] = IF th[2] = 0 THEN "solve" ELSE "solved_barrier"
                          /\ ~PastSolve(th) /\ Goal(th) = It(th)
  BY AllAtSolve
<1>2. PICK small \in BOOLEAN : converged' = [l \in Ranks |-> small]
  OBVIOUS
<1>3. \A th \in Threads : loop'[th] = "solved_barrier"
  BY <1>1 DEF Masters, Successor
<1>4. UNCHANGED <<step, iter>> /\ \A th \in Threads : It(th)' = It(th)
  BY DEF It
<1>5. ThreadsOK'
  <2>1. loop' = [th \in Threads |-> loop'[th]]
    OBVIOUS
  <2>2. "solved_barrier" \in Loops
    BY DEF Loops, Parts, SolvingLoops
  <2>3. loop' \in [Threads -> Loops]
    BY <2>1, <2>2, <1>3
  <2> QED
    BY <2>3, <1>2, <1>4 DEF IInv, ThreadsOK
<1>6. MasterSections'
  BY <1>3 DEF MasterSections, MasterParts, NumberingMaster, SolvingMaster
<1>7. SamePart'
  BY <1>3 DEF SamePart
<1>8. \A th \in Threads : PastSolve(th)'
  <2> SUFFICES ASSUME NEW th \in Threads PROVE PastSolve(th)'
    OBVIOUS
  <2>1. loop'[th] = "solved_barrier" /\ loop'[Master(th)] = "solved_barrier"
    BY <1>3, ThreadShape
  <2> QED
    BY <2>1 DEF PastSolve, Master
<1>9. \A th, m \in Threads : It(th) = It(m)
  BY <1>1 DEF IInv, SameGoal
<1>10. \A th \in Threads : th[1] \in Ranks
  BY ThreadShape
<1>11. SameGoal' /\ SameConverged'
  BY <1>2, <1>4, <1>8, <1>9, <1>10 DEF SameGoal, SameConverged, Goal
<1>12. SameIterate'
  BY <1>4, <1>9 DEF SameIterate
<1>13. StepEnds'
  BY <1>3 DEF StepEnds, Decided
<1> QED
  BY <1>5, <1>6, <1>7, <1>11, <1>12, <1>13 DEF IInv

LEMMA NextIInv == IInv /\ [Next]_vars => IInv'
<1> SUFFICES ASSUME IInv, [Next]_vars PROVE IInv'
  OBVIOUS
<1>1. ASSUME NEW th \in Threads, ThreadStep(th) PROVE IInv'
  BY <1>1, ThreadStepKeepsIInv
<1>2. ASSUME NEW l \in Ranks, Barrier(l) PROVE IInv'
  BY <1>2, BarrierKeepsIInv
<1>3. CASE Solve
  BY <1>3, SolveKeepsIInv
<1>4. CASE Mpi \/ Terminated \/ UNCHANGED vars
  BY <1>4, NothingMoves DEF Mpi, Terminated, vars, threadVars, solveVars
<1> QED
  BY <1>1, <1>2, <1>3, <1>4 DEF Next, Progress

-----------------------------------------------------------------------------
(* The inductive invariant, for every partition and number of threads.     *)
THEOREM Invariance == Spec => []IInv
BY InitIInv, NextIInv, PTL DEF Spec

(* The data of a rank's submeshes is left to the master while it numbers   *)
(* the edges or assembles and solves the global system.                    *)
THEOREM MasterSectionsExclusive == Spec => []MasterAlone
<1>1. ASSUME IInv, NEW th \in Threads, NEW m \in Threads, th[1] = m[1], th # m,
             loop[m] \in MasterParts
      PROVE  loop[th] \notin MasterParts
  <2>1. m[2] = 0
    BY <1>1 DEF IInv, MasterSections
  <2>2. th[2] # 0
    BY <2>1, <1>1, ThreadShape
  <2> QED
    BY <2>2, <1>1 DEF IInv, MasterSections
<1>2. IInv => MasterAlone
  <2> SUFFICES ASSUME IInv, NEW th \in Threads, NEW m \in Threads, th[1] = m[1], th # m
               PROVE  /\ loop[m] \in NumberingMaster => loop[th] = "numbered_barrier"
                      /\ loop[m] \in SolvingMaster => loop[th] = "solved_barrier"
    BY DEF MasterAlone, NumberingMaster, SolvingMaster
  <2>1. \A part \in Parts : loop[m] \in part => loop[th] \in part
    BY DEF IInv, SamePart
  <2>2. loop[m] \in NumberingMaster => loop[th] \in NumberingLoops
    BY <2>1 DEF Parts, NumberingLoops
  <2>3. loop[m] \in SolvingMaster => loop[th] \in SolvingLoops
    BY <2>1 DEF Parts, SolvingLoops
  <2> QED
    BY <1>1, <2>2, <2>3 DEF MasterParts, NumberingLoops, SolvingLoops
<1> QED
  BY <1>2, Invariance, PTL

(* No thread meets a barrier or a collective call in another iterate than  *)
(* the threads it meets there.                                             *)
THEOREM IteratesAgree == Spec => []LockStep
<1>1. IInv => LockStep
  <2> SUFFICES ASSUME IInv, NEW th \in Threads, NEW m \in Threads,
                      \/ /\ th[1] = m[1]
                         /\ {loop[th], loop[m]} \subseteq SolvingLoops \cup {"solve_barrier"}
                      \/ loop[th] = "solve" /\ loop[m] = "solve"
               PROVE  It(th) = It(m)
    BY DEF LockStep, SolvingLoops, SolvingMaster, It
  <2>1. CASE ~PastSolve(th) /\ ~PastSolve(m)
    BY <2>1 DEF IInv, SameGoal, Goal
  <2>2. CASE th[1] = m[1] /\ {loop[th], loop[m]} \subseteq SolvingLoops
    BY <2>2 DEF IInv, SameIterate
  <2>3. ASSUME NEW x \in Threads, loop[x] \in {"solve", "solve_barrier"} PROVE ~PastSolve(x)
    BY <2>3 DEF PastSolve, Updating, Decided
  <2>4. CASE th[1] = m[1] /\ loop[th] = "solve_barrier" /\ loop[m] \in SolvingLoops
    <3>1. loop[m] \in Computing
      BY <2>4 DEF IInv, SamePart, Parts, Computing, Preparing
    <3> QED
      BY <2>4, <3>1 DEF Computing, Preparing, Updating, Decided, SolvingLoops, SolvingMaster
  <2>5. CASE th[1] = m[1] /\ loop[m] = "solve_barrier" /\ loop[th] \in SolvingLoops
    <3>1. loop[th] \in Computing
      BY <2>5 DEF IInv, SamePart, Parts, Computing, Preparing
    <3> QED
      BY <2>5, <3>1 DEF Computing, Preparing, Updating, Decided, SolvingLoops, SolvingMaster
  <2> QED
    BY <2>1, <2>2, <2>3, <2>4, <2>5
<1> QED
  BY <1>1, Invariance, PTL

-----------------------------------------------------------------------------
(* Where the threads are with their submeshes.                             *)

(* Every loop starts with the thread's first submesh; a thread without     *)
(* submeshes runs a loop body only as the master.                          *)
LoopStarts ==
  \A th \in Threads : su_id[th] # FirstId(th) =>
    \/ loop[th] \in MasterLoops
    \/ /\ loop[th] \in UnitLoops
       /\ FirstId(th) < EndSimId(th[1], th[2]) /\ FirstId(th) <= su_id[th]

Places == su_id \in [Threads -> Int] /\ LoopStarts

(* The numbers of a thread's submeshes.                                    *)
LEMMA RunIds ==
  ASSUME NEW th \in Threads
  PROVE  /\ FirstId(th) \in Int /\ EndSimId(th[1], th[2]) \in Int /\ NumUnits(th[1]) \in Int
         /\ th[2] = 0 => FirstId(th) = 0
         /\ \A u \in Unit : Runs(th, u) =>
              /\ Locality[u] = th[1] /\ SubmeshId[u] \in Nat
              /\ FirstId(th) <= SubmeshId[u] /\ SubmeshId[u] < EndSimId(th[1], th[2])
         /\ \A u \in Unit : Locality[u] = th[1] => SubmeshId[u] < NumUnits(th[1])
BY ThreadIds DEF FirstId

(* Submeshes of a rank have different numbers, and the last one a thread   *)
(* comes to in a loop is its last.                                         *)
LEMMA PassesOver ==
  ASSUME NEW th \in Threads, NEW u \in Unit, NEW w \in Unit,
         Locality[w] = th[1], Locality[u] = th[1], w # u,
         su_id[th] \in Int, su_id[th] = SubmeshId[u]
  PROVE  /\ SubmeshId[w] # su_id[th] /\ SubmeshId[w] \in Nat
         /\ (su_id[th] > SubmeshId[w]) <=> (su_id[th] + 1 > SubmeshId[w])
         /\ (SubmeshId[w] < su_id[th]) <=> (SubmeshId[w] < su_id[th] + 1)
<1>1. SubmeshId[w] # SubmeshId[u] /\ SubmeshId[w] \in Nat
  BY OmpiThreadsAssumption, CommunicatorAssumption
<1> QED
  BY <1>1

(* A loop body moves its thread to the next submesh or, after the last, to *)
(* the start of the next loop.                                             *)
LEMMA BodyMoves ==
  ASSUME IInv, Places, NEW th \in Threads, NEW u \in Unit, NEW at \in UnitLoops \cup MasterLoops,
         Body(th, u, at)
  PROVE  /\ at \in UnitLoops => Runs(th, u)
         /\ su_id' \in [Threads -> Int] /\ LoopStarts'
         /\ \A m \in Threads \ {th} : su_id'[m] = su_id[m]
         /\ \/ /\ loop' = loop /\ su_id'[th] = su_id[th] + 1
            \/ /\ loop' = [loop EXCEPT ![th] = Successor(th)]
               /\ su_id'[th] = FirstId(th) /\ su_id[th] + 1 >= EndId(th)
<1>1. su_id \in [Threads -> Int] /\ loop \in [Threads -> Loops] /\ FirstId(th) \in Int
  BY RunIds DEF Places, IInv, ThreadsOK
<1>2. EndId(th) \in Int /\ (at \in UnitLoops => EndId(th) = EndSimId(th[1], th[2]))
  BY RunIds DEF EndId, Body, UnitLoops, MasterLoops
<1>3. loop[th] = at /\ su_id[th] < EndId(th)
  BY DEF Body
<1>4. at \in UnitLoops => Runs(th, u)
  <2>1. at \in UnitLoops => FirstId(th) <= su_id[th]
    BY <1>1, <1>3 DEF Places, LoopStarts, UnitLoops, MasterLoops
  <2> QED
    BY <2>1, <1>2 DEF Body, Runs, ThreadRuns, FirstId
<1>5. CASE su_id[th] + 1 < EndId(th)
  <2>1. loop' = loop /\ su_id' = [su_id EXCEPT ![th] = @ + 1]
    BY <1>5 DEF Body
  <2>2. at \in UnitLoops => FirstId(th) < EndSimId(th[1], th[2]) /\ FirstId(th) <= su_id'[th]
    BY <1>1, <1>2, <1>3, <2>1 DEF Places, LoopStarts, UnitLoops, MasterLoops
  <2>3. LoopStarts'
    <3> SUFFICES ASSUME NEW m \in Threads, su_id'[m] # FirstId(m)
                 PROVE  \/ loop[m] \in MasterLoops
                        \/ /\ loop[m] \in UnitLoops
                           /\ FirstId(m) < EndSimId(m[1], m[2]) /\ FirstId(m) <= su_id'[m]
      BY <2>1 DEF LoopStarts
    <3>1. CASE m = th
      BY <3>1, <1>3, <2>2
    <3>2. CASE m # th
      BY <3>2, <2>1, <1>1 DEF Places, LoopStarts
    <3> QED
      BY <3>1, <3>2
  <2> QED
    BY <1>1, <1>4, <2>1, <2>3
<1>6. CASE ~(su_id[th] + 1 < EndId(th))
  <2>1. loop' = [loop EXCEPT ![th] = Successor(th)] /\ su_id' = [su_id EXCEPT ![th] = FirstId(th)]
    BY <1>6 DEF Body, Leave, GoOn
  <2>2. LoopStarts'
    BY <2>1, <1>1 DEF Places, LoopStarts
  <2>3. su_id[th] + 1 >= EndId(th)
    BY <1>1, <1>2, <1>6
  <2> QED
    BY <1>1, <1>4, <2>1, <2>2, <2>3
<1> QED
  BY <1>5, <1>6, <1>4

-----------------------------------------------------------------------------
(* The program implements the Newton iteration of GlobalProblem, whose     *)
(* iterate is read off the solution of rank 0: there has to be a rank 0.   *)
RankZero == 0 \in Ranks

Contribution == Unit \X Iterates

SystemTypes ==
  /\ su_id \in [Threads -> Int]
  /\ local_system \in [Unit -> Iterates]
  /\ system \in [Ranks -> SUBSET Contribution]
  /\ solution \in [Ranks -> SUBSET Contribution]
  /\ increment \in [Unit -> SUBSET Contribution]

(* The last iterate solved, the same on all ranks, and what follows it.    *)
Solved == IterateOf(solution[0])
Conv == solution[0] = {} \/ converged[0]

OneSolution == \A l \in Ranks : solution[l] = solution[0]

NextGoal ==
  \A th \in Threads :
    /\ Goal(th) = Newton!After(Solved, Conv)
    /\ PastSolve(th) => It(th) = Solved /\ Conv = converged[th[1]]

(* th has condensed u's systems for the solve before it.                   *)
Condensed(th, u) ==
  /\ ~PastSolve(th)
  /\ \/ loop[th] \in SolvingLoops \cup {"solve_barrier"}
     \/ loop[th] = "condense" /\ su_id[th] > SubmeshId[u]

(* th has yet to apply the increment last solved for to u.                 *)
ToApply(th, u) ==
  \/ loop[th] = "solved_barrier" /\ PastSolve(th)
  \/ loop[th] = "update" /\ su_id[th] <= SubmeshId[u]

Contributions ==
  \A th \in Threads, u \in Unit : Runs(th, u) =>
    local_system[u] = IF Condensed(th, u) THEN It(th) ELSE Solved

Increments ==
  \A th \in Threads, u \in Unit :
    Runs(th, u) /\ ~ToApply(th, u) => increment[u] = solution[th[1]]

(* The system of a rank has one contribution of each of its submeshes the  *)
(* master has come to, all to the master's iterate.                        *)
Assembled(l, u) ==
  /\ Locality[u] = l
  /\ \/ loop[<<l, 0>>] = "solve"
     \/ loop[<<l, 0>>] = "assemble" /\ SubmeshId[u] < su_id[<<l, 0>>]

Systems ==
  \A l \in Ranks : system[l] = {<<u, It(<<l, 0>>)>> : u \in {w \in Unit : Assembled(l, w)}}

SInv ==
  /\ SystemTypes /\ LoopStarts /\ OneSolution /\ NextGoal
  /\ Contributions /\ Increments /\ Systems

-----------------------------------------------------------------------------
(* Contributions of all submeshes to one iterate are of this iterate.      *)
LEMMA IterateOfAll ==
  ASSUME NEW x, Unit # {}
  PROVE  IterateOf(Unit \X {x}) = x /\ Unit \X {x} # {}
<1> DEFINE all == Unit \X {x}
<1>1. {c[2] : c \in all} = {x}
  <2>1. \A c \in all : c[2] = x
    OBVIOUS
  <2>2. PICK u \in Unit : TRUE
    OBVIOUS
  <2>3. <<u, x>> \in all /\ <<u, x>>[2] = x
    OBVIOUS
  <2> HIDE DEF all
  <2> QED
    BY <2>1, <2>3
<1>2. \E y \in {x} : all = Unit \X {y}
  OBVIOUS
<1>3. (CHOOSE y \in {x} : TRUE) = x
  OBVIOUS
<1> HIDE DEF all
<1>4. IterateOf(all) = x
  BY <1>1, <1>2, <1>3 DEF IterateOf
<1>5. all # {}
  BY <1>1
<1> QED
  BY <1>4, <1>5 DEF all

LEMMA NothingSolved == IterateOf({}) = [step |-> 0, iter |-> 1]
<1>1. {c[2] : c \in {}} = {}
  OBVIOUS
<1> QED
  BY <1>1 DEF IterateOf

LEMMA SInvPlaces == SInv => Places
BY DEF SInv, SystemTypes, Places

LEMMA InitSInv ==
  ASSUME RankZero, Init
  PROVE  SInv
<1> USE DEF Init
<1>1. SystemTypes
  <2>1. 0 \in Nat /\ 1 \in 1 .. MaxIter
    BY MaxIterAssumption
  <2>2. \A th \in Threads : FirstId(th) \in Int
    BY RunIds
  <2> QED
    BY <2>1, <2>2 DEF SystemTypes, Iterates
<1>2. LoopStarts
  BY DEF LoopStarts
<1>3. OneSolution
  BY DEF RankZero, OneSolution
<1>4. Solved = [step |-> 0, iter |-> 1] /\ Conv = TRUE
  BY NothingSolved DEF RankZero, Solved, Conv
<1>5. \A th \in Threads : It(th) = [step |-> 1, iter |-> 1] /\ ~PastSolve(th)
  BY DEF It, PastSolve, Updating, Decided
<1>6. NextGoal
  <2>1. Newton!After(Solved, Conv) = [step |-> 1, iter |-> 1]
    BY <1>4 DEF Newton!After
  <2>2. \A th \in Threads : Goal(th) = [step |-> 1, iter |-> 1]
    BY <1>5 DEF Goal
  <2> QED
    BY <1>5, <2>1, <2>2 DEF NextGoal
<1>7. Contributions
  BY <1>4 DEF Contributions, Condensed, SolvingLoops, SolvingMaster
<1>8. Increments
  BY ThreadShape DEF Increments
<1>9. Systems
  BY RankHasMaster DEF Systems, Assembled
<1> QED
  BY <1>1, <1>2, <1>3, <1>6, <1>7, <1>8, <1>9 DEF SInv

(* The goals change with the solution only.                                *)
LEMMA SolutionKept ==
  ASSUME SInv, NEW th \in Threads, OnlyMoves(th), UNCHANGED <<solution, converged>>
  PROVE  NextGoal' /\ OneSolution' /\ Solved' = Solved /\ Conv' = Conv
<1>1. Solved' = Solved /\ Conv' = Conv /\ OneSolution'
  BY DEF Solved, Conv, SInv, OneSolution
<1>2. NextGoal'
  <2> SUFFICES ASSUME NEW m \in Threads
               PROVE  /\ Goal(m)' = Newton!After(Solved', Conv')
                      /\ PastSolve(m)' => It(m)' = Solved' /\ Conv' = converged'[m[1]]
    BY DEF NextGoal
  <2>1. Goal(m)' = Goal(m) /\ (PastSolve(m)' => PastSolve(m) /\ It(m)' = It(m))
    BY DEF OnlyMoves
  <2>2. Newton!After(Solved', Conv') = Newton!After(Solved, Conv)
    BY <1>1 DEF Newton!After
  <2> QED
    BY <1>1, <2>1, <2>2 DEF SInv, NextGoal
<1> QED
  BY <1>1, <1>2

(* The other threads stand with their submeshes as they did.               *)
LEMMA OthersKept ==
  ASSUME NEW th \in Threads, OnlyMoves(th), NEW m \in Threads \ {th}, NEW u \in Unit,
         su_id'[m] = su_id[m]
  PROVE  /\ Condensed(m, u)' <=> Condensed(m, u)
         /\ ToApply(m, u)' <=> ToApply(m, u)
         /\ It(m)' = It(m)
<1>1. loop'[m] = loop[m] /\ It(m)' = It(m) /\ (PastSolve(m)' <=> PastSolve(m))
  BY DEF OnlyMoves
<1> QED
  BY <1>1 DEF Condensed, ToApply

(* The systems change with the masters that build them only.               *)
LEMMA SystemsKept ==
  ASSUME SInv, NEW th \in Threads, OnlyMoves(th), NEW l \in Ranks, system'[l] = system[l],
         \A m \in Threads \ {th} : su_id'[m] = su_id[m],
         <<l, 0>> # th \/ (loop[th] \notin SolvingMaster /\ loop'[th] \notin SolvingMaster)
  PROVE  system'[l] = {<<u, It(<<l, 0>>)'>> : u \in {w \in Unit : Assembled(l, w)'}}
<1>1. system[l] = {<<u, It(<<l, 0>>)>> : u \in {w \in Unit : Assembled(l, w)}}
  BY DEF SInv, Systems
<1>2. <<l, 0>> \in Threads
  BY RankHasMaster
<1>3. CASE <<l, 0>> = th
  <2>1. \A w \in Unit : ~Assembled(l, w) /\ ~Assembled(l, w)'
    BY <1>3 DEF Assembled, SolvingMaster
  <2> QED
    BY <1>1, <2>1
<1>4. CASE <<l, 0>> # th
  <2>1. It(<<l, 0>>)' = It(<<l, 0>>) /\ loop'[<<l, 0>>] = loop[<<l, 0>>]
    BY <1>2, <1>4 DEF OnlyMoves
  <2>2. \A w \in Unit : Assembled(l, w)' <=> Assembled(l, w)
    BY <1>2, <1>4, <2>1 DEF Assembled
  <2> QED
    BY <1>1, <2>1, <2>2
<1> QED
  BY <1>3, <1>4

(* A step that leaves the solver's data alone and takes its thread neither *)
(* out of the loops that build the system and apply its solution nor into  *)
(* one of them except at its start.                                        *)
LEMMA QuietStep ==
  ASSUME IInv, SInv, NEW th \in Threads, IInv', OnlyMoves(th), UNCHANGED solveVars,
         su_id' \in [Threads -> Int], LoopStarts',
         \A m \in Threads \ {th} : su_id'[m] = su_id[m],
         loop[th] \notin SolvingMaster, loop'[th] \notin SolvingMaster,
         \A u \in Unit : Runs(th, u) => ~Condensed(th, u) /\ ~Condensed(th, u)' /\ ~ToApply(th, u)
  PROVE  SInv' /\ UNCHANGED Newton!vars
<1>1. UNCHANGED <<local_system, system, solution, converged, increment>>
  BY DEF solveVars
<1>2. SystemTypes'
  BY <1>1 DEF SInv, SystemTypes
<1>3. NextGoal' /\ OneSolution' /\ Solved' = Solved
  BY <1>1, SolutionKept
<1>4. Contributions'
  <2> SUFFICES ASSUME NEW m \in Threads, NEW u \in Unit, Runs(m, u)
               PROVE  local_system'[u] = IF Condensed(m, u)' THEN It(m)' ELSE Solved'
    BY DEF Contributions, Runs
  <2>1. local_system[u] = IF Condensed(m, u) THEN It(m) ELSE Solved
    BY DEF SInv, Contributions
  <2>2. CASE m = th
    BY <2>1, <2>2, <1>1, <1>3
  <2>3. CASE m # th
    BY <2>1, <2>3, <1>1, <1>3, OthersKept
  <2> QED
    BY <2>2, <2>3
<1>5. Increments'
  <2> SUFFICES ASSUME NEW m \in Threads, NEW u \in Unit, Runs(m, u), ~ToApply(m, u)'
               PROVE  increment[u] = solution[m[1]]
    BY <1>1 DEF Increments, Runs
  <2>1. ~ToApply(m, u)
    BY OthersKept
  <2> QED
    BY <2>1 DEF SInv, Increments
<1>6. Systems'
  BY <1>1, SystemsKept DEF Systems
<1>7. UNCHANGED Newton!vars
  BY <1>1 DEF Newton!vars
<1> QED
  BY <1>2, <1>3, <1>4, <1>5, <1>6, <1>7 DEF SInv

(* The loops that neither build the system nor apply its solution.         *)
SystemLoops == SolvingLoops \cup {"solve_barrier", "condense", "update"}

LEMMA SuccessorQuiet ==
  ASSUME NEW th \in Threads, loop[th] \in Loops,
         loop[th] \notin SystemLoops \cup {"decide", "done"} \cup Barriers
  PROVE  Successor(th) \notin SystemLoops \ {"condense"}
<1> USE DEF SystemLoops, SolvingLoops, SolvingMaster
<1>1. CASE loop[th] \in {"pre_exchange", "pre_post_receive", "pre_wait_sends"}
  BY <1>1 DEF Successor
<1>2. CASE loop[th] \in {"gather", "scatter", "gp_exchange", "gp_post_receive", "gp_wait_sends"}
  BY <1>2 DEF Successor
<1>3. CASE loop[th] \in {"launch", "init_iteration", "local", "advance"}
  BY <1>3 DEF Successor
<1>4. CASE loop[th] \in {"sl_exchange", "sl_work", "sl_receive", "sl_wait_sends"}
  BY <1>4 DEF Successor
<1>5. CASE loop[th] \in {"scrutinize", "output"}
  BY <1>5 DEF Successor
<1> QED
  BY <1>1, <1>2, <1>3, <1>4, <1>5 DEF Barriers, Loops, Parts, Exchanging, NumberingMaster,
     NumberingLoops, Preparing, Decided, Updating, Computing

(* In none of its loops, and not before a loop's first submesh, has th     *)
(* condensed a submesh or one to update.                                   *)
LEMMA NotInSystem ==
  ASSUME NEW th \in Threads, NEW u \in Unit, Runs(th, u),
         loop[th] \notin SystemLoops \ {"condense"},
         loop[th] = "condense" => su_id[th] = FirstId(th)
  PROVE  ~Condensed(th, u) /\ ~ToApply(th, u)
<1>1. FirstId(th) <= SubmeshId[u] /\ FirstId(th) \in Int /\ SubmeshId[u] \in Int
  BY RunIds
<1>2. ~Condensed(th, u)
  <2>1. ~(su_id[th] > SubmeshId[u]) \/ loop[th] # "condense"
    BY <1>1
  <2> QED
    BY <2>1 DEF Condensed, SystemLoops, SolvingLoops, SolvingMaster
<1> QED
  BY <1>2 DEF ToApply, SystemLoops, SolvingLoops

LEMMA NotInSystemAfter ==
  ASSUME NEW th \in Threads, NEW u \in Unit, Runs(th, u),
         loop'[th] \notin SystemLoops \ {"condense"},
         loop'[th] = "condense" => su_id'[th] = FirstId(th)
  PROVE  ~Condensed(th, u)'
<1>1. FirstId(th) <= SubmeshId[u] /\ FirstId(th) \in Int /\ SubmeshId[u] \in Int
  BY RunIds
<1>2. ~(su_id'[th] > SubmeshId[u]) \/ loop'[th] # "condense"
  BY <1>1
<1> QED
  BY <1>2 DEF Condensed, SystemLoops, SolvingLoops, SolvingMaster

LEMMA QuietBody ==
  ASSUME IInv, SInv, NEW th \in Threads, NEW u \in Unit,
         NEW at \in (UnitLoops \cup MasterLoops) \ SystemLoops,
         IInv', OnlyMoves(th), Body(th, u, at), UNCHANGED solveVars
  PROVE  SInv' /\ UNCHANGED Newton!vars
<1>1. /\ su_id' \in [Threads -> Int] /\ LoopStarts'
      /\ \A m \in Threads \ {th} : su_id'[m] = su_id[m]
      /\ \/ loop' = loop
         \/ loop' = [loop EXCEPT ![th] = Successor(th)] /\ su_id'[th] = FirstId(th)
  BY BodyMoves, SInvPlaces
<1>2. loop[th] = at /\ loop \in [Threads -> Loops]
  BY DEF Body, IInv, ThreadsOK
<1>3. at \notin {"decide", "done"} \cup Barriers
  BY DEF UnitLoops, MasterLoops, Barriers
<1>4. at \notin SolvingMaster /\ at # "condense" /\ at \notin SystemLoops
  BY DEF SystemLoops, SolvingLoops
<1>5. /\ loop'[th] \notin SystemLoops \ {"condense"}
      /\ loop'[th] = "condense" => su_id'[th] = FirstId(th)
  BY <1>1, <1>2, <1>3, <1>4, SuccessorQuiet
<1>6. loop'[th] \notin SolvingMaster
  BY <1>5 DEF SystemLoops, SolvingLoops, SolvingMaster
<1>7. \A w \in Unit : Runs(th, w) => ~Condensed(th, w) /\ ~Condensed(th, w)' /\ ~ToApply(th, w)
  BY <1>2, <1>4, <1>5, NotInSystem, NotInSystemAfter
<1> QED
  BY <1>1, <1>2, <1>4, <1>6, <1>7, QuietStep

LEMMA SkipRefines ==
  ASSUME IInv, SInv, NEW th \in Threads, IInv', OnlyMoves(th), Skip(th)
  PROVE  SInv' /\ UNCHANGED Newton!vars
<1>1. /\ UNCHANGED solveVars /\ su_id' = su_id
      /\ loop[th] \in {"pre_exchange", "launch", "init_iteration", "local", "update", "advance"}
      /\ \E to \in {"pre_barrier", "solve_barrier", "decide", "done", "init_iteration"} :
           loop' = [loop EXCEPT ![th] = to]
  BY DEF Skip
<1>2. loop \in [Threads -> Loops] /\ su_id \in [Threads -> Int]
  BY DEF IInv, ThreadsOK, SInv, SystemTypes
<1>3. FirstId(th) >= EndSimId(th[1], th[2])
  BY <1>1 DEF Skip, EndId, MasterLoops
<1>4. FirstId(th) \in Int /\ EndSimId(th[1], th[2]) \in Int
      /\ \A u \in Unit : Runs(th, u) =>
           /\ SubmeshId[u] \in Nat
           /\ FirstId(th) <= SubmeshId[u] /\ SubmeshId[u] < EndSimId(th[1], th[2])
  BY RunIds
<1>5. \A u \in Unit : ~Runs(th, u)
  BY <1>3, <1>4
<1>6. su_id[th] = FirstId(th)
  BY <1>1, <1>3, <1>4 DEF SInv, LoopStarts, MasterLoops
<1>7. LoopStarts'
  <2> SUFFICES ASSUME NEW m \in Threads, su_id[m] # FirstId(m)
               PROVE  \/ loop'[m] \in MasterLoops
                      \/ /\ loop'[m] \in UnitLoops
                         /\ FirstId(m) < EndSimId(m[1], m[2]) /\ FirstId(m) <= su_id[m]
    BY <1>1 DEF LoopStarts
  <2>1. m # th
    BY <1>6
  <2>2. loop'[m] = loop[m]
    BY <1>1, <1>2, <2>1
  <2> QED
    BY <2>2 DEF SInv, LoopStarts
<1>8. loop[th] \notin SolvingMaster /\ loop'[th] \notin SolvingMaster
  BY <1>1, <1>2 DEF SolvingMaster
<1> QED
  BY <1>1, <1>2, <1>5, <1>7, <1>8, QuietStep

(* The steps by which a thread goes on without a submesh.                  *)
LEMMA GoOnRefines ==
  ASSUME IInv, SInv, NEW th \in Threads, IInv', OnlyMoves(th),
         loop[th] \in {"gather", "scatter", "decide"}, UNCHANGED solveVars,
         NEW to \in {"scatter", "gp_exchange", "advance", "local"}, GoOn(th, to)
  PROVE  SInv' /\ UNCHANGED Newton!vars
<1>1. loop' = [loop EXCEPT ![th] = to] /\ su_id' = [su_id EXCEPT ![th] = FirstId(th)]
  BY DEF GoOn
<1>2. loop \in [Threads -> Loops] /\ su_id \in [Threads -> Int] /\ FirstId(th) \in Int
  BY RunIds DEF IInv, ThreadsOK, SInv, SystemTypes
<1>3. su_id' \in [Threads -> Int] /\ \A m \in Threads \ {th} : su_id'[m] = su_id[m]
  BY <1>1, <1>2
<1>4. LoopStarts'
  BY <1>1, <1>2 DEF SInv, LoopStarts
<1>5. /\ loop[th] \notin SystemLoops /\ loop'[th] \notin SystemLoops
      /\ loop[th] # "condense" /\ loop'[th] # "condense"
      /\ loop[th] \notin SolvingMaster /\ loop'[th] \notin SolvingMaster
  BY <1>1, <1>2 DEF SystemLoops, SolvingLoops, SolvingMaster
<1>6. \A w \in Unit : Runs(th, w) => ~Condensed(th, w) /\ ~Condensed(th, w)' /\ ~ToApply(th, w)
  BY <1>5, NotInSystem, NotInSystemAfter
<1> QED
  BY <1>3, <1>4, <1>5, <1>6, QuietStep

-----------------------------------------------------------------------------
(* The loops of the global problem.                                        *)

(* Condensing the systems of a submesh is its contribution.                *)
LEMMA CondenseRefines ==
  ASSUME IInv, SInv, NEW th \in Threads, NEW u \in Unit, IInv', OnlyMoves(th), Condense(th, u)
  PROVE  SInv' /\ Newton!Contribute(u)
<1>1. Body(th, u, "condense") /\ UNCHANGED <<system, solution, converged, increment>>
      /\ local_system' = [local_system EXCEPT ![u] = It(th)]
  BY DEF Condense, It
<1>2. /\ Runs(th, u) /\ su_id' \in [Threads -> Int] /\ LoopStarts'
      /\ \A m \in Threads \ {th} : su_id'[m] = su_id[m]
      /\ \/ /\ loop' = loop /\ su_id'[th] = su_id[th] + 1
         \/ /\ loop' = [loop EXCEPT ![th] = Successor(th)]
            /\ su_id[th] + 1 >= EndId(th)
  BY <1>1, BodyMoves, SInvPlaces DEF UnitLoops
<1>3. /\ loop[th] = "condense" /\ su_id[th] = SubmeshId[u] /\ Successor(th) = "solve_barrier"
      /\ loop \in [Threads -> Loops] /\ su_id \in [Threads -> Int]
      /\ EndId(th) = EndSimId(th[1], th[2])
  BY <1>1 DEF Body, Successor, IInv, ThreadsOK, SInv, SystemTypes, EndId, MasterLoops
<1>4. It(th)' = It(th)
  BY <1>1, <1>3 DEF Body, Leave, It
<1>5. /\ loop'[th] \in {"condense", "solve_barrier"} /\ ~PastSolve(th) /\ ~PastSolve(th)'
  <2>1. loop'[th] \in {"condense", "solve_barrier"}
    BY <1>2, <1>3
  <2> QED
    BY <2>1, <1>3 DEF PastSolve, Updating, Decided
<1>6. \A w \in Unit : Runs(th, w) =>
        /\ Locality[w] = th[1] /\ SubmeshId[w] \in Nat
        /\ EndSimId(th[1], th[2]) \in Int /\ SubmeshId[w] < EndSimId(th[1], th[2])
  BY RunIds
<1>7. Condensed(th, u)' /\ ~Condensed(th, u)
  <2>1. SubmeshId[u] \in Nat /\ su_id[th] \in Int
    BY <1>2, <1>3, <1>6
  <2>2. ~Condensed(th, u)
    BY <2>1, <1>3 DEF Condensed, SolvingLoops, SolvingMaster
  <2>3. CASE loop' = loop /\ su_id'[th] = su_id[th] + 1
    BY <2>1, <2>2, <2>3, <1>3, <1>5 DEF Condensed
  <2>4. CASE loop' = [loop EXCEPT ![th] = Successor(th)]
    BY <2>2, <2>4, <1>3, <1>5 DEF Condensed
  <2> QED
    BY <2>3, <2>4, <1>2
<1>8. \A w \in Unit \ {u} : Runs(th, w) => (Condensed(th, w)' <=> Condensed(th, w))
  <2> SUFFICES ASSUME NEW w \in Unit \ {u}, Runs(th, w)
               PROVE  Condensed(th, w)' <=> Condensed(th, w)
    OBVIOUS
  <2>1. SubmeshId[w] # su_id[th] /\ ((su_id[th] > SubmeshId[w]) <=> (su_id[th] + 1 > SubmeshId[w]))
    BY <1>2, <1>3, <1>6, PassesOver
  <2>2. Condensed(th, w) <=> su_id[th] > SubmeshId[w]
    BY <1>3, <1>5 DEF Condensed, SolvingLoops, SolvingMaster
  <2>3. CASE loop' = loop /\ su_id'[th] = su_id[th] + 1
    BY <2>1, <2>2, <2>3, <1>3, <1>5 DEF Condensed, SolvingLoops, SolvingMaster
  <2>4. CASE loop' = [loop EXCEPT ![th] = Successor(th)] /\ su_id[th] + 1 >= EndId(th)
    <3>1. su_id[th] > SubmeshId[w]
      BY <2>1, <2>4, <1>3, <1>6
    <3> QED
      BY <3>1, <2>2, <2>4, <1>3, <1>5 DEF Condensed
  <2> QED
    BY <2>3, <2>4, <1>2
<1>9. \A m \in Threads : Runs(m, u) => m = th
  BY <1>2, RunByOne
<1>10. NextGoal' /\ OneSolution' /\ Solved' = Solved /\ Conv' = Conv
  BY <1>1, SolutionKept
<1>11. SystemTypes'
  <2>1. It(th) \in Iterates
    BY DEF It, Iterates, IInv, ThreadsOK
  <2> QED
    BY <2>1, <1>1, <1>2 DEF SInv, SystemTypes
<1>12. local_system'[u] = It(th) /\ \A w \in Unit \ {u} : local_system'[w] = local_system[w]
  BY <1>1 DEF SInv, SystemTypes
<1>13. Contributions'
  <2> SUFFICES ASSUME NEW m \in Threads, NEW w \in Unit, Runs(m, w)
               PROVE  local_system'[w] = IF Condensed(m, w)' THEN It(m)' ELSE Solved'
    BY DEF Contributions, Runs
  <2>1. CASE w = u
    BY <2>1, <1>4, <1>7, <1>9, <1>12
  <2>2. CASE w # u
    <3>1. local_system[w] = IF Condensed(m, w) THEN It(m) ELSE Solved
      BY DEF SInv, Contributions
    <3>2. (Condensed(m, w)' <=> Condensed(m, w)) /\ It(m)' = It(m)
      BY <2>2, <1>2, <1>4, <1>8, OthersKept
    <3> QED
      BY <3>1, <3>2, <2>2, <1>10, <1>12
  <2> QED
    BY <2>1, <2>2
<1>14. \A w \in Unit : ~ToApply(th, w)
  BY <1>3 DEF ToApply
<1>15. Increments'
  <2> SUFFICES ASSUME NEW m \in Threads, NEW w \in Unit, Runs(m, w), ~ToApply(m, w)'
               PROVE  increment[w] = solution[m[1]]
    BY <1>1 DEF Increments, Runs
  <2>1. ~ToApply(m, w)
    BY <1>2, <1>14, OthersKept
  <2> QED
    BY <2>1 DEF SInv, Increments
<1>16. Systems'
  <2>1. loop[th] \notin SolvingMaster /\ loop'[th] \notin SolvingMaster
    BY <1>3, <1>5 DEF SolvingMaster
  <2> QED
    BY <2>1, <1>1, <1>2, SystemsKept DEF Systems
<1>17. Newton!Contribute(u)
  <2>1. local_system[u] = Solved
    BY <1>2, <1>7 DEF SInv, Contributions
  <2>2. increment[u] = solution[0]
    BY <1>2, <1>14, ThreadShape DEF SInv, Increments, OneSolution
  <2>3. It(th) = Newton!After(Solved, Conv)
    BY <1>5 DEF SInv, NextGoal, Goal
  <2>4. [w \in Unit |-> IterateOf(increment[w])][u] = Solved
    BY <2>2 DEF Solved
  <2> QED
    BY <2>1, <2>3, <2>4, <1>1, <1>10 DEF Newton!Contribute, Solved, Conv
<1> QED
  BY <1>2, <1>10, <1>11, <1>13, <1>15, <1>16, <1>17 DEF SInv

(* The master adds what the threads of its rank have contributed.          *)
LEMMA AssembleRefines ==
  ASSUME IInv, SInv, NEW th \in Threads, NEW u \in Unit, IInv', OnlyMoves(th), Assemble(th, u)
  PROVE  SInv' /\ UNCHANGED Newton!vars
<1> DEFINE l == th[1]
<1>1. /\ Body(th, u, "assemble")
      /\ UNCHANGED <<local_system, solution, converged, increment>>
      /\ system' = [system EXCEPT ![l] = @ \cup {<<u, local_system[u]>>}]
  BY DEF Assemble
<1>2. /\ su_id' \in [Threads -> Int] /\ LoopStarts'
      /\ \A m \in Threads \ {th} : su_id'[m] = su_id[m]
      /\ \/ /\ loop' = loop /\ su_id'[th] = su_id[th] + 1
         \/ /\ loop' = [loop EXCEPT ![th] = Successor(th)]
            /\ su_id[th] + 1 >= EndId(th)
  BY <1>1, BodyMoves, SInvPlaces DEF MasterLoops
<1>3. /\ loop[th] = "assemble" /\ su_id[th] = SubmeshId[u] /\ Successor(th) = "solve"
      /\ loop \in [Threads -> Loops] /\ su_id \in [Threads -> Int]
      /\ EndId(th) = NumUnits(l) /\ Locality[u] = l
  BY <1>1 DEF Body, Successor, IInv, ThreadsOK, SInv, SystemTypes, EndId, MasterLoops
<1>4. It(th)' = It(th)
  BY <1>1, <1>3 DEF Body, Leave, It
<1>5. th = <<l, 0>> /\ l \in Ranks
  BY <1>3, ThreadShape DEF IInv, MasterSections, MasterParts, SolvingMaster
<1>6. loop'[th] \in {"assemble", "solve"}
  BY <1>2, <1>3
<1>7. \A w \in Unit : /\ ~ToApply(th, w)
                      /\ Condensed(th, w) /\ Condensed(th, w)'
  <2>1. ~PastSolve(th) /\ ~PastSolve(th)'
    BY <1>3, <1>6 DEF PastSolve, Updating, Decided
  <2> QED
    BY <2>1, <1>3, <1>6 DEF Condensed, ToApply, SolvingLoops, SolvingMaster
<1>8. NextGoal' /\ OneSolution' /\ Solved' = Solved
  BY <1>1, SolutionKept
<1>9. SystemTypes'
  <2>1. <<u, local_system[u]>> \in Contribution
    BY DEF SInv, SystemTypes, Contribution
  <2>2. system[l] \in SUBSET Contribution
    BY <1>5 DEF SInv, SystemTypes
  <2>3. system' \in [Ranks -> SUBSET Contribution]
    BY <2>1, <2>2, <1>1 DEF SInv, SystemTypes
  <2> QED
    BY <2>3, <1>1, <1>2 DEF SInv, SystemTypes
<1>10. Contributions'
  <2> SUFFICES ASSUME NEW m \in Threads, NEW w \in Unit, Runs(m, w)
               PROVE  local_system'[w] = IF Condensed(m, w)' THEN It(m)' ELSE Solved'
    BY DEF Contributions, Runs
  <2>1. local_system[w] = IF Condensed(m, w) THEN It(m) ELSE Solved
    BY DEF SInv, Contributions
  <2>2. (Condensed(m, w)' <=> Condensed(m, w)) /\ It(m)' = It(m)
    BY <1>2, <1>4, <1>7, OthersKept
  <2> QED
    BY <2>1, <2>2, <1>1, <1>8
<1>11. Increments'
  <2> SUFFICES ASSUME NEW m \in Threads, NEW w \in Unit, Runs(m, w), ~ToApply(m, w)'
               PROVE  increment[w] = solution[m[1]]
    BY <1>1 DEF Increments, Runs
  <2>1. ~ToApply(m, w)
    BY <1>2, <1>7, OthersKept
  <2> QED
    BY <2>1 DEF SInv, Increments
<1>12. local_system[u] = It(th)
  <2>1. PICK m \in Threads : Runs(m, u)
    BY RunByOne
  <2>2. m[1] = l
    BY <2>1, <1>3 DEF Runs, ThreadRuns
  <2>3. loop[m] \in SolvingLoops
    BY <2>2, <1>3 DEF IInv, SamePart, Parts, SolvingLoops, SolvingMaster
  <2>4. ~PastSolve(m)
    BY <2>2, <2>3, <1>3, <1>5 DEF PastSolve, Master, Updating, Decided, SolvingLoops, SolvingMaster
  <2>5. Condensed(m, u)
    BY <2>3, <2>4 DEF Condensed
  <2>6. It(m) = It(th)
    BY <2>2, <2>3, <1>3 DEF IInv, SameIterate, SolvingLoops, SolvingMaster
  <2> QED
    BY <2>1, <2>5, <2>6 DEF SInv, Contributions
<1>13. \A w \in Unit : Assembled(l, w)' <=> Assembled(l, w) \/ w = u
  <2> SUFFICES ASSUME NEW w \in Unit, Locality[w] = l
               PROVE  Assembled(l, w)' <=> Assembled(l, w) \/ w = u
    BY <1>3 DEF Assembled
  <2>1. Assembled(l, w) <=> SubmeshId[w] < su_id[th]
    BY <1>3, <1>5 DEF Assembled
  <2>2. SubmeshId[w] \in Nat /\ SubmeshId[w] < NumUnits(l) /\ NumUnits(l) \in Int
    BY RunIds, CommunicatorAssumption
  <2>3. w # u => /\ SubmeshId[w] # su_id[th]
                 /\ (SubmeshId[w] < su_id[th]) <=> (SubmeshId[w] < su_id[th] + 1)
    BY <1>3, PassesOver
  <2>4. CASE loop' = loop /\ su_id'[th] = su_id[th] + 1
    <3>1. Assembled(l, w)' <=> SubmeshId[w] < su_id[th] + 1
      BY <2>4, <1>3, <1>5 DEF Assembled
    <3> QED
      BY <3>1, <2>1, <2>2, <2>3, <1>3
  <2>5. CASE loop' = [loop EXCEPT ![th] = Successor(th)] /\ su_id[th] + 1 >= EndId(th)
    <3>1. Assembled(l, w)'
      BY <2>5, <1>3, <1>5 DEF Assembled
    <3>2. SubmeshId[w] < su_id[th] \/ SubmeshId[w] = su_id[th]
      BY <2>2, <2>5, <1>3
    <3> QED
      BY <3>1, <3>2, <2>1, <2>3
  <2> QED
    BY <2>4, <2>5, <1>2
<1>14. Systems'
  <2> SUFFICES ASSUME NEW r \in Ranks
               PROVE  system'[r] = {<<w, It(<<r, 0>>)'>> : w \in {v \in Unit : Assembled(r, v)'}}
    BY DEF Systems
  <2>1. CASE r = l
    <3>1. system[l] = {<<w, It(th)>> : w \in {v \in Unit : Assembled(l, v)}}
      BY <1>5 DEF SInv, Systems
    <3>2. system'[l] = system[l] \cup {<<u, It(th)>>}
      BY <1>1, <1>5, <1>12 DEF SInv, SystemTypes
    <3> QED
      BY <2>1, <3>1, <3>2, <1>4, <1>5, <1>13
  <2>2. CASE r # l
    <3>1. system'[r] = system[r]
      BY <2>2, <1>1 DEF SInv, SystemTypes
    <3>2. <<r, 0>> # th
      BY <2>2
    <3> QED
      BY <3>1, <3>2, <1>2, SystemsKept
  <2> QED
    BY <2>1, <2>2
<1>15. UNCHANGED Newton!vars
  BY <1>1 DEF Newton!vars
<1> QED
  BY <1>2, <1>8, <1>9, <1>10, <1>11, <1>14, <1>15 DEF SInv

(* Updating a submesh applies the increment, unless it was applied before. *)
LEMMA UpdateRefines ==
  ASSUME RankZero, IInv, SInv, NEW th \in Threads, NEW u \in Unit, IInv', OnlyMoves(th),
         Update(th, u)
  PROVE  SInv' /\ (Newton!Apply(u) \/ UNCHANGED Newton!vars)
<1>1. /\ Body(th, u, "update") /\ UNCHANGED <<local_system, system, solution, converged>>
      /\ increment' = [increment EXCEPT ![u] = solution[th[1]]]
  BY DEF Update
<1>2. /\ Runs(th, u) /\ su_id' \in [Threads -> Int] /\ LoopStarts'
      /\ \A m \in Threads \ {th} : su_id'[m] = su_id[m]
      /\ \/ /\ loop' = loop /\ su_id'[th] = su_id[th] + 1
         \/ /\ loop' = [loop EXCEPT ![th] = Successor(th)]
            /\ su_id[th] + 1 >= EndId(th)
  BY <1>1, BodyMoves, SInvPlaces DEF UnitLoops
<1>3. /\ loop[th] = "update" /\ su_id[th] = SubmeshId[u] /\ Successor(th) = "decide"
      /\ loop \in [Threads -> Loops] /\ su_id \in [Threads -> Int]
      /\ EndId(th) = EndSimId(th[1], th[2]) /\ th[1] = Locality[u] /\ th[1] \in Ranks
  BY <1>1, ThreadShape
     DEF Body, Successor, IInv, ThreadsOK, SInv, SystemTypes, EndId, MasterLoops
<1>4. loop'[th] \in {"update", "decide"}
  BY <1>2, <1>3
<1>5. \A w \in Unit : ~Condensed(th, w) /\ ~Condensed(th, w)'
  BY <1>3, <1>4 DEF Condensed, SolvingLoops, SolvingMaster
<1>6. \A w \in Unit : Runs(th, w) =>
        /\ Locality[w] = th[1] /\ SubmeshId[w] \in Nat
        /\ EndSimId(th[1], th[2]) \in Int /\ SubmeshId[w] < EndSimId(th[1], th[2])
  BY RunIds
<1>7. \A w \in Unit \ {u} : Runs(th, w) /\ ToApply(th, w) => ToApply(th, w)'
  <2> SUFFICES ASSUME NEW w \in Unit \ {u}, Runs(th, w), ToApply(th, w)
               PROVE  ToApply(th, w)'
    OBVIOUS
  <2>1. SubmeshId[w] # su_id[th] /\ ((su_id[th] > SubmeshId[w]) <=> (su_id[th] + 1 > SubmeshId[w]))
    BY <1>2, <1>3, <1>6, PassesOver
  <2>2. su_id[th] <= SubmeshId[w]
    BY <1>3 DEF ToApply
  <2>3. su_id[th] + 1 <= SubmeshId[w]
    BY <2>1, <2>2, <1>3, <1>6
  <2>4. loop' = loop /\ su_id'[th] = su_id[th] + 1
    BY <2>3, <1>2, <1>3, <1>6
  <2> QED
    BY <2>3, <2>4, <1>3 DEF ToApply
<1>8. NextGoal' /\ OneSolution' /\ Solved' = Solved /\ Conv' = Conv
  BY <1>1, SolutionKept
<1>9. solution[th[1]] = solution[0] /\ solution[th[1]] \in SUBSET Contribution
  BY <1>3 DEF SInv, OneSolution, SystemTypes
<1>10. SystemTypes'
  BY <1>1, <1>2, <1>9 DEF SInv, SystemTypes
<1>11. Contributions'
  <2> SUFFICES ASSUME NEW m \in Threads, NEW w \in Unit, Runs(m, w)
               PROVE  local_system'[w] = IF Condensed(m, w)' THEN It(m)' ELSE Solved'
    BY DEF Contributions, Runs
  <2>1. local_system[w] = IF Condensed(m, w) THEN It(m) ELSE Solved
    BY DEF SInv, Contributions
  <2>2. (Condensed(m, w)' <=> Condensed(m, w)) /\ (m # th => It(m)' = It(m))
    BY <1>2, <1>5, OthersKept
  <2> QED
    BY <2>1, <2>2, <1>1, <1>5, <1>8
<1>12. /\ increment'[u] = solution[th[1]]
       /\ \A w \in Unit \ {u} : increment'[w] = increment[w]
  BY <1>1 DEF SInv, SystemTypes
<1>13. Increments'
  <2> SUFFICES ASSUME NEW m \in Threads, NEW w \in Unit, Runs(m, w), ~ToApply(m, w)'
               PROVE  increment'[w] = solution[m[1]]
    BY <1>1 DEF Increments, Runs
  <2>1. CASE w = u
    <3>1. m[1] = th[1]
      BY <2>1, <1>3 DEF Runs, ThreadRuns
    <3> QED
      BY <2>1, <3>1, <1>12
  <2>2. CASE w # u
    <3>1. ~ToApply(m, w)
      BY <2>2, <1>2, <1>7, OthersKept
    <3> QED
      BY <2>2, <3>1, <1>12 DEF SInv, Increments
  <2> QED
    BY <2>1, <2>2
<1>14. Systems'
  <2>1. loop[th] \notin SolvingMaster /\ loop'[th] \notin SolvingMaster
    BY <1>3, <1>4 DEF SolvingMaster
  <2> QED
    BY <2>1, <1>1, <1>2, SystemsKept DEF Systems
<1>15. Newton!Apply(u) \/ UNCHANGED Newton!vars
  <2> DEFINE applied == [w \in Unit |-> IterateOf(increment[w])]
             applied_next == [w \in Unit |-> IterateOf(increment'[w])]
  <2>1. local_system[u] = Solved
    BY <1>2, <1>5 DEF SInv, Contributions
  <2>2. IterateOf(increment'[u]) = Solved
    BY <1>9, <1>12 DEF Solved
  <2>3. applied_next = [applied EXCEPT ![u] = Solved]
    BY <2>2, <1>12
  <2>4. CASE applied[u] = Solved
    <3>1. applied_next = applied
      BY <2>3, <2>4
    <3> QED
      BY <3>1, <1>1 DEF Newton!vars
  <2>5. CASE applied[u] # Solved
    BY <2>1, <2>3, <2>5, <1>1 DEF Newton!Apply, Solved
  <2> QED
    BY <2>4, <2>5
<1> QED
  BY <1>2, <1>8, <1>10, <1>11, <1>13, <1>14, <1>15 DEF SInv

(* A barrier starts the master's assembly and the update at their first    *)
(* submesh.                                                                *)
LEMMA BarrierRefines ==
  ASSUME IInv, SInv, NEW l \in Ranks, Barrier(l), IInv',
         \A th \in Threads : It(th)' = It(th) /\ (PastSolve(th)' <=> PastSolve(th))
  PROVE  SInv' /\ UNCHANGED Newton!vars
<1> DEFINE b == loop[<<l, 0>>]
<1>1. <<l, 0>> \in Threads /\ b \in Barriers
      /\ \A th \in Threads : th[1] = l => loop[th] = b
  BY SameBarrier, RankHasMaster
<1>2. /\ \A th \in Threads : th[1] = l => loop'[th] = AfterBarrier(th)
      /\ \A th \in Threads : th[1] # l => loop'[th] = loop[th]
      /\ UNCHANGED <<su_id, local_system, system, solution, converged, increment>>
  BY DEF Barrier, solveVars
<1>3. \A th \in Threads : th[1] = l => su_id[th] = FirstId(th)
  BY <1>1 DEF SInv, LoopStarts, Barriers, MasterLoops, UnitLoops
<1>4. LoopStarts'
  <2> SUFFICES ASSUME NEW th \in Threads, su_id[th] # FirstId(th)
               PROVE  \/ loop'[th] \in MasterLoops
                      \/ /\ loop'[th] \in UnitLoops
                         /\ FirstId(th) < EndSimId(th[1], th[2]) /\ FirstId(th) <= su_id[th]
    BY <1>2 DEF LoopStarts
  <2>1. loop'[th] = loop[th]
    BY <1>2, <1>3
  <2> QED
    BY <2>1 DEF SInv, LoopStarts
<1>5. Solved' = Solved /\ Conv' = Conv /\ SystemTypes' /\ OneSolution'
  BY <1>2 DEF Solved, Conv, SInv, SystemTypes, OneSolution
<1>6. \A th \in Threads : Goal(th)' = Goal(th)
  BY <1>2 DEF Goal
<1>7. NextGoal'
  <2>1. Newton!After(Solved', Conv') = Newton!After(Solved, Conv)
    BY <1>5 DEF Newton!After
  <2> QED
    BY <2>1, <1>2, <1>5, <1>6 DEF SInv, NextGoal
<1>8. ASSUME NEW th \in Threads, NEW u \in Unit, th[1] # l
      PROVE  (Condensed(th, u)' <=> Condensed(th, u)) /\ (ToApply(th, u)' <=> ToApply(th, u))
  BY <1>2, <1>8 DEF Condensed, ToApply
<1>9. ASSUME NEW th \in Threads, NEW u \in Unit, th[1] = l, Runs(th, u)
      PROVE  (Condensed(th, u)' <=> Condensed(th, u)) /\ (ToApply(th, u) => ToApply(th, u)')
  <2>1. /\ loop[th] = b /\ loop'[th] = AfterBarrier(th) /\ su_id'[th] = FirstId(th)
        /\ su_id[th] = FirstId(th) /\ FirstId(th) <= SubmeshId[u]
    BY <1>1, <1>2, <1>3, <1>9, RunIds
  <2>2. CASE b = "solved_barrier"
    <3>1. PastSolve(th)
      BY <2>1, <2>2, <1>9 DEF PastSolve, Master
    <3>2. loop'[th] = "update"
      BY <2>1, <2>2 DEF AfterBarrier
    <3> QED
      BY <2>1, <3>1, <3>2 DEF Condensed, ToApply
  <2>3. CASE b = "solve_barrier"
    <3>1. loop'[th] \in {"assemble", "solved_barrier"}
      BY <2>1, <2>3 DEF AfterBarrier
    <3> QED
      BY <2>1, <2>3, <3>1 DEF Condensed, ToApply, SolvingLoops, SolvingMaster
  <2>4. CASE b \in {"pre_barrier", "numbered_barrier"}
    <3>1. loop'[th] \in {"gather", "numbered_barrier", "launch"}
      BY <2>1, <2>4 DEF AfterBarrier
    <3> QED
      BY <2>1, <2>4, <3>1 DEF Condensed, ToApply, SolvingLoops, SolvingMaster
  <2> QED
    BY <2>2, <2>3, <2>4, <1>1 DEF Barriers
<1>10. Contributions'
  <2> SUFFICES ASSUME NEW th \in Threads, NEW u \in Unit, Runs(th, u)
               PROVE  local_system'[u] = IF Condensed(th, u)' THEN It(th)' ELSE Solved'
    BY DEF Contributions, Runs
  <2>1. local_system[u] = IF Condensed(th, u) THEN It(th) ELSE Solved
    BY DEF SInv, Contributions
  <2>2. Condensed(th, u)' <=> Condensed(th, u)
    BY <1>8, <1>9
  <2> QED
    BY <2>1, <2>2, <1>2, <1>5
<1>11. Increments'
  <2> SUFFICES ASSUME NEW th \in Threads, NEW u \in Unit, Runs(th, u), ~ToApply(th, u)'
               PROVE  increment[u] = solution[th[1]]
    BY <1>2 DEF Increments, Runs
  <2>1. ~ToApply(th, u)
    BY <1>8, <1>9
  <2> QED
    BY <2>1 DEF SInv, Increments
<1>12. Systems'
  <2> SUFFICES ASSUME NEW r \in Ranks, NEW u \in Unit
               PROVE  Assembled(r, u)' <=> Assembled(r, u)
    <3>1. \A r \in Ranks : It(<<r, 0>>)' = It(<<r, 0>>)
      BY RankHasMaster
    <3>2. \A r \in Ranks : system[r] = {<<u, It(<<r, 0>>)>> : u \in {w \in Unit : Assembled(r, w)}}
      BY DEF SInv, Systems
    <3> QED
      BY <3>1, <3>2, <1>2 DEF Systems
  <2>1. <<r, 0>> \in Threads /\ <<r, 0>>[1] = r
    BY RankHasMaster
  <2>2. CASE r # l
    <3>1. loop'[<<r, 0>>] = loop[<<r, 0>>]
      BY <2>1, <2>2, <1>2
    <3> QED
      BY <3>1, <1>2 DEF Assembled
  <2>3. CASE r = l
    <3>1. b # "solve" /\ b # "assemble"
      BY <1>1 DEF Barriers
    <3>2. ~Assembled(r, u)
      BY <2>3, <3>1 DEF Assembled
    <3>3. loop'[<<l, 0>>] \in {"gather", "launch", "assemble", "update"}
      BY <1>1, <1>2 DEF AfterBarrier, Barriers
    <3>4. su_id'[<<l, 0>>] = 0 /\ SubmeshId[u] \in Nat
      BY <1>1, <1>2, <1>3, RunIds, CommunicatorAssumption
    <3>5. ~Assembled(r, u)'
      BY <2>3, <3>3, <3>4 DEF Assembled
    <3> QED
      BY <3>2, <3>5
  <2> QED
    BY <2>2, <2>3
<1>13. UNCHANGED Newton!vars
  BY <1>2 DEF Newton!vars
<1> QED
  BY <1>4, <1>5, <1>7, <1>10, <1>11, <1>12, <1>13 DEF SInv

(* What is solved is the contributions of all submeshes to one iterate.    *)
LEMMA SolveRefines ==
  ASSUME RankZero, IInv, SInv, Solve, IInv'
  PROVE  SInv' /\ Newton!Solve
<1> DEFINE next == Newton!After(Solved, Conv)
<1>1. \A th \in Masters : loop[th] = "solve"
  BY DEF Solve, SolveWith
<1>2. \A th \in Threads : /\ loop[th] = IF th[2] = 0 THEN "solve" ELSE "solved_barrier"
                          /\ ~PastSolve(th) /\ It(th) = next
  <2>1. \A th \in Threads : Goal(th) = next
    BY DEF SInv, NextGoal
  <2> HIDE DEF next
  <2> QED
    BY <1>1, <2>1, AllAtSolve
<1>3. /\ loop' = [th \in Threads |-> IF th \in Masters THEN Successor(th) ELSE loop[th]]
      /\ solution' = [l \in Ranks |-> UNION {system[r] : r \in Ranks}]
      /\ system' = [l \in Ranks |-> {}]
      /\ UNCHANGED <<su_id, step, iter, local_system, increment>>
  BY DEF Solve, SolveWith
<1>4. PICK small \in BOOLEAN : converged' = [l \in Ranks |-> small]
  BY DEF Solve, SolveWith
<1>5. \A th \in Threads : loop'[th] = "solved_barrier" /\ It(th)' = next
  BY <1>2, <1>3 DEF Masters, Successor, It
<1>6. \A th \in Threads : PastSolve(th)'
  BY <1>5, ThreadShape DEF PastSolve, Master
<1>7. Unit # {}
  BY DEF RankZero, Ranks
<1> HIDE DEF next
<1>8. \A l \in Ranks : system[l] = {<<u, next>> : u \in {w \in Unit : Locality[w] = l}}
  <2> SUFFICES ASSUME NEW l \in Ranks
               PROVE  system[l] = {<<u, next>> : u \in {w \in Unit : Locality[w] = l}}
    OBVIOUS
  <2>1. <<l, 0>> \in Threads /\ <<l, 0>>[2] = 0
    BY RankHasMaster
  <2>2. loop[<<l, 0>>] = "solve" /\ It(<<l, 0>>) = next
    BY <2>1, <1>2
  <2>3. \A w \in Unit : Assembled(l, w) <=> Locality[w] = l
    BY <2>2 DEF Assembled
  <2>4. system[l] = {<<u, It(<<l, 0>>)>> : u \in {w \in Unit : Assembled(l, w)}}
    BY DEF SInv, Systems
  <2> QED
    BY <2>2, <2>3, <2>4
<1>9. UNION {system[r] : r \in Ranks} = Unit \X {next}
  <2>1. \A u \in Unit : Locality[u] \in Ranks
    BY DEF Ranks
  <2>2. ASSUME NEW r \in Ranks PROVE system[r] \subseteq Unit \X {next}
    BY <1>8
  <2>3. ASSUME NEW u \in Unit PROVE <<u, next>> \in system[Locality[u]]
    BY <1>8, <2>1
  <2> QED
    BY <2>1, <2>2, <2>3
<1>10. \A l \in Ranks : solution'[l] = Unit \X {next}
  BY <1>3, <1>9
<1>11. Solved' = next /\ (Conv' <=> small) /\ solution'[0] # {}
  BY <1>4, <1>7, <1>10, IterateOfAll DEF RankZero, Solved, Conv
<1>12. Conv' = small
  BY <1>4, <1>11 DEF Conv, RankZero
<1>13. next \in Iterates
  <2> PICK u \in Unit : TRUE
    BY <1>7
  <2> PICK th \in Threads : Runs(th, u)
    BY RunByOne
  <2> QED
    BY <1>2 DEF It, Iterates, IInv, ThreadsOK
<1>14. SystemTypes'
  <2>1. solution' \in [Ranks -> SUBSET Contribution]
    BY <1>3, <1>9, <1>13 DEF Contribution
  <2> QED
    BY <2>1, <1>3 DEF SInv, SystemTypes
<1>15. LoopStarts'
  <2> SUFFICES ASSUME NEW th \in Threads, su_id[th] # FirstId(th) PROVE FALSE
    BY <1>3 DEF LoopStarts
  <2>1. loop[th] \notin MasterLoops \cup UnitLoops
    BY <1>2 DEF MasterLoops, UnitLoops
  <2> QED
    BY <2>1 DEF SInv, LoopStarts
<1>16. OneSolution'
  BY <1>10 DEF OneSolution, RankZero
<1>17. NextGoal'
  <2> SUFFICES ASSUME NEW th \in Threads
               PROVE  /\ Goal(th)' = Newton!After(Solved', Conv')
                      /\ It(th)' = Solved' /\ Conv' = converged'[th[1]]
    BY DEF NextGoal
  <2>1. converged'[th[1]] = small
    BY <1>4, ThreadShape
  <2> QED
    BY <2>1, <1>5, <1>6, <1>11, <1>12 DEF Goal
<1>18. ASSUME NEW u \in Unit PROVE local_system[u] = next
  <2> PICK th \in Threads : Runs(th, u)
    BY RunByOne
  <2>1. Condensed(th, u)
    BY <1>2 DEF Condensed, SolvingLoops, SolvingMaster
  <2> QED
    BY <2>1, <1>2 DEF SInv, Contributions
<1>19. Contributions'
  BY <1>3, <1>6, <1>11, <1>18 DEF Contributions, Condensed
<1>20. Increments'
  BY <1>5, <1>6 DEF Increments, ToApply
<1>21. Systems'
  <2>1. \A l \in Ranks, w \in Unit : ~Assembled(l, w)'
    BY <1>5, RankHasMaster DEF Assembled
  <2> QED
    BY <2>1, <1>3 DEF Systems
<1>22. Newton!Solve
  <2>1. Newton!After(IterateOf(solution[0]), solution[0] = {} \/ converged[0]) = next
    BY DEF next, Solved, Conv
  <2>2. IterateOf(solution'[0]) = next /\ (solution'[0] = {} \/ converged'[0]) \in BOOLEAN
    BY <1>11 DEF Solved
  <2> QED
    BY <2>1, <2>2, <1>3, <1>18 DEF Newton!Solve
<1> QED
  BY <1>14, <1>15, <1>16, <1>17, <1>19, <1>20, <1>21, <1>22 DEF SInv

LEMMA ThreadStepRefines ==
  ASSUME RankZero, IInv, SInv, NEW th \in Threads, ThreadStep(th)
  PROVE  SInv' /\ [Newton!Next]_(Newton!vars)
<1>0. IInv' /\ OnlyMoves(th)
  BY ThreadStepKeepsIInv
<1>1. CASE Skip(th)
  BY <1>0, <1>1, SkipRefines
<1>2. CASE Gather(th) \/ Scatter(th)
  <2>1. /\ loop[th] \in {"gather", "scatter"} /\ UNCHANGED solveVars /\ GoOn(th, Successor(th))
    BY <1>2 DEF Gather, Scatter, Leave
  <2>2. Successor(th) \in {"scatter", "gp_exchange"}
    BY <2>1 DEF Successor
  <2> QED
    BY <2>1, <2>2, <1>0, GoOnRefines
<1>3. CASE Decide(th)
  <2>1. /\ loop[th] = "decide" /\ UNCHANGED solveVars
        /\ GoOn(th, "advance") \/ GoOn(th, "local")
    BY <1>3 DEF Decide
  <2> QED
    BY <2>1, <1>0, GoOnRefines
<1>4. ASSUME NEW u \in Unit,
             \/ PreExchange(th, u) \/ PrePostReceive(th, u) \/ PreWaitSends(th, u)
             \/ GpExchange(th, u) \/ GpPostReceive(th, u) \/ GpWaitSends(th, u)
             \/ SlExchange(th, u) \/ SlReceive(th, u) \/ SlWaitSends(th, u)
      PROVE  SInv' /\ UNCHANGED Newton!vars
  <2>1. /\ UNCHANGED solveVars
        /\ \E at \in {"pre_exchange", "pre_post_receive", "pre_wait_sends",
                      "gp_exchange", "gp_post_receive", "gp_wait_sends",
                      "sl_exchange", "sl_receive", "sl_wait_sends"} : Body(th, u, at)
    BY <1>4 DEF PreExchange, PrePostReceive, PreWaitSends, GpExchange, GpPostReceive,
         GpWaitSends, SlExchange, SlReceive, SlWaitSends
  <2> QED
    BY <2>1, <1>0, QuietBody
       DEF UnitLoops, MasterLoops, SystemLoops, SolvingLoops, SolvingMaster
<1>5. ASSUME NEW u \in Unit,
             \/ \E at \in {"launch", "init_iteration", "local", "sl_work", "output"} : Local(th, u, at)
             \/ Advance(th, u) \/ Scrutinize(th, u)
      PROVE  SInv' /\ UNCHANGED Newton!vars
  <2>1. /\ UNCHANGED solveVars
        /\ \E at \in {"launch", "init_iteration", "local", "sl_work", "output",
                      "advance", "scrutinize"} : Body(th, u, at)
    BY <1>5 DEF Local, Advance, Scrutinize
  <2> QED
    BY <2>1, <1>0, QuietBody
       DEF UnitLoops, MasterLoops, SystemLoops, SolvingLoops, SolvingMaster
<1>6. ASSUME NEW u \in Unit, Condense(th, u)
      PROVE  SInv' /\ Newton!Next
  BY <1>0, <1>6, CondenseRefines DEF Newton!Next
<1>7. ASSUME NEW u \in Unit, Assemble(th, u)
      PROVE  SInv' /\ UNCHANGED Newton!vars
  BY <1>0, <1>7, AssembleRefines
<1>8. ASSUME NEW u \in Unit, Update(th, u)
      PROVE  SInv' /\ [Newton!Next]_(Newton!vars)
  BY <1>0, <1>8, UpdateRefines DEF Newton!Next
<1> QED
  BY <1>1, <1>2, <1>3, <1>4, <1>5, <1>6, <1>7, <1>8 DEF ThreadStep

LEMMA NextRefines ==
  ASSUME RankZero, IInv, SInv, [Next]_vars
  PROVE  SInv' /\ [Newton!Next]_(Newton!vars)
<1>0. IInv'
  BY NextIInv
<1>1. ASSUME NEW th \in Threads, ThreadStep(th)
      PROVE  SInv' /\ [Newton!Next]_(Newton!vars)
  BY <1>1, ThreadStepRefines
<1>2. ASSUME NEW l \in Ranks, Barrier(l)
      PROVE  SInv' /\ UNCHANGED Newton!vars
  BY <1>0, <1>2, BarrierKeepsIInv, BarrierRefines
<1>3. CASE Solve
  BY <1>0, <1>3, SolveRefines DEF Newton!Next
<1>4. CASE Mpi \/ Terminated \/ UNCHANGED vars
  <2>1. UNCHANGED <<loop, su_id, step, iter, local_system, system, solution, converged, increment>>
    BY <1>4 DEF Mpi, Terminated, vars, threadVars, solveVars
  <2>2. UNCHANGED Newton!vars
    BY <2>1 DEF Newton!vars
  <2>3. \A th \in Threads : It(th)' = It(th) /\ PastSolve(th)' = PastSolve(th) /\ Goal(th)' = Goal(th)
    BY <2>1 DEF It, PastSolve, Goal, Master
  <2>4. Solved' = Solved /\ Conv' = Conv /\ SystemTypes' /\ OneSolution' /\ LoopStarts'
    BY <2>1 DEF Solved, Conv, SInv, SystemTypes, OneSolution, LoopStarts
  <2>5. NextGoal'
    <3>1. Newton!After(Solved', Conv') = Newton!After(Solved, Conv)
      BY <2>4 DEF Newton!After
    <3> QED
      BY <3>1, <2>1, <2>3, <2>4 DEF SInv, NextGoal
  <2>6. \A th \in Threads, u \in Unit :
          (Condensed(th, u)' <=> Condensed(th, u)) /\ (ToApply(th, u)' <=> ToApply(th, u))
    BY <2>1, <2>3 DEF Condensed, ToApply
  <2>7. Contributions' /\ Increments'
    BY <2>1, <2>3, <2>4, <2>6 DEF SInv, Contributions, Increments, Runs
  <2>8. Systems'
    <3>1. \A l \in Ranks, u \in Unit : Assembled(l, u)' <=> Assembled(l, u)
      BY <2>1 DEF Assembled
    <3>2. \A l \in Ranks : It(<<l, 0>>)' = It(<<l, 0>>)
      BY <2>1 DEF It
    <3>3. \A l \in Ranks : system[l] = {<<u, It(<<l, 0>>)>> : u \in {w \in Unit : Assembled(l, w)}}
      BY DEF SInv, Systems
    <3> QED
      BY <3>1, <3>2, <3>3, <2>1 DEF Systems
  <2> QED
    BY <2>2, <2>4, <2>5, <2>7, <2>8 DEF SInv
<1> QED
  BY <1>1, <1>2, <1>3, <1>4 DEF Next, Progress

LEMMA InitRefines ==
  ASSUME RankZero, Init
  PROVE  Newton!Init
<1>1. solution[0] = {} /\ \A u \in Unit : increment[u] = {}
  BY DEF RankZero, Init
<1>2. local_system = [u \in Unit |-> [step |-> 0, iter |-> 1]]
  BY DEF Init
<1> QED
  BY <1>1, <1>2, NothingSolved DEF Newton!Init

(* The solver on ranks and threads implements the Newton iteration on the  *)
(* whole mesh: every system solved is made of the contributions of all     *)
(* submeshes to one iterate, and every submesh applies its increment once  *)
(* before it contributes to the next one.                                  *)
THEOREM Implementation ==
  ASSUME RankZero
  PROVE  Spec => NewtonSpec
<1>1. Init => IInv /\ SInv /\ Newton!Init
  BY InitIInv, InitSInv, InitRefines
<1>2. IInv /\ SInv /\ [Next]_vars => IInv' /\ SInv' /\ [Newton!Next]_(Newton!vars)
  BY NextIInv, NextRefines
<1> QED
  BY <1>1, <1>2, PTL DEF Spec, NewtonSpec, Newton!Spec

-----------------------------------------------------------------------------
(* What GlobalProblem promises, of variables of its own.                   *)

VARIABLES contributed, solved, was_small, applied

Problem == INSTANCE GlobalProblem WITH converged <- was_small

LEMMA AfterType ==
  ASSUME NEW it \in Problem!Iterates, NEW conv \in BOOLEAN
  PROVE  Problem!After(it, conv) \in Problem!Iterates /\ Problem!After(it, conv) # it
<1>1. CASE conv \/ it.iter = MaxIter
  BY <1>1, MaxIterAssumption DEF Problem!After, Problem!Iterates
<1>2. CASE ~(conv \/ it.iter = MaxIter)
  <2>1. it.iter + 1 \in 1 .. MaxIter
    BY <1>2, MaxIterAssumption DEF Problem!Iterates
  <2>2. Problem!After(it, conv) = [it EXCEPT !.iter = it.iter + 1]
    BY <1>2 DEF Problem!After
  <2>3. [it EXCEPT !.iter = it.iter + 1] \in Problem!Iterates
    BY <2>1 DEF Problem!Iterates
  <2>4. [it EXCEPT !.iter = it.iter + 1].iter = it.iter + 1 /\ it.iter + 1 # it.iter
    BY <2>1 DEF Problem!Iterates
  <2> QED
    BY <2>2, <2>3, <2>4
<1> QED
  BY <1>1, <1>2

LEMMA ProblemInitInv == Problem!Init => Problem!Inv
<1> SUFFICES ASSUME Problem!Init PROVE Problem!Inv
  OBVIOUS
<1>1. solved \in Problem!Iterates
  BY MaxIterAssumption DEF Problem!Init, Problem!Iterates
<1> QED
  BY <1>1 DEF Problem!Init, Problem!Inv, Problem!TypeOK

LEMMA ProblemNextInv == Problem!Inv /\ [Problem!Next]_(Problem!vars) => Problem!Inv'
<1> SUFFICES ASSUME Problem!Inv, [Problem!Next]_(Problem!vars) PROVE Problem!Inv'
  OBVIOUS
<1>1. Problem!After(solved, was_small) \in Problem!Iterates
  BY AfterType DEF Problem!Inv, Problem!TypeOK
<1>2. ASSUME NEW u \in Unit, Problem!Contribute(u)
      PROVE  Problem!Inv'
  BY <1>1, <1>2 DEF Problem!Inv, Problem!TypeOK, Problem!Contribute
<1>3. CASE Problem!Solve
  BY <1>1, <1>3 DEF Problem!Inv, Problem!TypeOK, Problem!Solve
<1>4. ASSUME NEW u \in Unit, Problem!Apply(u)
      PROVE  Problem!Inv'
  BY <1>4 DEF Problem!Inv, Problem!TypeOK, Problem!Apply
<1>5. CASE UNCHANGED Problem!vars
  BY <1>5 DEF Problem!Inv, Problem!TypeOK, Problem!vars
<1> QED
  BY <1>2, <1>3, <1>4, <1>5 DEF Problem!Next

(* The inductive invariant holds for every number of submeshes.            *)
THEOREM SystemsInOrder == Problem!Spec => []Problem!Inv
BY ProblemInitInv, ProblemNextInv, PTL DEF Problem!Spec

(* Submeshes that are ahead of the solution are in the same iterate.       *)
THEOREM IteratesTogether == Problem!Spec => []Problem!OneSystem
<1>1. Problem!Inv => Problem!OneSystem
  BY DEF Problem!Inv, Problem!OneSystem
<1> QED
  BY <1>1, SystemsInOrder, PTL

(* A system is solved only when the previous increment is applied on all   *)
(* submeshes.                                                              *)
THEOREM EveryIncrementApplied == Problem!Spec => Problem!NoIncrementLost
<1> DEFINE Kept == solved' # solved => \A u \in Unit : applied[u] = solved
<1>1. Problem!Inv /\ [Problem!Next]_(Problem!vars) => [Kept]_(Problem!vars)
  <2> SUFFICES ASSUME Problem!Inv, Problem!Next, solved' # solved, NEW u \in Unit PROVE applied[u] = solved
    BY DEF Problem!vars
  <2>1. CASE Problem!Solve
    <3>1. Problem!After(solved, was_small) # solved
      BY AfterType DEF Problem!Inv, Problem!TypeOK
    <3> QED
      BY <2>1, <3>1 DEF Problem!Inv, Problem!Solve
  <2>2. ASSUME NEW w \in Unit, Problem!Contribute(w) \/ Problem!Apply(w) PROVE FALSE
    BY <2>2 DEF Problem!Contribute, Problem!Apply
  <2> QED
    BY <2>1, <2>2 DEF Problem!Next
<1> QED
  BY <1>1, SystemsInOrder, PTL DEF Problem!Spec, Problem!NoIncrementLost

-----------------------------------------------------------------------------
(* The exchanges: on every rank boundary the messages sent and not received*)
(* are those of consecutive rounds, at most one receive is posted (Link),  *)
(* and every submesh stands in its loops where its requests, its stamps and*)
(* the data it has stored say (UnitOK).                                    *)

(* The exchanges of a submesh follow one another: its coordinates, the     *)
(* numbers of its edges, the averages of each step it advances to.         *)
Stamped(c, ts) == ts \in Nat /\ IF c = "baryctr_state" THEN ts > 0 ELSE ts = 0
Round(c, ts) ==
  IF c = "baryctr_coord" THEN 1 ELSE IF c = "init_global_prob" THEN 2 ELSE ts + 2

(* The round a submesh has started last, which its send buffers tell.      *)
Started(u) ==
  IF send_buffer[u]["baryctr_state"] # -1 THEN send_buffer[u]["baryctr_state"] + 2
  ELSE IF send_buffer[u]["init_global_prob"] # -1 THEN 2
  ELSE IF send_buffer[u]["baryctr_coord"] # -1 THEN 1 ELSE 0

InTurn(u) ==
  /\ \A c \in CommTypes : send_buffer[u][c] # -1 => Stamped(c, send_buffer[u][c])
  /\ send_buffer[u]["init_global_prob"] # -1 => send_buffer[u]["baryctr_coord"] # -1
  /\ send_buffer[u]["baryctr_state"] # -1 => send_buffer[u]["init_global_prob"] # -1

(* Of the messages from u to v those of the first rounds are delivered: v  *)
(* waits for each before it asks for the next.                             *)
Delivered(u, v) == Started(v) - Len(posted[SendEnvelope(u, v)])

(* m is the message of round r from u to v.  Until MPI has read it, it is  *)
(* in the send buffer, which still holds what was sent.                    *)
OfRound(m, u, v, r) ==
  \E c \in CommTypes, ts \in Nat :
    /\ Stamped(c, ts) /\ Round(c, ts) = r
    /\ m.slot = <<u, v, c>>
    /\ IF m.data = NotRead THEN <<u, v, c>> \in unsent /\ send_buffer[u][c] = ts
       ELSE m.data = Written(u, v, c, ts)

(* The network holds the rounds started and not delivered, in their order. *)
InOrder(u, v) ==
  /\ Len(network[SendEnvelope(u, v)]) = Started(u) - Delivered(u, v)
  /\ \A i \in DOMAIN network[SendEnvelope(u, v)] :
       OfRound(network[SendEnvelope(u, v)][i], u, v, Delivered(u, v) + i)

(* At most one receive is posted, of the round v has started last.         *)
OneReceive(u, v) ==
  \/ posted[SendEnvelope(u, v)] = <<>>
  \/ \E c \in CommTypes :
       /\ posted[SendEnvelope(u, v)] = << <<v, u, c>> >>
       /\ send_buffer[v][c] # -1 /\ Round(c, send_buffer[v][c]) = Started(v)
       /\ <<v, u, c>> \in unreceived

(* A receive that is complete has brought what v's exchange asked for.     *)
Arrived(u, v) ==
  \A c \in CommTypes : send_buffer[v][c] # -1 /\ <<v, u, c>> \notin unreceived =>
    receive_buffer[<<v, u, c>>] = Written(u, v, c, send_buffer[v][c])

Link(u, v) == InOrder(u, v) /\ OneReceive(u, v) /\ Arrived(u, v)

Linked ==
  /\ CommTypeOK
  /\ \A u \in Unit : InTurn(u)
  /\ \A v \in Unit : \A u \in Neigh[v] : Link(u, v)
  /\ ~mpi_error

(* The loop that runs next for u, of those that exchange or follow one.    *)
Runner(u) == CHOOSE th \in Threads : Runs(th, u)

PreLoops == {"pre_exchange", "pre_post_receive", "pre_wait_sends"}
SlLoops == {"sl_exchange", "sl_work", "sl_receive", "sl_wait_sends"}
GpLoops == {"gp_exchange", "gp_post_receive", "gp_wait_sends"}
AdvancedLoops == SlLoops \cup {"scrutinize", "output"}

Ran(u) == loop[Runner(u)] \in UnitLoops /\ su_id[Runner(u)] > SubmeshId[u]
At(u) ==
  LET next == IF Ran(u) THEN Successor(Runner(u)) ELSE loop[Runner(u)]
  IN  IF next \in PreLoops \cup AdvancedLoops \cup {"done"} THEN next ELSE "computing"

StepOf(u) ==
  IF loop[Runner(u)] = "output" /\ Ran(u) THEN step[Runner(u)] + 1 ELSE step[Runner(u)]

(* The same for the master's exchange of the edges' numbers.               *)
GpAt(u) ==
  LET m == <<Locality[u], 0>>
  IN  IF loop[m] \in Exchanging \cup {"gather", "scatter"} THEN "gp_exchange"
      ELSE IF loop[m] \notin GpLoops THEN "numbered_barrier"
      ELSE IF su_id[m] > SubmeshId[u] THEN Successor(m) ELSE loop[m]

(* The stamps a submesh has and has sent.                                  *)
StepsLimited(u) == IF At(u) \in AdvancedLoops \ {"sl_exchange"} THEN StepOf(u) ELSE StepOf(u) - 1

Stamps(u) ==
  /\ timestamp[u] \in Nat /\ StepOf(u) \in Nat \ {0}
  /\ timestamp[u] = IF At(u) \in AdvancedLoops THEN StepOf(u) ELSE StepOf(u) - 1
  /\ At(u) \in SlLoops => SlopeLimiting
  /\ At(u) = "done" => StepOf(u) = NumSteps + 1
  /\ send_buffer[u]["baryctr_coord"] = IF At(u) = "pre_exchange" THEN -1 ELSE 0
  /\ send_buffer[u]["init_global_prob"] = IF GpAt(u) = "gp_exchange" THEN -1 ELSE 0
  /\ send_buffer[u]["baryctr_state"] =
       IF SlopeLimiting /\ StepsLimited(u) > 0 THEN StepsLimited(u) ELSE -1

(* A request is active between its start and the wait for it.              *)
Sending(u, c) ==
  \/ c = "baryctr_coord" /\ At(u) \in {"pre_post_receive", "pre_wait_sends"}
  \/ c = "init_global_prob" /\ GpAt(u) \in {"gp_post_receive", "gp_wait_sends"}
  \/ c = "baryctr_state" /\ At(u) \in {"sl_work", "sl_receive", "sl_wait_sends"}
Receiving(u, c) ==
  \/ c = "baryctr_coord" /\ At(u) = "pre_post_receive"
  \/ c = "init_global_prob" /\ GpAt(u) = "gp_post_receive"
  \/ c = "baryctr_state" /\ At(u) \in {"sl_work", "sl_receive"}

Requests(u) ==
  /\ \A s \in send_requests : s[1] = u => Sending(u, s[3])
  /\ \A s \in receive_requests : s[1] = u => Receiving(u, s[3])

(* What u has stored of its neighbours is what they have sent it last.     *)
Stored(u) ==
  \A v \in Neigh[u] :
    /\ At(u) \notin {"pre_exchange", "pre_post_receive"} =>
         baryctr_coord_neigh[<<u, v>>] = Written(v, u, "baryctr_coord", 0)
    /\ GpAt(u) \notin {"gp_exchange", "gp_post_receive"} =>
         bath_ex[<<u, v>>] = Written(v, u, "init_global_prob", 0)
    /\ SlopeLimiting /\ timestamp[u] > 0 /\ At(u) \notin {"sl_exchange", "sl_work", "sl_receive"} =>
         q_at_baryctr_neigh[<<u, v>>] = Written(v, u, "baryctr_state", timestamp[u])

(* The threads number the edges before the first step.                     *)
FirstStep == \A th \in Threads : loop[th] \in Exchanging \cup NumberingLoops => step[th] = 1

UnitOK(u) == Requests(u) /\ Stamps(u) /\ Stored(u)

CInv ==
  /\ timestamp \in [Unit -> Nat] /\ step \in [Threads -> Nat \ {0}]
  /\ Linked /\ Places /\ FirstStep
  /\ \A u \in Unit : UnitOK(u)

-----------------------------------------------------------------------------
(* One rank boundary, from u to v.                                         *)

LEMMA RoundsApart ==
  ASSUME NEW c \in CommTypes, NEW d \in CommTypes, NEW s, NEW t,
         Stamped(c, s), Stamped(d, t), Round(c, s) = Round(d, t)
  PROVE  c = d /\ s = t
BY IhdgOmpiAssumption DEF Stamped, Round

LEMMA StampTypes ==
  ASSUME CommTypeOK, NEW u \in Unit
  PROVE  \A c \in CommTypes : send_buffer[u][c] \in Nat \cup {-1}
BY DEF CommTypeOK

LEMMA StartedType ==
  ASSUME CommTypeOK, NEW u \in Unit
  PROVE  Started(u) \in Int
BY StampTypes, IhdgOmpiAssumption DEF Started

(* The exchange of the last round is the one its buffer is stamped for.    *)
LEMMA LatestStamp ==
  ASSUME CommTypeOK, NEW u \in Unit, InTurn(u), NEW c \in CommTypes, NEW ts,
         Stamped(c, ts), Round(c, ts) = Started(u)
  PROVE  send_buffer[u][c] = ts
<1> DEFINE coord == send_buffer[u]["baryctr_coord"]
           init == send_buffer[u]["init_global_prob"]
           state == send_buffer[u]["baryctr_state"]
<1>1. CommTypes = {"baryctr_coord", "init_global_prob", "baryctr_state"}
  BY IhdgOmpiAssumption
<1>2. /\ coord \in Nat \cup {-1} /\ init \in Nat \cup {-1} /\ state \in Nat \cup {-1}
      /\ coord # -1 => coord = 0
      /\ init # -1 => init = 0 /\ coord # -1
      /\ state # -1 => state > 0 /\ init # -1
  BY <1>1, StampTypes DEF InTurn, Stamped
<1>3. Started(u) = IF state # -1 THEN state + 2
                   ELSE IF init # -1 THEN 2 ELSE IF coord # -1 THEN 1 ELSE 0
  BY DEF Started
<1>4. ts \in Nat /\ c \in {"baryctr_coord", "init_global_prob", "baryctr_state"}
  BY <1>1 DEF Stamped
<1> HIDE DEF coord, init, state
<1>5. CASE c = "baryctr_coord"
  <2>1. ts = 0 /\ Started(u) = 1
    BY <1>5 DEF Stamped, Round
  <2>2. coord = 0
    BY <2>1, <1>2, <1>3
  <2> QED
    BY <1>5, <2>1, <2>2 DEF coord
<1>6. CASE c = "init_global_prob"
  <2>1. ts = 0 /\ Started(u) = 2
    BY <1>6 DEF Stamped, Round
  <2>2. init = 0
    BY <2>1, <1>2, <1>3
  <2> QED
    BY <1>6, <2>1, <2>2 DEF init
<1>7. CASE c = "baryctr_state"
  <2>1. ts > 0 /\ Started(u) = ts + 2
    BY <1>7 DEF Stamped, Round
  <2>2. state = ts
    BY <2>1, <1>2, <1>3, <1>4
  <2> QED
    BY <1>7, <2>2 DEF state
<1> QED
  BY <1>4, <1>5, <1>6, <1>7

(* A submesh starts the exchange of its next round.                        *)
LEMMA NextRound ==
  ASSUME CommTypeOK, NEW u \in Unit, InTurn(u), NEW c \in CommTypes, NEW ts,
         Stamped(c, ts), Round(c, ts) = Started(u) + 1, SetToSendBuffer(u, c, ts)
  PROVE  /\ InTurn(u)' /\ Started(u)' = Started(u) + 1
         /\ send_buffer'[u][c] = ts
         /\ \A d \in CommTypes \ {c} : send_buffer'[u][d] = send_buffer[u][d]
         /\ \A w \in Unit \ {u} : send_buffer'[w] = send_buffer[w]
<1> DEFINE coord == send_buffer[u]["baryctr_coord"]
           init == send_buffer[u]["init_global_prob"]
           state == send_buffer[u]["baryctr_state"]
<1>1. CommTypes = {"baryctr_coord", "init_global_prob", "baryctr_state"}
  BY IhdgOmpiAssumption
<1>2. /\ coord \in Nat \cup {-1} /\ init \in Nat \cup {-1} /\ state \in Nat \cup {-1}
      /\ coord # -1 => coord = 0
      /\ init # -1 => init = 0 /\ coord # -1
      /\ state # -1 => state > 0 /\ init # -1
  BY <1>1, StampTypes DEF InTurn, Stamped
<1>3. Started(u) = IF state # -1 THEN state + 2
                   ELSE IF init # -1 THEN 2 ELSE IF coord # -1 THEN 1 ELSE 0
  BY DEF Started
<1>4. /\ send_buffer'[u][c] = ts
      /\ \A d \in CommTypes \ {c} : send_buffer'[u][d] = send_buffer[u][d]
      /\ \A w \in Unit \ {u} : send_buffer'[w] = send_buffer[w]
  BY DEF SetToSendBuffer, CommTypeOK
<1>5. Started(u)' = IF send_buffer'[u]["baryctr_state"] # -1 THEN send_buffer'[u]["baryctr_state"] + 2
                    ELSE IF send_buffer'[u]["init_global_prob"] # -1 THEN 2
                    ELSE IF send_buffer'[u]["baryctr_coord"] # -1 THEN 1 ELSE 0
  BY DEF Started
<1>6. ts \in Nat /\ ts # -1 /\ c \in {"baryctr_coord", "init_global_prob", "baryctr_state"}
  BY <1>1 DEF Stamped
<1>7. \A d \in CommTypes : send_buffer'[u][d] # -1 => Stamped(d, send_buffer'[u][d])
  BY <1>4 DEF InTurn
<1>8. CASE c = "baryctr_coord"
  <2>1. ts = 0 /\ Started(u) = 0
    BY <1>8, StartedType DEF Stamped, Round
  <2>2. /\ send_buffer'[u]["baryctr_coord"] = 0 /\ send_buffer'[u]["init_global_prob"] = init
        /\ send_buffer'[u]["baryctr_state"] = state
    BY <1>1, <1>4, <1>8, <2>1
  <2> HIDE DEF coord, init, state
  <2>3. init = -1 /\ state = -1
    BY <2>1, <1>2, <1>3
  <2>4. Started(u)' = 1
    BY <1>5, <2>2, <2>3
  <2> QED
    BY <1>4, <1>7, <2>1, <2>2, <2>3, <2>4 DEF InTurn
<1>9. CASE c = "init_global_prob"
  <2>1. ts = 0 /\ Started(u) = 1
    BY <1>9, StartedType DEF Stamped, Round
  <2>2. /\ send_buffer'[u]["baryctr_coord"] = coord /\ send_buffer'[u]["init_global_prob"] = 0
        /\ send_buffer'[u]["baryctr_state"] = state
    BY <1>1, <1>4, <1>9, <2>1
  <2> HIDE DEF coord, init, state
  <2>3. coord # -1 /\ state = -1
    BY <2>1, <1>2, <1>3
  <2>4. Started(u)' = 2
    BY <1>5, <2>2, <2>3
  <2> QED
    BY <1>4, <1>7, <2>1, <2>2, <2>3, <2>4 DEF InTurn
<1>10. CASE c = "baryctr_state"
  <2>1. ts > 0 /\ Started(u) = ts + 1
    BY <1>6, <1>10, StartedType DEF Stamped, Round
  <2>2. /\ send_buffer'[u]["baryctr_coord"] = coord /\ send_buffer'[u]["init_global_prob"] = init
        /\ send_buffer'[u]["baryctr_state"] = ts
    BY <1>1, <1>4, <1>10
  <2> HIDE DEF coord, init, state
  <2>3. coord # -1 /\ init # -1
    BY <2>1, <1>2, <1>3, <1>6
  <2>4. Started(u)' = ts + 2
    BY <1>5, <1>6, <2>2
  <2> QED
    BY <1>4, <1>6, <1>7, <2>1, <2>2, <2>3, <2>4 DEF InTurn
<1> QED
  BY <1>6, <1>8, <1>9, <1>10

(* The messages stay as they are.                                          *)
LEMMA KeepOrder ==
  ASSUME NEW u \in Unit, NEW v \in Unit, InOrder(u, v),
         network'[SendEnvelope(u, v)] = network[SendEnvelope(u, v)],
         Started(u)' = Started(u), Delivered(u, v)' = Delivered(u, v),
         \A c \in CommTypes : <<u, v, c>> \in unsent =>
           <<u, v, c>> \in unsent' /\ send_buffer'[u][c] = send_buffer[u][c]
  PROVE  InOrder(u, v)'
<1> DEFINE e == SendEnvelope(u, v)
<1>1. ASSUME NEW m, NEW r, OfRound(m, u, v, r) PROVE OfRound(m, u, v, r)'
  BY <1>1 DEF OfRound
<1>2. SendEnvelope(u, v)' = e
  BY DEF SendEnvelope, Tag
<1> QED
  BY <1>1, <1>2 DEF InOrder

(* The sender starts the message of the next round.                        *)
LEMMA SendOrder ==
  ASSUME NEW u \in Unit, NEW v \in Unit, CommTypeOK, InOrder(u, v),
         SendEnvelope(u, v) \in Envelopes, NEW c \in CommTypes, NEW ts,
         Stamped(c, ts), Round(c, ts) = Started(u) + 1,
         network'[SendEnvelope(u, v)] =
           Append(network[SendEnvelope(u, v)], [slot |-> <<u, v, c>>, data |-> NotRead]),
         Started(u)' = Started(u) + 1, Delivered(u, v)' = Delivered(u, v),
         Delivered(u, v) \in Int,
         <<u, v, c>> \notin unsent, <<u, v, c>> \in unsent', send_buffer'[u][c] = ts,
         \A d \in CommTypes : <<u, v, d>> \in unsent =>
           <<u, v, d>> \in unsent' /\ send_buffer'[u][d] = send_buffer[u][d]
  PROVE  InOrder(u, v)'
<1> DEFINE e == SendEnvelope(u, v)
           n == network[e]
           D == Delivered(u, v)
           new == [slot |-> <<u, v, c>>, data |-> NotRead]
<1>1. n \in Seq(Message) /\ Started(u) \in Int /\ ts \in Nat
  BY StartedType DEF CommTypeOK, Stamped
<1>2. ASSUME NEW m, NEW r, OfRound(m, u, v, r) PROVE OfRound(m, u, v, r)'
  BY <1>2 DEF OfRound
<1>3. ASSUME NEW m, NEW r, m = new, r = Started(u) + 1 PROVE OfRound(m, u, v, r)'
  BY <1>1, <1>3 DEF OfRound
<1>4. D \in Int /\ Len(n) = Started(u) - D
  BY DEF InOrder
<1>5. /\ network'[e] = Append(n, new) /\ Len(network'[e]) = Len(n) + 1
      /\ DOMAIN network'[e] = 1 .. Len(n) + 1
      /\ \A i \in 1 .. Len(n) : network'[e][i] = n[i]
      /\ network'[e][Len(n) + 1] = new
  <2> HIDE DEF n, new
  <2> QED
    BY <1>1 DEF n, new
<1>6. ASSUME NEW i \in 1 .. Len(n) + 1, NEW m, NEW r, m = network'[e][i], r = D + i
      PROVE  OfRound(m, u, v, r)'
  <2>1. CASE i \in 1 .. Len(n)
    <3>1. i \in DOMAIN n /\ m = n[i]
      BY <1>1, <1>5, <1>6, <2>1
    <3>2. OfRound(m, u, v, r)
      BY <1>6, <3>1 DEF InOrder
    <3> QED
      BY <1>2, <3>2
  <2>2. CASE i = Len(n) + 1
    <3>1. m = new /\ r = Started(u) + 1
      BY <1>1, <1>4, <1>5, <1>6, <2>2
    <3> QED
      BY <1>3, <3>1
  <2> QED
    BY <1>1, <2>1, <2>2
<1>7. SendEnvelope(u, v)' = e
  BY DEF SendEnvelope, Tag
<1>8. Len(network'[e]) = Started(u)' - Delivered(u, v)'
  <2> HIDE DEF D, e, n
  <2> QED
    BY <1>1, <1>4, <1>5 DEF D
<1>9. (\A i \in DOMAIN network[e] : OfRound(network[e][i], u, v, Delivered(u, v) + i))'
  BY <1>5, <1>6
<1> QED
  BY <1>7, <1>8, <1>9 DEF InOrder

(* A message that MPI reads leaves the other rounds as they are.           *)
LEMMA OtherRound ==
  ASSUME NEW u, NEW v, NEW m, NEW r, NEW n, NEW s, OfRound(m, u, v, r), OfRound(n, u, v, s), r # s,
         unsent' = unsent \/ (m.data = NotRead /\ unsent' = unsent \ {m.slot}),
         send_buffer' = send_buffer
  PROVE  OfRound(n, u, v, s)'
<1>1. PICK c \in CommTypes, t \in Nat :
        /\ Stamped(c, t) /\ Round(c, t) = s
        /\ n.slot = <<u, v, c>>
        /\ IF n.data = NotRead THEN <<u, v, c>> \in unsent /\ send_buffer[u][c] = t
           ELSE n.data = Written(u, v, c, t)
  BY DEF OfRound
<1>2. n.data = NotRead => <<u, v, c>> \in unsent'
  <2> SUFFICES ASSUME n.data = NotRead, m.data = NotRead, m.slot = <<u, v, c>> PROVE FALSE
    BY <1>1
  <2>1. Round(c, send_buffer[u][c]) = r
    BY DEF OfRound
  <2> QED
    BY <1>1, <2>1
<1>3. \E d \in CommTypes, x \in Nat :
        /\ Stamped(d, x) /\ Round(d, x) = s
        /\ n.slot = <<u, v, d>>
        /\ IF n.data = NotRead THEN <<u, v, d>> \in unsent' /\ send_buffer'[u][d] = x
           ELSE n.data = Written(u, v, d, x)
  BY <1>1, <1>2
<1> QED
  BY <1>3 DEF OfRound

LEMMA DeliveredType ==
  ASSUME CommTypeOK, NEW v \in Unit, NEW u \in Neigh[v]
  PROVE  Delivered(u, v) \in Int /\ Started(u) \in Int /\ Started(v) \in Int
<1>1. posted[SendEnvelope(u, v)] \in Seq(Slots) /\ u \in Unit
  BY EnvelopeOf DEF CommTypeOK
<1> QED
  BY <1>1, StartedType DEF Delivered

(* MPI reads a message: it now carries the data of its round.              *)
LEMMA ReadOrder ==
  ASSUME CommTypeOK, NEW v \in Unit, NEW u \in Neigh[v], InOrder(u, v),
         NEW i \in DOMAIN network[SendEnvelope(u, v)], Buffer(SendEnvelope(u, v), i)
  PROVE  InOrder(u, v)'
<1> DEFINE e == SendEnvelope(u, v)
           n == network[e]
           D == Delivered(u, v)
<1>1. n \in Seq(Message) /\ e \in Envelopes /\ D \in Int
  BY EnvelopeOf, DeliveredType DEF CommTypeOK
<1>2. /\ network'[e] = [n EXCEPT ![i].data = Content(n[i].slot)]
      /\ unsent' = unsent \ {n[i].slot} /\ n[i].data = NotRead
      /\ send_buffer' = send_buffer /\ posted' = posted
  BY <1>1 DEF Buffer, CommTypeOK
<1>3. Started(u)' = Started(u) /\ Delivered(u, v)' = D
  BY <1>2 DEF Started, Delivered, SendEnvelope, Tag
<1>5. DOMAIN network'[e] = DOMAIN n /\ Len(network'[e]) = Len(n)
  <2> HIDE DEF e, n
  <2> QED
    BY <1>1, <1>2
<1>6. i \in 1 .. Len(n) /\ n[i] \in Message
  BY <1>1
<1>7. ASSUME NEW r, NEW m, r = D + i, m = network'[e][i] PROVE OfRound(m, u, v, r)'
  <2>1. PICK c \in CommTypes, t \in Nat :
          /\ Stamped(c, t) /\ Round(c, t) = r
          /\ n[i].slot = <<u, v, c>> /\ send_buffer[u][c] = t
    BY <1>2, <1>7 DEF InOrder, OfRound
  <2>2. m = [slot |-> <<u, v, c>>, data |-> Written(u, v, c, t)]
    <3>1. network'[e][i] = [n[i] EXCEPT !.data = Content(n[i].slot)]
      BY <1>1, <1>2, <1>6
    <3>2. Content(n[i].slot) = Written(u, v, c, t)
      BY <2>1 DEF Content
    <3> QED
      BY <1>6, <1>7, <2>1, <3>1, <3>2 DEF Message
  <2>3. Written(u, v, c, t) # NotRead
    BY <2>1, IhdgOmpiAssumption DEF Written, NotRead
  <2> QED
    BY <2>1, <2>2, <2>3 DEF OfRound
<1>8. ASSUME NEW j \in DOMAIN n, NEW r, NEW m, r = D + j, m = network'[e][j] PROVE OfRound(m, u, v, r)'
  <2>1. CASE j = i
    BY <1>7, <1>8, <2>1
  <2>2. CASE j # i
    <3>1. m = n[j]
      BY <1>1, <1>2, <1>8, <2>2
    <3>2. D + i # D + j
      BY <1>1, <1>6, <2>2
    <3>3. OfRound(n[i], u, v, D + i) /\ OfRound(n[j], u, v, D + j)
      BY DEF InOrder
    <3> HIDE DEF D, n, e
    <3> QED
      BY <1>2, <1>8, <3>1, <3>2, <3>3, OtherRound
  <2> QED
    BY <2>1, <2>2
<1>9. SendEnvelope(u, v)' = e /\ Len(n) = Started(u) - D
  BY DEF SendEnvelope, Tag, InOrder
<1>10. Len(network'[e]) = Started(u)' - Delivered(u, v)'
  BY <1>3, <1>5, <1>9
<1>11. (\A j \in DOMAIN network[e] : OfRound(network[e][j], u, v, Delivered(u, v) + j))'
  BY <1>3, <1>5, <1>8
<1> QED
  BY <1>9, <1>10, <1>11 DEF InOrder

(* The oldest message is of the round whose receive is posted.             *)
LEMMA OldestMessage ==
  ASSUME CommTypeOK, NEW v \in Unit, NEW u \in Neigh[v], Link(u, v), InTurn(v),
         network[SendEnvelope(u, v)] # <<>>, posted[SendEnvelope(u, v)] # <<>>
  PROVE  \E c \in CommTypes :
           /\ posted[SendEnvelope(u, v)] = << <<v, u, c>> >>
           /\ <<v, u, c>> \in unreceived
           /\ Head(network[SendEnvelope(u, v)]).slot = <<u, v, c>>
           /\ IF Head(network[SendEnvelope(u, v)]).data = NotRead
              THEN Content(Head(network[SendEnvelope(u, v)]).slot) = Written(u, v, c, send_buffer[v][c])
              ELSE Head(network[SendEnvelope(u, v)]).data = Written(u, v, c, send_buffer[v][c])
<1> DEFINE e == SendEnvelope(u, v)
           n == network[e]
<1>1. PICK c \in CommTypes :
        /\ posted[e] = << <<v, u, c>> >> /\ <<v, u, c>> \in unreceived
        /\ send_buffer[v][c] # -1 /\ Round(c, send_buffer[v][c]) = Started(v)
  BY DEF Link, OneReceive
<1>2. n \in Seq(Message) /\ e \in Envelopes /\ Delivered(u, v) \in Int /\ Started(v) \in Int
  BY EnvelopeOf, DeliveredType DEF CommTypeOK
<1>3. 1 \in DOMAIN n /\ Head(n) = n[1]
  <2> HIDE DEF n
  <2> QED
    BY <1>2 DEF n
<1>4. Delivered(u, v) + 1 = Started(v)
  <2>1. Len(posted[e]) = 1
    BY <1>1
  <2> QED
    BY <1>2, <2>1 DEF Delivered
<1>5. PICK d \in CommTypes, t \in Nat :
        /\ Stamped(d, t) /\ Round(d, t) = Started(v)
        /\ n[1].slot = <<u, v, d>>
        /\ IF n[1].data = NotRead THEN <<u, v, d>> \in unsent /\ send_buffer[u][d] = t
           ELSE n[1].data = Written(u, v, d, t)
  BY <1>3, <1>4 DEF Link, InOrder, OfRound
<1>6. d = c /\ t = send_buffer[v][c]
  <2>1. Stamped(c, send_buffer[v][c])
    BY <1>1 DEF InTurn
  <2> QED
    BY <1>1, <1>5, <2>1, RoundsApart
<1>7. n[1].data = NotRead => Content(n[1].slot) = Written(u, v, c, send_buffer[v][c])
  BY <1>5, <1>6 DEF Content
<1> QED
  BY <1>1, <1>3, <1>5, <1>6, <1>7

(* MPI delivers a message: it is what the receiver waits for.              *)
LEMMA DeliverLink ==
  ASSUME CommTypeOK, NEW v \in Unit, NEW u \in Neigh[v], Link(u, v), InTurn(v),
         Deliver(SendEnvelope(u, v))
  PROVE  Link(u, v)' /\ mpi_error' = mpi_error
<1> DEFINE e == SendEnvelope(u, v)
           n == network[e]
           D == Delivered(u, v)
<1>1. n \in Seq(Message) /\ n # <<>> /\ e \in Envelopes /\ D \in Int /\ Started(v) \in Int
      /\ u \in Unit /\ posted[e] # <<>>
  BY EnvelopeOf, DeliveredType DEF CommTypeOK, Deliver
<1>2. PICK c \in CommTypes :
        /\ posted[e] = << <<v, u, c>> >> /\ <<v, u, c>> \in unreceived
        /\ Head(n).slot = <<u, v, c>>
        /\ IF Head(n).data = NotRead THEN Content(Head(n).slot) = Written(u, v, c, send_buffer[v][c])
           ELSE Head(n).data = Written(u, v, c, send_buffer[v][c])
  BY <1>1, OldestMessage
<1>3. <<v, u, c>> \in Slots
  BY <1>1, <1>2 DEF Slots
<1>4. /\ receive_buffer' = [receive_buffer EXCEPT ![<<v, u, c>>] = Written(u, v, c, send_buffer[v][c])]
      /\ unreceived' = unreceived \ {<<v, u, c>>}
      /\ mpi_error' = (mpi_error \/ Written(u, v, c, send_buffer[v][c]).comm # c)
      /\ network'[e] = Tail(n) /\ posted'[e] = <<>>
      /\ unsent' = unsent \/ (Head(n).data = NotRead /\ unsent' = unsent \ {Head(n).slot})
      /\ send_buffer' = send_buffer
  <2> DEFINE d == IF Head(n).data = NotRead THEN Content(Head(n).slot) ELSE Head(n).data
  <2>1. Head(posted[e]) = <<v, u, c>> /\ Tail(posted[e]) = <<>> /\ d = Written(u, v, c, send_buffer[v][c])
    BY <1>2
  <2>2. /\ receive_buffer' = [receive_buffer EXCEPT ![Head(posted[e])] = d]
        /\ unreceived' = unreceived \ {Head(posted[e])}
        /\ mpi_error' = (mpi_error \/ d.comm # Head(posted[e])[3])
        /\ unsent' = IF Head(n).data = NotRead THEN unsent \ {Head(n).slot} ELSE unsent
        /\ network' = [network EXCEPT ![e] = Tail(n)]
        /\ posted' = [posted EXCEPT ![e] = Tail(posted[e])]
        /\ send_buffer' = send_buffer
    BY DEF Deliver
  <2>3. network'[e] = Tail(n) /\ posted'[e] = Tail(posted[e])
    BY <1>1, <2>2 DEF CommTypeOK
  <2>4. <<v, u, c>>[3] = c
    OBVIOUS
  <2> HIDE DEF d, n, e
  <2>5. /\ receive_buffer' = [receive_buffer EXCEPT ![<<v, u, c>>] = Written(u, v, c, send_buffer[v][c])]
        /\ unreceived' = unreceived \ {<<v, u, c>>}
        /\ mpi_error' = (mpi_error \/ Written(u, v, c, send_buffer[v][c]).comm # c)
    BY <2>1, <2>2, <2>4
  <2>6. unsent' = unsent \/ (Head(n).data = NotRead /\ unsent' = unsent \ {Head(n).slot})
    BY <2>2
  <2> QED
    BY <2>1, <2>2, <2>3, <2>5, <2>6
<1>5. mpi_error' = mpi_error
  BY <1>4 DEF Written, CommTypeOK
<1>6. SendEnvelope(u, v)' = e
  BY DEF SendEnvelope, Tag
<1>7. Started(u)' = Started(u) /\ Started(v)' = Started(v)
  BY <1>4 DEF Started
<1>8. D = Started(v) - 1 /\ Delivered(u, v)' = D + 1
  <2>1. Len(posted[e]) = 1 /\ Len(posted'[e]) = 0
    BY <1>2, <1>4
  <2>2. D = Started(v) - Len(posted[e])
    BY DEF Delivered
  <2>3. Delivered(u, v)' = Started(v)' - Len(posted'[e])
    BY <1>6 DEF Delivered
  <2> HIDE DEF D, e
  <2> QED
    BY <1>1, <1>7, <2>1, <2>2, <2>3
<1>9. /\ Len(n) \in Nat \ {0} /\ Len(Tail(n)) = Len(n) - 1 /\ DOMAIN Tail(n) = 1 .. Len(n) - 1
      /\ Head(n) = n[1] /\ \A j \in 1 .. Len(n) - 1 : Tail(n)[j] = n[j + 1] /\ j + 1 \in DOMAIN n
      /\ 1 \in DOMAIN n
  <2> HIDE DEF n
  <2> QED
    BY <1>1
<1>10. InOrder(u, v)'
  <2>1. Len(n) = Started(u) - D /\ Started(u) \in Int
    BY DeliveredType DEF Link, InOrder
  <2>2. Len(network'[e]) = Started(u)' - Delivered(u, v)'
    BY <1>1, <1>4, <1>7, <1>8, <1>9, <2>1
  <2>3. ASSUME NEW j \in 1 .. Len(n) - 1, NEW r, NEW m, r = D + 1 + j, m = network'[e][j]
        PROVE  OfRound(m, u, v, r)'
    <3>1. m = n[j + 1] /\ j + 1 \in DOMAIN n
      BY <1>4, <1>9, <2>3
    <3>2. r = D + (j + 1) /\ D + 1 # r
      BY <1>1, <2>3
    <3>3. OfRound(n[1], u, v, D + 1) /\ OfRound(m, u, v, r)
      BY <1>9, <3>1, <3>2 DEF Link, InOrder
    <3> HIDE DEF D, n, e
    <3> QED
      BY <1>4, <1>9, <3>2, <3>3, OtherRound
  <2>4. (\A j \in DOMAIN network[e] : OfRound(network[e][j], u, v, Delivered(u, v) + j))'
    BY <1>4, <1>8, <1>9, <2>3
  <2> QED
    BY <1>6, <2>2, <2>4 DEF InOrder
<1>11. OneReceive(u, v)'
  BY <1>4, <1>6 DEF OneReceive
<1>12. Arrived(u, v)'
  <2>1. posted[e] = << <<v, u, c>> >> /\ Arrived(u, v)
    BY <1>2 DEF Link
  <2>2. ASSUME NEW d \in CommTypes, send_buffer[v][d] # -1, <<v, u, d>> \notin unreceived'
        PROVE  receive_buffer'[<<v, u, d>>] = Written(u, v, d, send_buffer[v][d])
    <3>1. CASE d = c
      BY <3>1, <1>3, <1>4 DEF CommTypeOK
    <3>2. CASE d # c
      <4>1. <<v, u, d>> \notin unreceived
        BY <3>2, <1>4, <2>2
      <4>2. receive_buffer'[<<v, u, d>>] = receive_buffer[<<v, u, d>>]
        BY <3>2, <1>1, <1>4 DEF CommTypeOK, Slots
      <4> QED
        BY <2>1, <2>2, <4>1, <4>2 DEF Arrived
    <3> QED
      BY <3>1, <3>2
  <2> QED
    BY <1>4, <2>2 DEF Arrived
<1> QED
  BY <1>5, <1>10, <1>11, <1>12 DEF Link

-----------------------------------------------------------------------------
(* What a step does to the communicator.                                   *)

(* The sender u goes on without sending to v.                              *)
SenderKeeps(u, v) ==
  /\ network'[SendEnvelope(u, v)] = network[SendEnvelope(u, v)]
  /\ send_buffer'[u] = send_buffer[u]
  /\ \A c \in CommTypes : <<u, v, c>> \in unsent => <<u, v, c>> \in unsent'

(* The receiver v goes on without starting or completing a receive from u. *)
ReceiverKeeps(u, v) ==
  /\ posted'[SendEnvelope(u, v)] = posted[SendEnvelope(u, v)]
  /\ send_buffer'[v] = send_buffer[v]
  /\ \A c \in CommTypes :
       /\ <<v, u, c>> \in unreceived' <=> <<v, u, c>> \in unreceived
       /\ receive_buffer'[<<v, u, c>>] = receive_buffer[<<v, u, c>>]

LEMMA ReceiverSide ==
  ASSUME NEW v \in Unit, NEW u \in Unit, OneReceive(u, v), Arrived(u, v), ReceiverKeeps(u, v)
  PROVE  OneReceive(u, v)' /\ Arrived(u, v)' /\ Delivered(u, v)' = Delivered(u, v)
<1>1. SendEnvelope(u, v)' = SendEnvelope(u, v)
  BY DEF SendEnvelope, Tag
<1>2. Started(v)' = Started(v)
  BY DEF Started, ReceiverKeeps
<1>3. Delivered(u, v)' = Delivered(u, v)
  BY <1>1, <1>2 DEF Delivered, ReceiverKeeps
<1>4. OneReceive(u, v)'
  BY <1>1, <1>2 DEF OneReceive, ReceiverKeeps
<1>5. Arrived(u, v)'
  BY DEF Arrived, ReceiverKeeps
<1> QED
  BY <1>3, <1>4, <1>5

LEMMA LinkKept ==
  ASSUME NEW v \in Unit, NEW u \in Unit, Link(u, v), SenderKeeps(u, v), ReceiverKeeps(u, v)
  PROVE  Link(u, v)'
<1>1. OneReceive(u, v)' /\ Arrived(u, v)' /\ Delivered(u, v)' = Delivered(u, v)
  BY ReceiverSide DEF Link
<1>2. Started(u)' = Started(u)
  BY DEF Started, SenderKeeps
<1>3. InOrder(u, v)'
  BY <1>1, <1>2, KeepOrder DEF Link, SenderKeeps
<1> QED
  BY <1>1, <1>3 DEF Link

(* A step that waits, or does not concern the communicator.                *)
LEMMA QuietLinks ==
  ASSUME Linked,
         UNCHANGED <<send_buffer, receive_buffer, unsent, unreceived, network, posted, mpi_error>>,
         send_requests' \subseteq Slots, receive_requests' \subseteq Slots,
         unsent \subseteq send_requests', unreceived \subseteq receive_requests'
  PROVE  Linked'
<1>1. CommTypeOK'
  BY DEF Linked, CommTypeOK
<1>2. \A u \in Unit : InTurn(u)'
  BY DEF Linked, InTurn
<1>3. ASSUME NEW v \in Unit, NEW u \in Neigh[v] PROVE Link(u, v)'
  <2>1. u \in Unit /\ Link(u, v)
    BY EnvelopeOf DEF Linked
  <2>2. SenderKeeps(u, v) /\ ReceiverKeeps(u, v)
    BY DEF SenderKeeps, ReceiverKeeps
  <2> QED
    BY <2>1, <2>2, LinkKept
<1> QED
  BY <1>1, <1>2, <1>3 DEF Linked

LEMMA WaitLinks ==
  ASSUME Linked, NEW w \in Unit, NEW c \in CommTypes,
         WaitReceivesBody(w, c) \/ WaitSendsBody(w, c)
  PROVE  Linked'
<1>1. CommTypeOK
  BY DEF Linked
<1>2. CASE WaitReceivesBody(w, c)
  <2>1. receive_requests' = receive_requests \ UnitSlots(w, c) /\ UnitSlots(w, c) \cap unreceived = {}
        /\ UNCHANGED <<send_buffer, receive_buffer, send_requests, unsent, unreceived,
                       network, posted, mpi_error>>
    BY <1>2 DEF WaitReceivesBody, WaitAllReceives
  <2>2. unreceived \subseteq receive_requests' /\ receive_requests' \subseteq Slots
    BY <1>1, <2>1 DEF CommTypeOK
  <2> QED
    BY <1>1, <2>1, <2>2, QuietLinks DEF CommTypeOK
<1>3. CASE WaitSendsBody(w, c)
  <2>1. send_requests' = send_requests \ UnitSlots(w, c) /\ UnitSlots(w, c) \cap unsent = {}
        /\ UNCHANGED <<send_buffer, receive_buffer, receive_requests, unsent, unreceived,
                       network, posted, mpi_error>>
    BY <1>3 DEF WaitSendsBody, WaitAllSends
  <2>2. unsent \subseteq send_requests' /\ send_requests' \subseteq Slots
    BY <1>1, <2>1 DEF CommTypeOK
  <2> QED
    BY <1>1, <2>1, <2>2, QuietLinks DEF CommTypeOK
<1> QED
  BY <1>2, <1>3

(* w starts the exchange of its next round, after it has waited for the    *)
(* requests of the last.                                                   *)
LEMMA ExchangeLinks ==
  ASSUME FewSubmeshes, Linked, NEW w \in Unit, NEW c \in CommTypes, NEW ts,
         Stamped(c, ts), Round(c, ts) = Started(w) + 1, ExchangeBody(w, c, ts),
         \A s \in receive_requests : s[1] # w,
         \A s \in send_requests : s[1] = w => s[3] # c
  PROVE  Linked'
<1>1. CommTypeOK /\ InTurn(w) /\ ~mpi_error
  BY DEF Linked
<1>2. ReceiveAll(w, c) /\ SendAll(w, c) /\ SetToSendBuffer(w, c, ts) /\ receive_buffer' = receive_buffer
      /\ mpi_error' = (mpi_error \/ ReceiveErroneous(w, c) \/ SendErroneous(w, c))
  BY DEF ExchangeBody
<1>3. /\ InTurn(w)' /\ Started(w)' = Started(w) + 1 /\ send_buffer'[w][c] = ts
      /\ \A d \in CommTypes \ {c} : send_buffer'[w][d] = send_buffer[w][d]
      /\ \A a \in Unit \ {w} : send_buffer'[a] = send_buffer[a]
  BY <1>1, <1>2, NextRound
<1>4. ts \in Nat /\ ts # -1
  BY DEF Stamped
<1>5. CommTypeOK'
  <2>1. send_buffer' \in [Unit -> [CommTypes -> Nat \cup {-1}]]
    BY <1>1, <1>2, <1>4 DEF SetToSendBuffer, CommTypeOK
  <2>2. mpi_error' \in BOOLEAN
    BY <1>1, <1>2 DEF CommTypeOK, ReceiveErroneous, SendErroneous
  <2> QED
    BY <1>1, <1>2, <2>1, <2>2, SendAllType, ReceiveAllType DEF CommTypeOK
<1>6. ~mpi_error'
  <2>1. ~ReceiveErroneous(w, c) /\ ~SendErroneous(w, c)
    BY DEF ReceiveErroneous, SendErroneous, UnitSlots
  <2> QED
    BY <1>1, <1>2, <2>1
<1>7. \A u \in Unit : InTurn(u)'
  BY <1>3 DEF Linked, InTurn
<1>8. /\ unsent' = unsent \cup UnitSlots(w, c) /\ unreceived' = unreceived \cup UnitSlots(w, c)
      /\ \A v : <<w, v, c>> \notin unsent
      /\ \A v, d : <<w, v, d>> \notin unreceived
  BY <1>1, <1>2 DEF SendAll, ReceiveAll, CommTypeOK
(* The receiver's side of the rank boundary from u to v.                   *)
<1>9. ASSUME NEW v \in Unit \ {w}, NEW u \in Neigh[v] PROVE ReceiverKeeps(u, v)
  <2>1. posted'[SendEnvelope(u, v)] = posted[SendEnvelope(u, v)]
    BY <1>1, <1>2, ReceiveAllPosted
  <2>2. \A d \in CommTypes : <<v, u, d>> \in unreceived' <=> <<v, u, d>> \in unreceived
    BY <1>8 DEF UnitSlots
  <2> QED
    BY <1>2, <1>3, <2>1, <2>2 DEF ReceiverKeeps
<1>10. ASSUME NEW u \in Neigh[w]
       PROVE  OneReceive(u, w)' /\ Arrived(u, w)' /\ Delivered(u, w)' = Delivered(u, w)
  <2> DEFINE e == SendEnvelope(u, w)
  <2>1. u \in Unit /\ w \in Neigh[u] /\ Link(u, w) /\ SendEnvelope(u, w)' = e
    BY EnvelopeOf DEF Linked, SendEnvelope, Tag
  <2>2. posted[e] = <<>>
    BY <1>8, <2>1 DEF Link, OneReceive
  <2>3. posted'[e] = << <<w, u, c>> >>
    <3>1. posted'[e] = Append(posted[e], <<w, u, c>>)
      BY <1>1, <1>2, ReceiveAllPosted
    <3> HIDE DEF e
    <3> QED
      BY <2>2, <3>1
  <2>4. <<w, u, c>> \in unreceived'
    BY <1>8, <2>1 DEF UnitSlots, Slots
  <2>5. OneReceive(u, w)'
    BY <1>3, <1>4, <2>1, <2>3, <2>4 DEF OneReceive
  <2>6. Arrived(u, w)'
    <3> SUFFICES ASSUME NEW d \in CommTypes, send_buffer'[w][d] # -1, <<w, u, d>> \notin unreceived'
                 PROVE  receive_buffer'[<<w, u, d>>] = Written(u, w, d, send_buffer'[w][d])
      BY DEF Arrived
    <3>1. d # c /\ <<w, u, d>> \notin unreceived
      BY <1>8, <2>4
    <3> QED
      BY <1>2, <1>3, <2>1, <3>1 DEF Link, Arrived
  <2>7. Delivered(u, w)' = Delivered(u, w)
    <3>1. Len(posted[e]) = 0 /\ Len(posted'[e]) = 1 /\ Started(w) \in Int
      BY <1>1, <2>2, <2>3, StartedType
    <3>2. Delivered(u, w) = Started(w) - Len(posted[e]) /\ Delivered(u, w)' = Started(w)' - Len(posted'[e])
      BY <2>1 DEF Delivered
    <3> HIDE DEF e
    <3> QED
      BY <1>3, <3>1, <3>2
  <2> QED
    BY <2>5, <2>6, <2>7
<1>11. ASSUME NEW v \in Unit, NEW u \in Neigh[v]
       PROVE  OneReceive(u, v)' /\ Arrived(u, v)' /\ Delivered(u, v)' = Delivered(u, v)
  <2>1. CASE v = w
    BY <1>10, <2>1
  <2>2. CASE v # w
    BY <1>9, <2>2, ReceiverSide, EnvelopeOf DEF Linked, Link
  <2> QED
    BY <2>1, <2>2
<1>12. ASSUME NEW v \in Unit, NEW u \in Neigh[v] PROVE InOrder(u, v)'
  <2>1. /\ u \in Unit /\ InOrder(u, v) /\ SendEnvelope(u, v) \in Envelopes /\ v \in Neigh[u]
        /\ Delivered(u, v)' = Delivered(u, v) /\ Delivered(u, v) \in Int
    BY <1>1, <1>11, EnvelopeOf, DeliveredType DEF Linked, Link
  <2>2. network'[SendEnvelope(u, v)] =
          IF u = w THEN Append(network[SendEnvelope(u, v)], [slot |-> <<u, v, c>>, data |-> NotRead])
          ELSE network[SendEnvelope(u, v)]
    BY <1>1, <1>2, SendAllNetwork
  <2>3. CASE u = w
    <3>1. <<u, v, c>> \notin unsent /\ <<u, v, c>> \in unsent'
      BY <1>8, <2>1, <2>3 DEF UnitSlots, Slots
    <3>2. \A d \in CommTypes : <<u, v, d>> \in unsent =>
            <<u, v, d>> \in unsent' /\ send_buffer'[u][d] = send_buffer[u][d]
      BY <1>3, <1>8, <2>3, <3>1
    <3> QED
      BY <1>1, <1>3, <2>1, <2>2, <2>3, <3>1, <3>2, SendOrder
  <2>4. CASE u # w
    <3>1. Started(u)' = Started(u)
      BY <1>3, <2>1, <2>4 DEF Started
    <3>2. \A d \in CommTypes : <<u, v, d>> \in unsent =>
            <<u, v, d>> \in unsent' /\ send_buffer'[u][d] = send_buffer[u][d]
      BY <1>3, <1>8, <2>1, <2>4
    <3> QED
      BY <2>1, <2>2, <2>4, <3>1, <3>2, KeepOrder
  <2> QED
    BY <2>3, <2>4
<1> QED
  BY <1>5, <1>6, <1>7, <1>11, <1>12 DEF Linked, Link

(* A step of the MPI library.                                              *)
LEMMA MpiLinks ==
  ASSUME FewSubmeshes, Linked, MpiProgress
  PROVE  Linked'
<1>1. CommTypeOK
  BY DEF Linked
<1>2. PICK e \in Envelopes : Deliver(e) \/ \E i \in DOMAIN network[e] : Buffer(e, i)
  BY DEF MpiProgress
<1>3. PICK v \in Unit : \E u \in Neigh[v] : e = SendEnvelope(u, v)
  BY EveryEnvelope
<1>4. PICK u \in Neigh[v] : e = SendEnvelope(u, v)
  BY <1>3
<1>5. Link(u, v) /\ InTurn(v) /\ u \in Unit
  BY <1>3, <1>4, EnvelopeOf DEF Linked
<1>6. send_buffer' = send_buffer
  BY <1>2 DEF Deliver, Buffer
<1>7. CommTypeOK'
  BY <1>1, <1>2, DeliverType, BufferType
<1>8. \A w \in Unit : InTurn(w)'
  BY <1>6 DEF Linked, InTurn
<1>9. Link(u, v)' /\ mpi_error' = mpi_error
  <2>1. CASE Deliver(e)
    BY <1>1, <1>4, <1>5, <2>1, DeliverLink
  <2>2. ASSUME NEW i \in DOMAIN network[e], Buffer(e, i)
        PROVE  Link(u, v)' /\ mpi_error' = mpi_error
    <3>1. InOrder(u, v)'
      BY <1>1, <1>4, <1>5, <2>2, ReadOrder DEF Link
    <3>2. UNCHANGED <<receive_buffer, unreceived, posted, mpi_error>>
      BY <2>2 DEF Buffer
    <3>3. ReceiverKeeps(u, v)
      BY <1>6, <3>2 DEF ReceiverKeeps
    <3>4. OneReceive(u, v)' /\ Arrived(u, v)'
      BY <1>5, <3>3, ReceiverSide DEF Link
    <3> QED
      BY <3>1, <3>2, <3>4 DEF Link
  <2> QED
    BY <1>2, <2>1, <2>2
<1>10. ASSUME NEW b \in Unit, NEW a \in Neigh[b], SendEnvelope(a, b) # e PROVE Link(a, b)'
  <2>1. a \in Unit /\ SendEnvelope(a, b) \in Envelopes /\ Link(a, b)
    BY EnvelopeOf DEF Linked
  <2>2. network'[SendEnvelope(a, b)] = network[SendEnvelope(a, b)]
        /\ posted'[SendEnvelope(a, b)] = posted[SendEnvelope(a, b)]
    BY <1>1, <1>2, <1>10, <2>1 DEF Deliver, Buffer, CommTypeOK
  <2>3. a # u \/ b # v
    BY <1>4, <1>10
  <2>4. network[e] \in Seq(Message)
    BY <1>1 DEF CommTypeOK
  <2>5. \A i \in DOMAIN network[e] : \E c \in CommTypes : network[e][i].slot = <<u, v, c>>
    BY <1>4, <1>5 DEF Link, InOrder, OfRound
  <2>6. ASSUME NEW c \in CommTypes, <<a, b, c>> \in unsent PROVE <<a, b, c>> \in unsent'
    <3>1. \E i \in DOMAIN network[e] : unsent' = unsent \/ unsent' = unsent \ {network[e][i].slot}
      <4>1. CASE Deliver(e)
        <5>1. network[e] # <<>> /\ Head(network[e]) = network[e][1] /\ 1 \in DOMAIN network[e]
          BY <2>4, <4>1 DEF Deliver
        <5> QED
          BY <4>1, <5>1 DEF Deliver
      <4> QED
        BY <1>2, <4>1 DEF Buffer
    <3> QED
      BY <2>3, <2>5, <2>6, <3>1
  <2>7. ASSUME NEW c \in CommTypes
        PROVE  /\ <<b, a, c>> \in unreceived' <=> <<b, a, c>> \in unreceived
               /\ receive_buffer'[<<b, a, c>>] = receive_buffer[<<b, a, c>>]
    <3>1. CASE Deliver(e)
      <4>1. PICK d \in CommTypes : posted[e] = << <<v, u, d>> >>
        BY <1>4, <1>5, <3>1 DEF Deliver, Link, OneReceive
      <4>2. Head(posted[e]) = <<v, u, d>> /\ <<v, u, d>> # <<b, a, c>>
        BY <2>3, <4>1
      <4>3. <<b, a, c>> \in Slots
        BY <2>1 DEF Slots
      <4> QED
        BY <1>1, <3>1, <4>2, <4>3 DEF Deliver, CommTypeOK
    <3> QED
      BY <1>2, <3>1 DEF Buffer
  <2>8. SenderKeeps(a, b) /\ ReceiverKeeps(a, b)
    BY <1>6, <2>2, <2>6, <2>7 DEF SenderKeeps, ReceiverKeeps
  <2> QED
    BY <2>1, <2>8, LinkKept
<1>11. ASSUME NEW b \in Unit, NEW a \in Neigh[b] PROVE Link(a, b)'
  <2>1. CASE SendEnvelope(a, b) # e
    BY <1>10, <2>1
  <2>2. CASE SendEnvelope(a, b) = e
    <3>1. a = u /\ b = v
      BY <1>4, <1>5, <2>2, EnvelopesDistinct, EnvelopeOf
    <3> QED
      BY <1>9, <3>1
  <2> QED
    BY <2>1, <2>2
<1> QED
  BY <1>7, <1>8, <1>9, <1>11 DEF Linked

-----------------------------------------------------------------------------
(* How a submesh goes from loop to loop.                                   *)

(* Loops that neither exchange nor follow an exchange.                     *)
OtherLoops == {"pre_barrier", "gather", "scatter", "gp_exchange", "gp_post_receive", "gp_wait_sends",
               "numbered_barrier", "launch", "init_iteration", "local", "condense", "solve_barrier",
               "assemble", "solve", "solved_barrier", "update", "decide"}
Tracked(at) == IF at \in PreLoops \cup AdvancedLoops \cup {"done"} THEN at ELSE "computing"

LEMMA RunnerRuns ==
  ASSUME NEW u \in Unit
  PROVE  /\ Runner(u) \in Threads /\ Runs(Runner(u), u) /\ Runner(u)' = Runner(u)
         /\ \A th \in Threads : Runs(th, u) => th = Runner(u)
         /\ Runner(u)[1] = Locality[u]
         /\ <<Locality[u], 0>> \in Threads
         /\ SubmeshId[u] \in Nat
         /\ FirstId(Runner(u)) \in Int /\ FirstId(Runner(u)) <= SubmeshId[u]
         /\ SubmeshId[u] < EndSimId(Runner(u)[1], Runner(u)[2])
<1>1. Runner(u) \in Threads /\ Runs(Runner(u), u)
  BY RunByOne DEF Runner
<1>2. Runner(u)' = Runner(u)
  BY DEF Runner, Runs, ThreadRuns, BeginSimId, EndSimId, SimPerThread, NumUnits, Threads, Ranks
<1>3. \A th \in Threads : Runs(th, u) => th = Runner(u)
  BY <1>1, RunByOne
<1>4. Runner(u)[1] = Locality[u]
  BY <1>1 DEF Runs, ThreadRuns
<1>5. <<Locality[u], 0>> \in Threads
  BY RankHasMaster DEF Ranks
<1> QED
  BY <1>1, <1>2, <1>3, <1>4, <1>5, RunIds

(* A submesh stays where it is when its thread, or its rank's master, does.*)
LEMMA ThreadStays ==
  ASSUME NEW u \in Unit,
         loop'[Runner(u)] = loop[Runner(u)], su_id'[Runner(u)] = su_id[Runner(u)],
         step'[Runner(u)] = step[Runner(u)]
  PROVE  At(u)' = At(u) /\ StepOf(u)' = StepOf(u)
BY RunnerRuns DEF At, StepOf, Ran, Successor

LEMMA MasterStays ==
  ASSUME NEW u \in Unit,
         loop'[<<Locality[u], 0>>] = loop[<<Locality[u], 0>>],
         su_id'[<<Locality[u], 0>>] = su_id[<<Locality[u], 0>>]
  PROVE  GpAt(u)' = GpAt(u)
<1> DEFINE m == <<Locality[u], 0>>
<1>1. loop[m] \in GpLoops => Successor(m)' = Successor(m)
  BY DEF Successor, GpLoops
<1> QED
  BY <1>1 DEF GpAt

(* It stays outside the tracked loops when its thread does.                *)
LEMMA NotTracked ==
  ASSUME NEW u \in Unit,
         loop[Runner(u)] \in OtherLoops, step'[Runner(u)] = step[Runner(u)],
         \/ loop'[Runner(u)] \in OtherLoops
         \/ loop'[Runner(u)] = "advance" /\ su_id'[Runner(u)] = FirstId(Runner(u))
  PROVE  At(u)' = At(u) /\ StepOf(u)' = StepOf(u)
<1> DEFINE r == Runner(u)
<1>1. r' = r /\ FirstId(r) \in Int /\ SubmeshId[u] \in Nat /\ FirstId(r) <= SubmeshId[u]
  BY RunnerRuns
<1>2. \A x \in OtherLoops : x \notin PreLoops \cup AdvancedLoops \cup {"done", "output", "advance"}
  BY DEF OtherLoops, PreLoops, AdvancedLoops, SlLoops
<1>3. loop[r] \in UnitLoops => Successor(r) \in OtherLoops
  BY DEF OtherLoops, UnitLoops, Successor
<1>4. At(u) = "computing" /\ StepOf(u) = step[r]
  BY <1>2, <1>3 DEF At, StepOf, Ran
<1>5. CASE loop'[r] \in OtherLoops
  <2>1. loop'[r] \in UnitLoops => Successor(r)' \in OtherLoops
    BY <1>1, <1>5 DEF OtherLoops, UnitLoops, Successor
  <2> QED
    BY <1>1, <1>2, <1>4, <1>5, <2>1 DEF At, StepOf, Ran
<1>6. CASE loop'[r] = "advance" /\ su_id'[r] = FirstId(r)
  <2>1. ~(su_id'[r] > SubmeshId[u])
    BY <1>1, <1>6
  <2> QED
    BY <1>1, <1>4, <1>6, <2>1 DEF At, StepOf, Ran, PreLoops, AdvancedLoops, SlLoops
<1> QED
  BY <1>5, <1>6

(* The body of a thread's loop moves its submesh on to the next loop.      *)
LEMMA UnitMove ==
  ASSUME IInv, Places, NEW th \in Threads, NEW u \in Unit, NEW at \in UnitLoops, Body(th, u, at)
  PROVE  /\ th = Runner(u) /\ loop[th] = at
         /\ At(u) = Tracked(at) /\ StepOf(u) = step[th]
         /\ At(u)' = Tracked(Successor(th))
         /\ StepOf(u)' = IF at = "output" THEN step[th] + 1 ELSE step[th]
         /\ \A w \in Unit \ {u} : At(w)' = At(w) /\ StepOf(w)' = StepOf(w)
<1>1. /\ th = Runner(u) /\ loop[th] = at /\ su_id[th] = SubmeshId[u] /\ su_id[th] \in Int
      /\ loop \in [Threads -> Loops] /\ step \in [Threads -> Nat]
  BY BodyMoves, RunnerRuns DEF Body, Places, IInv, ThreadsOK
<1>2. /\ \A m \in Threads \ {th} : loop'[m] = loop[m] /\ su_id'[m] = su_id[m] /\ step'[m] = step[m]
      /\ \/ /\ loop' = loop /\ step' = step /\ su_id'[th] = su_id[th] + 1
         \/ /\ loop'[th] = Successor(th) /\ su_id'[th] = FirstId(th)
            /\ su_id[th] + 1 >= EndSimId(th[1], th[2])
            /\ step'[th] = IF at = "output" THEN step[th] + 1 ELSE step[th]
  <2>1. EndId(th) = EndSimId(th[1], th[2])
    BY <1>1 DEF EndId, UnitLoops, MasterLoops
  <2>2. \A m \in Threads \ {th} : su_id'[m] = su_id[m]
    BY BodyMoves
  <2>3. CASE su_id[th] + 1 < EndId(th)
    BY <1>1, <2>2, <2>3 DEF Body, Places
  <2>4. CASE ~(su_id[th] + 1 < EndId(th))
    <3>1. Leave(th) /\ su_id[th] + 1 >= EndId(th)
      BY <1>1, <2>1, <2>4, RunIds DEF Body
    <3> QED
      BY <1>1, <2>1, <2>2, <3>1 DEF Leave, GoOn, Places
  <2> QED
    BY <2>3, <2>4
<1>3. /\ SubmeshId[u] \in Nat /\ FirstId(th) \in Int /\ FirstId(th) <= SubmeshId[u]
      /\ Runner(u)' = Runner(u)
  BY <1>1, RunnerRuns
<1>4. At(u) = Tracked(at) /\ StepOf(u) = step[th]
  BY <1>1 DEF At, StepOf, Ran, Tracked
<1>5. /\ At(u)' = Tracked(Successor(th))
      /\ StepOf(u)' = IF at = "output" THEN step[th] + 1 ELSE step[th]
  <2>1. CASE loop' = loop /\ step' = step /\ su_id'[th] = su_id[th] + 1
    <3>1. Successor(th)' = Successor(th)
      BY <2>1 DEF Successor
    <3>2. su_id'[th] > SubmeshId[u]
      BY <1>1, <1>3, <2>1
    <3>3. Ran(u)'
      BY <1>1, <1>3, <2>1, <3>2 DEF Ran
    <3> QED
      BY <1>1, <1>3, <2>1, <3>1, <3>3 DEF At, StepOf, Tracked
  <2>2. CASE loop'[th] = Successor(th) /\ su_id'[th] = FirstId(th)
             /\ step'[th] = IF at = "output" THEN step[th] + 1 ELSE step[th]
    <3>1. ~(su_id'[th] > SubmeshId[u])
      BY <1>1, <1>3, <2>2
    <3>2. ~Ran(u)'
      BY <1>1, <3>1, RunnerRuns DEF Ran
    <3> QED
      BY <1>1, <2>2, <3>2, RunnerRuns DEF At, StepOf, Tracked
  <2> QED
    BY <1>2, <2>1, <2>2
<1>6. ASSUME NEW w \in Unit \ {u} PROVE At(w)' = At(w) /\ StepOf(w)' = StepOf(w)
  <2>1. CASE Runner(w) # th
    BY <1>2, <2>1, RunnerRuns, ThreadStays
  <2>2. CASE Runner(w) = th
    <3>1. /\ Locality[w] = th[1] /\ SubmeshId[w] # su_id[th] /\ SubmeshId[w] \in Nat
          /\ (su_id[th] > SubmeshId[w]) <=> (su_id[th] + 1 > SubmeshId[w])
          /\ SubmeshId[w] < EndSimId(th[1], th[2]) /\ FirstId(th) <= SubmeshId[w]
          /\ FirstId(th) \in Int /\ EndSimId(th[1], th[2]) \in Int
      <4>1. Locality[w] = th[1] /\ Locality[u] = th[1] /\ w # u
        BY <1>1, <2>2, RunnerRuns
      <4>2. /\ SubmeshId[w] # su_id[th] /\ SubmeshId[w] \in Nat
            /\ (su_id[th] > SubmeshId[w]) <=> (su_id[th] + 1 > SubmeshId[w])
        BY <1>1, <4>1, PassesOver
      <4>3. /\ SubmeshId[w] < EndSimId(th[1], th[2]) /\ FirstId(th) <= SubmeshId[w]
            /\ FirstId(th) \in Int
        BY <2>2, RunnerRuns
      <4>4. EndSimId(th[1], th[2]) \in Int
        BY RunIds
      <4> QED
        BY <4>1, <4>2, <4>3, <4>4
    <3>2. CASE loop' = loop /\ step' = step /\ su_id'[th] = su_id[th] + 1
      <4>1. Ran(w)' <=> Ran(w)
        BY <2>2, <3>1, <3>2, RunnerRuns DEF Ran
      <4>2. Successor(th)' = Successor(th)
        BY <3>2 DEF Successor
      <4> QED
        BY <2>2, <3>2, <4>1, <4>2, RunnerRuns DEF At, StepOf
    <3>3. CASE loop'[th] = Successor(th) /\ su_id'[th] = FirstId(th)
               /\ su_id[th] + 1 >= EndSimId(th[1], th[2])
               /\ step'[th] = IF at = "output" THEN step[th] + 1 ELSE step[th]
      <4>1. su_id[th] > SubmeshId[w] /\ ~(su_id'[th] > SubmeshId[w])
        BY <1>1, <3>1, <3>3
      <4>2. Ran(w) /\ ~Ran(w)'
        BY <1>1, <2>2, <4>1, RunnerRuns DEF Ran
      <4> QED
        BY <1>1, <2>2, <3>3, <4>2, RunnerRuns DEF At, StepOf
    <3> QED
      BY <1>2, <3>2, <3>3
  <2> QED
    BY <2>1, <2>2
<1> QED
  BY <1>1, <1>4, <1>5, <1>6

(* The loops that a thread's own loops lead to.                            *)
LEMMA UnitSuccessor ==
  ASSUME NEW th, loop[th] \in UnitLoops
  PROVE  \/ /\ loop[th] \in {"pre_exchange", "pre_post_receive", "pre_wait_sends"}
            /\ Successor(th) \in {"pre_post_receive", "pre_wait_sends", "pre_barrier"}
         \/ /\ loop[th] \in UnitLoops \ PreLoops
            /\ Successor(th) \in (UnitLoops \ PreLoops) \cup {"solve_barrier", "decide", "done"}
BY DEF UnitLoops, PreLoops, Successor

(* It does not concern the master's exchange.                              *)
LEMMA UnitMoveGp ==
  ASSUME IInv, Places, NEW th \in Threads, NEW u \in Unit, NEW at \in UnitLoops, Body(th, u, at),
         NEW w \in Unit
  PROVE  GpAt(w)' = GpAt(w)
<1> DEFINE m == <<Locality[w], 0>>
<1>1. m \in Threads /\ loop[th] = at /\ loop \in [Threads -> Loops]
  BY RunnerRuns DEF Body, IInv, ThreadsOK
<1>2. /\ \A x \in Threads \ {th} : su_id'[x] = su_id[x]
      /\ loop' = loop \/ loop' = [loop EXCEPT ![th] = Successor(th)]
  BY BodyMoves
<1>3. CASE m # th
  BY <1>1, <1>2, <1>3, MasterStays
<1>4. CASE m = th
  <2>1. CASE at \in PreLoops
    <3>1. loop[m] \in Exchanging /\ loop'[m] \in Exchanging
      BY <1>1, <1>2, <1>4, <2>1, UnitSuccessor DEF PreLoops, Exchanging
    <3> QED
      BY <3>1 DEF GpAt
  <2>2. CASE at \notin PreLoops
    <3>1. \A x \in (UnitLoops \ PreLoops) \cup {"solve_barrier", "decide", "done"} :
            x \notin Exchanging \cup {"gather", "scatter"} /\ x \notin GpLoops
      BY DEF UnitLoops, PreLoops, Exchanging, GpLoops
    <3>2. /\ loop[m] \in (UnitLoops \ PreLoops) \cup {"solve_barrier", "decide", "done"}
          /\ loop'[m] \in (UnitLoops \ PreLoops) \cup {"solve_barrier", "decide", "done"}
      BY <1>1, <1>2, <1>4, <2>2, UnitSuccessor DEF PreLoops
    <3> QED
      BY <3>1, <3>2 DEF GpAt
  <2> QED
    BY <2>1, <2>2
<1> QED
  BY <1>3, <1>4

(* The body of a loop of the master's exchange moves its submesh on.       *)
LEMMA MasterMove ==
  ASSUME IInv, Places, NEW th \in Threads, NEW u \in Unit, NEW at \in GpLoops, Body(th, u, at)
  PROVE  /\ loop[th] = at /\ th = <<Locality[u], 0>>
         /\ GpAt(u) = at /\ GpAt(u)' = Successor(th)
         /\ \A w \in Unit \ {u} : GpAt(w)' = GpAt(w)
         /\ \A w \in Unit : At(w)' = At(w) /\ StepOf(w)' = StepOf(w)
<1>1. /\ loop[th] = at /\ th[1] = Locality[u] /\ su_id[th] = SubmeshId[u] /\ su_id[th] \in Int
      /\ loop \in [Threads -> Loops] /\ step' = step /\ at \in MasterLoops
  BY DEF Body, Places, IInv, ThreadsOK, Leave, GpLoops, MasterLoops
<1>2. th = <<Locality[u], 0>> /\ FirstId(th) = 0 /\ EndId(th) = NumUnits(th[1]) /\ EndId(th) \in Int
  <2>1. th[2] = 0
    BY <1>1 DEF IInv, MasterSections, MasterParts, NumberingMaster, GpLoops
  <2>2. EndId(th) = NumUnits(th[1])
    BY <1>1 DEF EndId
  <2> QED
    BY <1>1, <2>1, <2>2, ThreadShape, RunIds
<1>3. /\ \A m \in Threads \ {th} : loop'[m] = loop[m] /\ su_id'[m] = su_id[m]
      /\ \/ loop' = loop /\ su_id'[th] = su_id[th] + 1
         \/ /\ loop'[th] = Successor(th) /\ su_id'[th] = 0 /\ su_id[th] + 1 >= NumUnits(th[1])
  BY <1>1, <1>2, BodyMoves
<1>4. Successor(th) \in {"gp_post_receive", "gp_wait_sends", "numbered_barrier"}
  BY <1>1 DEF GpLoops, Successor
<1>5. \A x \in GpLoops \cup {"numbered_barrier"} :
        x \in OtherLoops /\ x \notin Exchanging \cup {"gather", "scatter"}
  BY DEF GpLoops, OtherLoops, Exchanging
<1>6. loop[th] \in GpLoops /\ loop'[th] \in GpLoops \cup {"numbered_barrier"}
  BY <1>1, <1>3, <1>4 DEF GpLoops
<1>7. \A w \in Unit : Locality[w] = th[1] => SubmeshId[w] \in Nat /\ SubmeshId[w] < NumUnits(th[1])
  BY RunIds, CommunicatorAssumption
<1>8. GpAt(u) = at /\ GpAt(u)' = Successor(th)
  <2>1. GpAt(u) = at
    BY <1>1, <1>2, <1>5 DEF GpAt
  <2>2. CASE loop' = loop /\ su_id'[th] = su_id[th] + 1
    <3>1. Successor(th)' = Successor(th) /\ su_id'[th] > SubmeshId[u]
      BY <1>1, <1>7, <2>2 DEF Successor, GpLoops
    <3> QED
      BY <1>1, <1>2, <1>5, <2>2, <3>1 DEF GpAt
  <2>3. CASE loop'[th] = Successor(th) /\ su_id'[th] = 0
    <3>1. ~(su_id'[th] > SubmeshId[u])
      BY <1>1, <1>7, <2>3
    <3>2. Successor(th) \notin GpLoops => Successor(th) = "numbered_barrier"
      BY <1>4 DEF GpLoops
    <3> QED
      BY <1>1, <1>2, <1>5, <1>6, <2>3, <3>1, <3>2 DEF GpAt
  <2> QED
    BY <1>3, <2>1, <2>2, <2>3
<1>9. ASSUME NEW w \in Unit \ {u} PROVE GpAt(w)' = GpAt(w)
  <2>1. CASE Locality[w] # th[1]
    <3>1. <<Locality[w], 0>> \in Threads /\ <<Locality[w], 0>> # th
      BY <1>1, <1>2, <2>1, RunnerRuns
    <3> QED
      BY <1>3, <3>1, MasterStays
  <2>2. CASE Locality[w] = th[1]
    <3>1. /\ SubmeshId[w] # su_id[th] /\ SubmeshId[w] \in Nat /\ SubmeshId[w] < NumUnits(th[1])
          /\ (su_id[th] > SubmeshId[w]) <=> (su_id[th] + 1 > SubmeshId[w])
      BY <1>1, <1>7, <2>2, PassesOver
    <3>2. th = <<Locality[w], 0>>
      BY <1>1, <1>2, <2>2
    <3>3. CASE loop' = loop /\ su_id'[th] = su_id[th] + 1
      <4>1. Successor(th)' = Successor(th)
        BY <1>1, <3>3 DEF Successor, GpLoops
      <4> QED
        BY <1>5, <1>6, <3>1, <3>2, <3>3, <4>1 DEF GpAt
    <3>4. CASE loop'[th] = Successor(th) /\ su_id'[th] = 0 /\ su_id[th] + 1 >= NumUnits(th[1])
      <4>1. su_id[th] > SubmeshId[w] /\ ~(su_id'[th] > SubmeshId[w])
        BY <1>1, <1>2, <3>1, <3>4
      <4>2. GpAt(w) = Successor(th)
        BY <1>5, <1>6, <3>2, <4>1 DEF GpAt
      <4>3. Successor(th) \notin GpLoops => Successor(th) = "numbered_barrier"
        BY <1>4 DEF GpLoops
      <4> QED
        BY <1>5, <1>6, <3>2, <3>4, <4>1, <4>2, <4>3 DEF GpAt
    <3> QED
      BY <1>3, <3>3, <3>4
  <2> QED
    BY <2>1, <2>2
<1>10. ASSUME NEW w \in Unit PROVE At(w)' = At(w) /\ StepOf(w)' = StepOf(w)
  <2>1. CASE Runner(w) # th
    BY <1>1, <1>3, <2>1, RunnerRuns, ThreadStays
  <2>2. CASE Runner(w) = th
    BY <1>1, <1>5, <1>6, <2>2, NotTracked
  <2> QED
    BY <2>1, <2>2
<1> QED
  BY <1>1, <1>2, <1>8, <1>9, <1>10

(* The steps that leave every submesh in its loop.                         *)
Stay == \A u \in Unit : At(u)' = At(u) /\ StepOf(u)' = StepOf(u) /\ GpAt(u)' = GpAt(u)

LEMMA GpStays ==
  ASSUME NEW u \in Unit,
         \/ /\ loop[<<Locality[u], 0>>] \in Exchanging \cup {"gather", "scatter"}
            /\ \/ loop'[<<Locality[u], 0>>] \in Exchanging \cup {"gather", "scatter"}
               \/ loop'[<<Locality[u], 0>>] = "gp_exchange" /\ su_id'[<<Locality[u], 0>>] = 0
         \/ /\ loop[<<Locality[u], 0>>] \notin Exchanging \cup NumberingMaster
            /\ loop'[<<Locality[u], 0>>] \notin Exchanging \cup NumberingMaster
  PROVE  GpAt(u)' = GpAt(u)
<1> DEFINE m == <<Locality[u], 0>>
<1>1. SubmeshId[u] \in Nat
  BY RunnerRuns
<1>2. CASE loop'[m] = "gp_exchange" /\ su_id'[m] = 0 /\ loop[m] \in Exchanging \cup {"gather", "scatter"}
  <2>1. ~(su_id'[m] > SubmeshId[u])
    BY <1>1, <1>2
  <2> QED
    BY <1>2, <2>1 DEF GpAt, Exchanging, GpLoops
<1>3. CASE /\ loop[m] \in Exchanging \cup {"gather", "scatter"}
           /\ loop'[m] \in Exchanging \cup {"gather", "scatter"}
  BY <1>3 DEF GpAt
<1>4. CASE /\ loop[m] \notin Exchanging \cup NumberingMaster
           /\ loop'[m] \notin Exchanging \cup NumberingMaster
  BY <1>4 DEF GpAt, NumberingMaster, GpLoops
<1> QED
  BY <1>2, <1>3, <1>4

LEMMA SkipStays ==
  ASSUME IInv, Places, NEW th \in Threads, Skip(th)
  PROVE  Stay /\ Places'
<1>1. /\ su_id' = su_id
      /\ \/ loop[th] = "pre_exchange" /\ loop' = [loop EXCEPT ![th] = "pre_barrier"]
         \/ /\ loop[th] \in {"launch", "init_iteration", "local", "update", "advance"}
            /\ \E to \in {"solve_barrier", "decide", "done", "init_iteration"} :
                 loop' = [loop EXCEPT ![th] = to]
      /\ \A m \in Threads \ {th} : step'[m] = step[m]
      /\ FirstId(th) >= EndId(th)
  BY DEF Skip, IInv, ThreadsOK
<1>2. loop \in [Threads -> Loops] /\ su_id \in [Threads -> Int]
  BY DEF IInv, ThreadsOK, Places
<1>3. FirstId(th) >= EndSimId(th[1], th[2])
  BY <1>1 DEF EndId, MasterLoops
<1>4. FirstId(th) \in Int /\ EndSimId(th[1], th[2]) \in Int
      /\ \A u \in Unit : Runs(th, u) =>
           /\ SubmeshId[u] \in Nat
           /\ FirstId(th) <= SubmeshId[u] /\ SubmeshId[u] < EndSimId(th[1], th[2])
  BY RunIds
<1>5. ASSUME NEW u \in Unit, Runs(th, u) PROVE FALSE
  <2>1. /\ SubmeshId[u] \in Nat /\ FirstId(th) <= SubmeshId[u]
        /\ SubmeshId[u] < EndSimId(th[1], th[2])
    BY <1>4, <1>5
  <2> QED
    BY <1>3, <1>4, <2>1
<1>6. su_id[th] = FirstId(th)
  BY <1>1, <1>3, <1>4 DEF Places, LoopStarts, MasterLoops
<1>7. \A m \in Threads \ {th} : loop'[m] = loop[m]
  BY <1>1, <1>2
<1>8. Places'
  BY <1>1, <1>2, <1>6, <1>7 DEF Places, LoopStarts
<1>9. ASSUME NEW u \in Unit PROVE At(u)' = At(u) /\ StepOf(u)' = StepOf(u) /\ GpAt(u)' = GpAt(u)
  <2>1. Runner(u) \in Threads \ {th}
    BY <1>5, RunnerRuns
  <2>2. At(u)' = At(u) /\ StepOf(u)' = StepOf(u)
    BY <1>1, <1>7, <2>1, ThreadStays
  <2>3. ASSUME <<Locality[u], 0>> # th PROVE GpAt(u)' = GpAt(u)
    BY <1>1, <1>7, <2>3, RunnerRuns, MasterStays
  <2>4. ASSUME <<Locality[u], 0>> = th PROVE GpAt(u)' = GpAt(u)
    <3>1. \/ loop[th] \in Exchanging /\ loop'[th] \in Exchanging
          \/ loop[th] \notin Exchanging \cup NumberingMaster /\ loop'[th] \notin Exchanging \cup NumberingMaster
      BY <1>1, <1>2 DEF Exchanging, NumberingMaster
    <3> QED
      BY <2>4, <3>1, GpStays
  <2> QED
    BY <2>2, <2>3, <2>4
<1> QED
  BY <1>8, <1>9 DEF Stay

LEMMA GoOnStays ==
  ASSUME IInv, Places, NEW th \in Threads, UNCHANGED step,
         \/ loop[th] = "gather" /\ GoOn(th, "scatter")
         \/ loop[th] = "scatter" /\ GoOn(th, "gp_exchange")
         \/ loop[th] = "decide" /\ (GoOn(th, "advance") \/ GoOn(th, "local"))
  PROVE  Stay /\ Places'
<1>1. PICK to \in {"scatter", "gp_exchange", "advance", "local"} :
        /\ loop' = [loop EXCEPT ![th] = to] /\ su_id' = [su_id EXCEPT ![th] = FirstId(th)]
        /\ to = "scatter" => loop[th] = "gather"
        /\ to = "gp_exchange" => loop[th] = "scatter"
        /\ to \in {"advance", "local"} => loop[th] = "decide"
  BY DEF GoOn
<1>2. loop \in [Threads -> Loops] /\ su_id \in [Threads -> Int] /\ FirstId(th) \in Int
  BY RunIds DEF IInv, ThreadsOK, Places
<1>3. /\ \A m \in Threads \ {th} : su_id'[m] = su_id[m] /\ loop'[m] = loop[m]
      /\ su_id'[th] = FirstId(th) /\ loop'[th] = to
  BY <1>1, <1>2
<1>4. Places'
  BY <1>1, <1>2, <1>3 DEF Places, LoopStarts
<1>5. ASSUME NEW u \in Unit PROVE At(u)' = At(u) /\ StepOf(u)' = StepOf(u) /\ GpAt(u)' = GpAt(u)
  <2>1. ASSUME Runner(u) # th PROVE At(u)' = At(u) /\ StepOf(u)' = StepOf(u)
    BY <1>3, <2>1, RunnerRuns, ThreadStays
  <2>2. ASSUME Runner(u) = th PROVE At(u)' = At(u) /\ StepOf(u)' = StepOf(u)
    BY <1>1, <1>3, <2>2, NotTracked DEF OtherLoops
  <2>3. ASSUME <<Locality[u], 0>> # th PROVE GpAt(u)' = GpAt(u)
    BY <1>3, <2>3, RunnerRuns, MasterStays
  <2>4. ASSUME <<Locality[u], 0>> = th PROVE GpAt(u)' = GpAt(u)
    <3>1. su_id'[th] = 0
      <4>1. th[2] = 0
        BY <2>4
      <4> QED
        BY <1>3, <4>1, RunIds
    <3>2. \/ loop[th] \in {"gather", "scatter"} /\ loop'[th] \in {"scatter", "gp_exchange"}
          \/ loop[th] \notin Exchanging \cup NumberingMaster /\ loop'[th] \notin Exchanging \cup NumberingMaster
      BY <1>1, <1>3 DEF Exchanging, NumberingMaster
    <3> QED
      BY <2>4, <3>1, <3>2, GpStays
  <2> QED
    BY <2>1, <2>2, <2>3, <2>4
<1> QED
  BY <1>4, <1>5 DEF Stay

LEMMA AssembleStays ==
  ASSUME IInv, Places, NEW th \in Threads, NEW u \in Unit, Body(th, u, "assemble")
  PROVE  Stay /\ Places'
<1>1. /\ loop[th] = "assemble" /\ "assemble" \in MasterLoops /\ step' = step
      /\ loop \in [Threads -> Loops] /\ su_id \in [Threads -> Int]
  BY DEF Body, Leave, MasterLoops, IInv, ThreadsOK, Places
<1>2. /\ su_id' \in [Threads -> Int] /\ LoopStarts'
      /\ \A m \in Threads \ {th} : su_id'[m] = su_id[m]
      /\ loop' = loop \/ loop' = [loop EXCEPT ![th] = Successor(th)]
  BY <1>1, BodyMoves
<1>3. Successor(th) = "solve"
  BY <1>1 DEF Successor
<1>4. loop'[th] \in {"assemble", "solve"} /\ \A m \in Threads \ {th} : loop'[m] = loop[m]
  BY <1>1, <1>2, <1>3
<1>5. ASSUME NEW w \in Unit PROVE At(w)' = At(w) /\ StepOf(w)' = StepOf(w) /\ GpAt(w)' = GpAt(w)
  <2>1. ASSUME Runner(w) # th PROVE At(w)' = At(w) /\ StepOf(w)' = StepOf(w)
    BY <1>1, <1>2, <1>4, <2>1, RunnerRuns, ThreadStays
  <2>2. ASSUME Runner(w) = th PROVE At(w)' = At(w) /\ StepOf(w)' = StepOf(w)
    BY <1>1, <1>4, <2>2, NotTracked DEF OtherLoops
  <2>3. ASSUME <<Locality[w], 0>> # th PROVE GpAt(w)' = GpAt(w)
    BY <1>2, <1>4, <2>3, RunnerRuns, MasterStays
  <2>4. ASSUME <<Locality[w], 0>> = th PROVE GpAt(w)' = GpAt(w)
    <3>1. loop[th] \notin Exchanging \cup NumberingMaster /\ loop'[th] \notin Exchanging \cup NumberingMaster
      BY <1>1, <1>4 DEF Exchanging, NumberingMaster
    <3> QED
      BY <2>4, <3>1, GpStays
  <2> QED
    BY <2>1, <2>2, <2>3, <2>4
<1> QED
  BY <1>2, <1>5 DEF Stay, Places

LEMMA BarrierStays ==
  ASSUME IInv, Places, NEW l \in Ranks, Barrier(l)
  PROVE  Stay /\ Places'
<1> DEFINE b == loop[<<l, 0>>]
<1>1. <<l, 0>> \in Threads /\ b \in Barriers
      /\ \A th \in Threads : th[1] = l => loop[th] = b
  BY SameBarrier, RankHasMaster
<1>2. /\ \A th \in Threads : th[1] = l => loop'[th] = AfterBarrier(th)
      /\ \A th \in Threads : th[1] # l => loop'[th] = loop[th]
      /\ UNCHANGED <<su_id, step>>
  BY DEF Barrier
<1>3. \A th \in Threads : th[1] = l => su_id[th] = FirstId(th)
  BY <1>1 DEF Places, LoopStarts, Barriers, MasterLoops, UnitLoops
<1>4. Places'
  <2> SUFFICES ASSUME NEW th \in Threads, su_id[th] # FirstId(th)
               PROVE  \/ loop'[th] \in MasterLoops
                      \/ /\ loop'[th] \in UnitLoops
                         /\ FirstId(th) < EndSimId(th[1], th[2]) /\ FirstId(th) <= su_id[th]
    BY <1>2 DEF Places, LoopStarts
  <2>1. loop'[th] = loop[th]
    BY <1>2, <1>3
  <2> QED
    BY <2>1 DEF Places, LoopStarts
<1>5. ASSUME NEW th \in Threads, th[1] = l
      PROVE  /\ loop[th] \in OtherLoops /\ loop'[th] \in OtherLoops
             /\ \/ loop[th] \in Exchanging /\ (th[2] = 0 => loop'[th] = "gather")
                \/ /\ loop[th] \notin Exchanging \cup NumberingMaster
                   /\ loop'[th] \notin Exchanging \cup NumberingMaster
  <2>1. loop[th] \in Barriers /\ loop'[th] = AfterBarrier(th)
    BY <1>1, <1>2, <1>5
  <2> QED
    BY <2>1 DEF Barriers, AfterBarrier, OtherLoops, Exchanging, NumberingMaster
<1>6. ASSUME NEW u \in Unit PROVE At(u)' = At(u) /\ StepOf(u)' = StepOf(u) /\ GpAt(u)' = GpAt(u)
  <2> DEFINE m == <<Locality[u], 0>>
  <2>1. m \in Threads /\ m[1] = Locality[u] /\ m[2] = 0
        /\ Runner(u) \in Threads /\ Runner(u)[1] = Locality[u]
    BY RunnerRuns
  <2>2. CASE Locality[u] # l
    BY <1>2, <2>1, <2>2, ThreadStays, MasterStays
  <2>3. CASE Locality[u] = l
    <3>1. At(u)' = At(u) /\ StepOf(u)' = StepOf(u)
      BY <1>2, <1>5, <2>1, <2>3, NotTracked
    <3>2. GpAt(u)' = GpAt(u)
      BY <1>5, <2>1, <2>3, GpStays
    <3> QED
      BY <3>1, <3>2
  <2> QED
    BY <2>2, <2>3
<1> QED
  BY <1>4, <1>6 DEF Stay

LEMMA SolveStays ==
  ASSUME IInv, Places, Solve
  PROVE  Stay /\ Places'
<1>1. /\ UNCHANGED <<su_id, step>>
      /\ \A th \in Threads : \/ loop[th] = "solve" /\ loop'[th] = "solved_barrier"
                             \/ loop'[th] = loop[th]
  BY DEF Solve, SolveWith, Masters, Successor
<1>2. Places'
  BY <1>1 DEF Places, LoopStarts, MasterLoops, UnitLoops
<1>3. ASSUME NEW u \in Unit PROVE At(u)' = At(u) /\ StepOf(u)' = StepOf(u) /\ GpAt(u)' = GpAt(u)
  <2> DEFINE m == <<Locality[u], 0>>
  <2>1. m \in Threads /\ Runner(u) \in Threads
    BY RunnerRuns
  <2>2. At(u)' = At(u) /\ StepOf(u)' = StepOf(u)
    BY <1>1, <2>1, ThreadStays, NotTracked DEF OtherLoops
  <2>3. GpAt(u)' = GpAt(u)
    <3>1. CASE loop[m] = "solve" /\ loop'[m] = "solved_barrier"
      BY <3>1, GpStays DEF Exchanging, NumberingMaster
    <3> QED
      BY <1>1, <2>1, <3>1, MasterStays
  <2> QED
    BY <2>2, <2>3
<1> QED
  BY <1>2, <1>3 DEF Stay

-----------------------------------------------------------------------------
(* The steps of the exchanges.                                             *)

(* The submeshes other than u stay where they are.                         *)
OthersStay(u) ==
  \A w \in Unit \ {u} : At(w)' = At(w) /\ StepOf(w)' = StepOf(w) /\ GpAt(w)' = GpAt(w)

LEMMA UnitKept ==
  ASSUME NEW w \in Unit, UnitOK(w),
         At(w)' = At(w), StepOf(w)' = StepOf(w), GpAt(w)' = GpAt(w),
         timestamp'[w] = timestamp[w], send_buffer'[w] = send_buffer[w],
         \A s \in send_requests' : s[1] = w => s \in send_requests,
         \A s \in receive_requests' : s[1] = w => s \in receive_requests,
         \A v \in Neigh[w] : /\ baryctr_coord_neigh'[<<w, v>>] = baryctr_coord_neigh[<<w, v>>]
                             /\ bath_ex'[<<w, v>>] = bath_ex[<<w, v>>]
                             /\ q_at_baryctr_neigh'[<<w, v>>] = q_at_baryctr_neigh[<<w, v>>]
  PROVE  UnitOK(w)'
<1>1. \A c : (Sending(w, c) <=> Sending(w, c)') /\ (Receiving(w, c) <=> Receiving(w, c)')
  BY DEF Sending, Receiving
<1>2. Requests(w)'
  BY <1>1 DEF UnitOK, Requests
<1>3. StepsLimited(w)' = StepsLimited(w)
  BY DEF StepsLimited
<1>4. Stamps(w)'
  BY <1>3 DEF UnitOK, Stamps
<1>5. Stored(w)'
  BY DEF UnitOK, Stored
<1> QED
  BY <1>2, <1>4, <1>5 DEF UnitOK

LEMMA ExchangeKeeps ==
  ASSUME FewSubmeshes, CInv, NEW u \in Unit, NEW c \in CommTypes,
         ExchangeBody(u, c, timestamp[u]), timestamp' = timestamp, UNCHANGED storedVars,
         Stamped(c, timestamp[u]), Round(c, timestamp[u]) = Started(u) + 1,
         \A d : ~Receiving(u, d), ~Sending(u, c), OthersStay(u)
  PROVE  /\ Linked' /\ \A w \in Unit \ {u} : UnitOK(w)'
         /\ send_buffer'[u][c] = timestamp[u]
         /\ \A d \in CommTypes \ {c} : send_buffer'[u][d] = send_buffer[u][d]
         /\ \A s \in send_requests' : s[1] = u => s \in send_requests \/ s[3] = c
         /\ \A s \in receive_requests' : s[1] = u => s[3] = c
<1>1. Linked /\ UnitOK(u) /\ \A w \in Unit : UnitOK(w)
  BY DEF CInv
<1>2. (\A s \in receive_requests : s[1] # u) /\ (\A s \in send_requests : s[1] = u => s[3] # c)
  BY <1>1 DEF UnitOK, Requests
<1>3. Linked'
  BY <1>1, <1>2, ExchangeLinks
<1>4. /\ send_buffer' = [send_buffer EXCEPT ![u][c] = timestamp[u]]
      /\ send_requests' = send_requests \cup UnitSlots(u, c)
      /\ receive_requests' = receive_requests \cup UnitSlots(u, c)
  BY DEF ExchangeBody, SetToSendBuffer, SendAll, ReceiveAll
<1>5. \A s \in UnitSlots(u, c) : s[1] = u /\ s[3] = c
  BY DEF UnitSlots
<1>6. /\ send_buffer'[u][c] = timestamp[u]
      /\ \A d \in CommTypes \ {c} : send_buffer'[u][d] = send_buffer[u][d]
      /\ \A w \in Unit \ {u} : send_buffer'[w] = send_buffer[w]
  BY <1>1, <1>4 DEF Linked, CommTypeOK
<1>7. ASSUME NEW w \in Unit \ {u} PROVE UnitOK(w)'
  BY <1>1, <1>4, <1>5, <1>6, <1>7, UnitKept DEF OthersStay, storedVars
<1> QED
  BY <1>2, <1>3, <1>4, <1>5, <1>6, <1>7

(* After the wait u has what its neighbours have sent it.                  *)
LEMMA ReceiveKeeps ==
  ASSUME CInv, NEW u \in Unit, NEW c \in CommTypes,
         WaitReceivesBody(u, c), timestamp' = timestamp, OthersStay(u),
         \A rb \in RankBoundaries : rb[1] # u =>
           /\ baryctr_coord_neigh'[rb] = baryctr_coord_neigh[rb] /\ bath_ex'[rb] = bath_ex[rb]
           /\ q_at_baryctr_neigh'[rb] = q_at_baryctr_neigh[rb]
  PROVE  /\ Linked' /\ \A w \in Unit \ {u} : UnitOK(w)'
         /\ send_buffer' = send_buffer /\ send_requests' = send_requests
         /\ \A s \in receive_requests' : s[1] = u => s \in receive_requests /\ s[3] # c
         /\ send_buffer[u][c] # -1 =>
              \A v \in Neigh[u] : receive_buffer[<<u, v, c>>] = Written(v, u, c, send_buffer[u][c])
<1>1. Linked /\ CommTypeOK /\ \A w \in Unit : UnitOK(w)
  BY DEF CInv, Linked
<1>2. /\ receive_requests' = receive_requests \ UnitSlots(u, c)
      /\ UnitSlots(u, c) \cap unreceived = {}
      /\ send_buffer' = send_buffer /\ send_requests' = send_requests
  BY DEF WaitReceivesBody, WaitAllReceives
<1>3. Linked'
  BY <1>1, WaitLinks
<1>4. \A s \in receive_requests' : s[1] = u => s \in receive_requests /\ s[3] # c
  BY <1>1, <1>2 DEF CommTypeOK, UnitSlots
<1>5. ASSUME send_buffer[u][c] # -1, NEW v \in Neigh[u]
      PROVE  receive_buffer[<<u, v, c>>] = Written(v, u, c, send_buffer[u][c])
  <2>1. <<u, v, c>> \in UnitSlots(u, c) /\ Link(v, u)
    BY <1>1, EnvelopeOf DEF UnitSlots, Slots, Linked
  <2> QED
    BY <1>2, <1>5, <2>1 DEF Link, Arrived
<1>6. ASSUME NEW w \in Unit \ {u} PROVE UnitOK(w)'
  <2>1. \A v \in Neigh[w] : <<w, v>> \in RankBoundaries /\ <<w, v>>[1] # u
    BY NeighAssumption DEF RankBoundaries
  <2>2. \A v \in Neigh[w] : /\ baryctr_coord_neigh'[<<w, v>>] = baryctr_coord_neigh[<<w, v>>]
                            /\ bath_ex'[<<w, v>>] = bath_ex[<<w, v>>]
                            /\ q_at_baryctr_neigh'[<<w, v>>] = q_at_baryctr_neigh[<<w, v>>]
    BY <2>1
  <2> QED
    BY <1>1, <1>2, <2>2, UnitKept DEF OthersStay
<1> QED
  BY <1>2, <1>3, <1>4, <1>5, <1>6

LEMMA SentKeeps ==
  ASSUME CInv, NEW u \in Unit, NEW c \in CommTypes,
         WaitSendsBody(u, c), timestamp' = timestamp, UNCHANGED storedVars, OthersStay(u)
  PROVE  /\ Linked' /\ \A w \in Unit \ {u} : UnitOK(w)'
         /\ send_buffer' = send_buffer /\ receive_requests' = receive_requests
         /\ \A s \in send_requests' : s[1] = u => s \in send_requests /\ s[3] # c
<1>1. Linked /\ CommTypeOK /\ \A w \in Unit : UnitOK(w)
  BY DEF CInv, Linked
<1>2. /\ send_requests' = send_requests \ UnitSlots(u, c)
      /\ send_buffer' = send_buffer /\ receive_requests' = receive_requests
  BY DEF WaitSendsBody, WaitAllSends
<1>3. Linked'
  BY <1>1, WaitLinks
<1>4. \A s \in send_requests' : s[1] = u => s \in send_requests /\ s[3] # c
  BY <1>1, <1>2 DEF CommTypeOK, UnitSlots
<1>5. ASSUME NEW w \in Unit \ {u} PROVE UnitOK(w)'
  BY <1>1, <1>2, UnitKept DEF OthersStay, storedVars
<1> QED
  BY <1>2, <1>3, <1>4, <1>5

(* Without a step of the communicator.                                     *)
LEMMA CommKeeps ==
  ASSUME CInv, NEW u, UNCHANGED <<commVars, storedVars>>, OthersStay(u),
         \A w \in Unit \ {u} : timestamp'[w] = timestamp[w]
  PROVE  Linked' /\ \A w \in Unit \ {u} : UnitOK(w)'
<1>1. Linked /\ CommTypeOK /\ \A w \in Unit : UnitOK(w)
  BY DEF CInv, Linked
<1>2. Linked'
  BY <1>1, QuietLinks DEF commVars, CommTypeOK
<1>3. ASSUME NEW w \in Unit \ {u} PROVE UnitOK(w)'
  BY <1>1, UnitKept DEF OthersStay, storedVars, commVars
<1> QED
  BY <1>2, <1>3

(* Where a submesh is while a thread of its rank is in a part of the       *)
(* program.                                                                *)
LEMMA SamePlace ==
  ASSUME IInv, FirstStep, NEW th \in Threads, NEW u \in Unit, Locality[u] = th[1]
  PROVE  /\ loop[th] \in Exchanging => GpAt(u) = "gp_exchange"
         /\ loop[th] \in Computing => GpAt(u) = "numbered_barrier"
         /\ loop[th] \in NumberingLoops => At(u) = "computing" /\ StepOf(u) = 1
<1> DEFINE m == <<Locality[u], 0>>
           r == Runner(u)
<1>1. m \in Threads /\ m[1] = th[1] /\ r \in Threads /\ r[1] = th[1]
  BY RunnerRuns
<1>2. \A part \in Parts : loop[th] \in part => loop[m] \in part /\ loop[r] \in part
  BY <1>1 DEF IInv, SamePart
<1>3. loop[th] \in Exchanging => GpAt(u) = "gp_exchange"
  BY <1>2 DEF GpAt, Parts
<1>4. loop[th] \in Computing => GpAt(u) = "numbered_barrier"
  <2>1. \A x \in Computing : x \notin Exchanging \cup {"gather", "scatter"} /\ x \notin GpLoops
    BY DEF Computing, Preparing, Updating, Decided, Exchanging, GpLoops
  <2> QED
    BY <1>2, <2>1 DEF GpAt, Parts
<1>5. loop[th] \in NumberingLoops => At(u) = "computing" /\ StepOf(u) = 1
  <2> SUFFICES ASSUME loop[th] \in NumberingLoops PROVE At(u) = "computing" /\ StepOf(u) = 1
    OBVIOUS
  <2>1. loop[r] \in NumberingLoops /\ step[r] = 1
    BY <1>1, <1>2 DEF Parts, FirstStep
  <2>2. \A x \in NumberingLoops :
          x \notin UnitLoops /\ x \notin PreLoops \cup AdvancedLoops \cup {"done", "output"}
    BY DEF NumberingLoops, NumberingMaster, UnitLoops, PreLoops, AdvancedLoops, SlLoops
  <2> QED
    BY <2>1, <2>2 DEF At, StepOf, Ran
<1> QED
  BY <1>3, <1>4, <1>5

(* The coordinates.                                                        *)
LEMMA PreExchangeKeeps ==
  ASSUME FewSubmeshes, IInv, CInv, NEW th \in Threads, NEW u \in Unit, PreExchange(th, u)
  PROVE  Linked' /\ \A w \in Unit : UnitOK(w)'
<1>1. /\ Body(th, u, "pre_exchange") /\ ExchangeBody(u, "baryctr_coord", timestamp[u])
      /\ timestamp' = timestamp /\ UNCHANGED storedVars /\ th[1] = Locality[u]
  BY DEF PreExchange, Body
<1>2. /\ loop[th] = "pre_exchange" /\ At(u) = "pre_exchange" /\ At(u)' = "pre_post_receive"
      /\ StepOf(u) = step[th] /\ StepOf(u)' = step[th]
      /\ GpAt(u)' = GpAt(u) /\ OthersStay(u)
  <2>1. "pre_exchange" \in UnitLoops /\ Places
    BY DEF UnitLoops, CInv
  <2>2. Successor(th) = "pre_post_receive" /\ loop[th] = "pre_exchange"
    BY <1>1 DEF Successor, Body
  <2>3. Tracked("pre_exchange") = "pre_exchange" /\ Tracked("pre_post_receive") = "pre_post_receive"
    BY DEF Tracked, PreLoops
  <2> QED
    BY <1>1, <2>1, <2>2, <2>3, UnitMove, UnitMoveGp DEF OthersStay
<1>3. step[th] = 1 /\ GpAt(u) = "gp_exchange"
  BY <1>1, <1>2, SamePlace DEF CInv, FirstStep, Exchanging
<1>4. UnitOK(u) /\ CommTypes = {"baryctr_coord", "init_global_prob", "baryctr_state"}
  BY IhdgOmpiAssumption DEF CInv
<1>5. /\ timestamp[u] = 0 /\ send_buffer[u]["baryctr_coord"] = -1
      /\ send_buffer[u]["init_global_prob"] = -1 /\ send_buffer[u]["baryctr_state"] = -1
  BY <1>2, <1>3, <1>4 DEF UnitOK, Stamps, StepsLimited, AdvancedLoops, SlLoops
<1>6. /\ Stamped("baryctr_coord", timestamp[u])
      /\ Round("baryctr_coord", timestamp[u]) = Started(u) + 1
  BY <1>5 DEF Stamped, Round, Started
<1>7. (\A d : ~Receiving(u, d)) /\ ~Sending(u, "baryctr_coord") /\ \A d : ~Sending(u, d)
  BY <1>2, <1>3 DEF Sending, Receiving
<1>8. /\ Linked' /\ \A w \in Unit \ {u} : UnitOK(w)'
      /\ send_buffer'[u]["baryctr_coord"] = timestamp[u]
      /\ \A d \in CommTypes \ {"baryctr_coord"} : send_buffer'[u][d] = send_buffer[u][d]
      /\ \A s \in send_requests' : s[1] = u => s \in send_requests \/ s[3] = "baryctr_coord"
      /\ \A s \in receive_requests' : s[1] = u => s[3] = "baryctr_coord"
  BY <1>1, <1>2, <1>4, <1>6, <1>7, ExchangeKeeps
<1>9. Requests(u)'
  <2>1. \A s \in send_requests : s[1] # u
    BY <1>4, <1>7 DEF UnitOK, Requests
  <2> QED
    BY <1>2, <1>8, <2>1 DEF Requests, Sending, Receiving
<1>10. Stamps(u)'
  BY <1>1, <1>2, <1>3, <1>4, <1>5, <1>8 DEF Stamps, StepsLimited, AdvancedLoops, SlLoops
<1>11. Stored(u)'
  BY <1>1, <1>2, <1>3, <1>5 DEF Stored
<1> QED
  BY <1>8, <1>9, <1>10, <1>11 DEF UnitOK

LEMMA PrePostReceiveKeeps ==
  ASSUME IInv, CInv, NEW th \in Threads, NEW u \in Unit, PrePostReceive(th, u)
  PROVE  Linked' /\ \A w \in Unit : UnitOK(w)'
<1>1. /\ Body(th, u, "pre_post_receive") /\ WaitReceivesBody(u, "baryctr_coord")
      /\ timestamp' = timestamp /\ UNCHANGED <<bath_ex, q_at_baryctr_neigh>>
      /\ baryctr_coord_neigh' = Taken(baryctr_coord_neigh, u, "baryctr_coord")
  BY DEF PrePostReceive
<1>2. /\ At(u) = "pre_post_receive" /\ At(u)' = "pre_wait_sends"
      /\ StepOf(u)' = StepOf(u) /\ GpAt(u)' = GpAt(u) /\ OthersStay(u)
  <2>1. "pre_post_receive" \in UnitLoops /\ Places
    BY DEF UnitLoops, CInv
  <2>2. Successor(th) = "pre_wait_sends"
    BY <1>1 DEF Successor, Body
  <2>3. Tracked("pre_post_receive") = "pre_post_receive" /\ Tracked("pre_wait_sends") = "pre_wait_sends"
    BY DEF Tracked, PreLoops
  <2> QED
    BY <1>1, <2>1, <2>2, <2>3, UnitMove, UnitMoveGp DEF OthersStay
<1>3. UnitOK(u) /\ "baryctr_coord" \in CommTypes
  BY IhdgOmpiAssumption DEF CInv
<1>4. send_buffer[u]["baryctr_coord"] = 0
  BY <1>2, <1>3 DEF UnitOK, Stamps
<1>5. \A rb \in RankBoundaries : rb[1] # u => baryctr_coord_neigh'[rb] = baryctr_coord_neigh[rb]
  BY <1>1 DEF Taken
<1>6. /\ Linked' /\ \A w \in Unit \ {u} : UnitOK(w)'
      /\ send_buffer' = send_buffer /\ send_requests' = send_requests
      /\ \A s \in receive_requests' : s[1] = u => s \in receive_requests /\ s[3] # "baryctr_coord"
      /\ \A v \in Neigh[u] : receive_buffer[<<u, v, "baryctr_coord">>] = Written(v, u, "baryctr_coord", 0)
  BY <1>1, <1>2, <1>3, <1>4, <1>5, ReceiveKeeps
<1>7. Requests(u)'
  BY <1>2, <1>3, <1>6 DEF UnitOK, Requests, Sending, Receiving
<1>8. Stamps(u)'
  BY <1>1, <1>2, <1>3, <1>6 DEF UnitOK, Stamps, StepsLimited, AdvancedLoops, SlLoops
<1>9. \A v \in Neigh[u] : baryctr_coord_neigh'[<<u, v>>] = Written(v, u, "baryctr_coord", 0)
  <2>1. \A v \in Neigh[u] : <<u, v>> \in RankBoundaries
    BY NeighAssumption DEF RankBoundaries
  <2> QED
    BY <1>1, <1>6, <2>1 DEF Taken, GetFromReceiveBuffer
<1>10. Stored(u)'
  BY <1>1, <1>2, <1>3, <1>9 DEF UnitOK, Stored
<1> QED
  BY <1>6, <1>7, <1>8, <1>10 DEF UnitOK

LEMMA PreWaitSendsKeeps ==
  ASSUME IInv, CInv, NEW th \in Threads, NEW u \in Unit, PreWaitSends(th, u)
  PROVE  Linked' /\ \A w \in Unit : UnitOK(w)'
<1>1. /\ Body(th, u, "pre_wait_sends") /\ WaitSendsBody(u, "baryctr_coord")
      /\ timestamp' = timestamp /\ UNCHANGED storedVars
  BY DEF PreWaitSends
<1>2. /\ At(u) = "pre_wait_sends" /\ At(u)' = "computing"
      /\ StepOf(u)' = StepOf(u) /\ GpAt(u)' = GpAt(u) /\ OthersStay(u)
  <2>1. "pre_wait_sends" \in UnitLoops /\ Places
    BY DEF UnitLoops, CInv
  <2>2. Successor(th) = "pre_barrier"
    BY <1>1 DEF Successor, Body
  <2>3. Tracked("pre_wait_sends") = "pre_wait_sends" /\ Tracked("pre_barrier") = "computing"
    BY DEF Tracked, PreLoops, AdvancedLoops, SlLoops
  <2> QED
    BY <1>1, <2>1, <2>2, <2>3, UnitMove, UnitMoveGp DEF OthersStay
<1>3. UnitOK(u) /\ "baryctr_coord" \in CommTypes
  BY IhdgOmpiAssumption DEF CInv
<1>4. /\ Linked' /\ \A w \in Unit \ {u} : UnitOK(w)'
      /\ send_buffer' = send_buffer /\ receive_requests' = receive_requests
      /\ \A s \in send_requests' : s[1] = u => s \in send_requests /\ s[3] # "baryctr_coord"
  BY <1>1, <1>2, <1>3, SentKeeps
<1>5. Requests(u)'
  BY <1>2, <1>3, <1>4 DEF UnitOK, Requests, Sending, Receiving
<1>6. Stamps(u)'
  BY <1>1, <1>2, <1>3, <1>4 DEF UnitOK, Stamps, StepsLimited, AdvancedLoops, SlLoops
<1>7. Stored(u)'
  BY <1>1, <1>2, <1>3 DEF UnitOK, Stored, storedVars
<1> QED
  BY <1>4, <1>5, <1>6, <1>7 DEF UnitOK

(* The numbers of the edges, exchanged by the master.                      *)
LEMMA GpExchangeKeeps ==
  ASSUME FewSubmeshes, IInv, CInv, NEW th \in Threads, NEW u \in Unit, GpExchange(th, u)
  PROVE  Linked' /\ \A w \in Unit : UnitOK(w)'
<1>1. /\ Body(th, u, "gp_exchange") /\ ExchangeBody(u, "init_global_prob", timestamp[u])
      /\ timestamp' = timestamp /\ UNCHANGED storedVars /\ th[1] = Locality[u]
      /\ loop[th] = "gp_exchange"
  BY DEF GpExchange, Body
<1>2. /\ GpAt(u) = "gp_exchange" /\ GpAt(u)' = "gp_post_receive"
      /\ At(u)' = At(u) /\ StepOf(u)' = StepOf(u) /\ OthersStay(u)
  <2>1. "gp_exchange" \in GpLoops /\ Places /\ Successor(th) = "gp_post_receive"
    BY <1>1 DEF GpLoops, CInv, Successor
  <2> QED
    BY <1>1, <2>1, MasterMove DEF OthersStay
<1>3. At(u) = "computing" /\ StepOf(u) = 1
  BY <1>1, SamePlace DEF CInv, NumberingLoops, NumberingMaster
<1>4. UnitOK(u) /\ CommTypes = {"baryctr_coord", "init_global_prob", "baryctr_state"}
  BY IhdgOmpiAssumption DEF CInv
<1>5. /\ timestamp[u] = 0 /\ send_buffer[u]["baryctr_coord"] = 0
      /\ send_buffer[u]["init_global_prob"] = -1 /\ send_buffer[u]["baryctr_state"] = -1
  BY <1>2, <1>3, <1>4 DEF UnitOK, Stamps, StepsLimited, AdvancedLoops, SlLoops
<1>6. /\ Stamped("init_global_prob", timestamp[u])
      /\ Round("init_global_prob", timestamp[u]) = Started(u) + 1
  BY <1>5 DEF Stamped, Round, Started
<1>7. \A d : ~Receiving(u, d) /\ ~Sending(u, d)
  BY <1>2, <1>3 DEF Sending, Receiving
<1>8. /\ Linked' /\ \A w \in Unit \ {u} : UnitOK(w)'
      /\ send_buffer'[u]["init_global_prob"] = timestamp[u]
      /\ \A d \in CommTypes \ {"init_global_prob"} : send_buffer'[u][d] = send_buffer[u][d]
      /\ \A s \in send_requests' : s[1] = u => s \in send_requests \/ s[3] = "init_global_prob"
      /\ \A s \in receive_requests' : s[1] = u => s[3] = "init_global_prob"
  BY <1>1, <1>2, <1>4, <1>6, <1>7, ExchangeKeeps
<1>9. Requests(u)'
  <2>1. \A s \in send_requests : s[1] # u
    BY <1>4, <1>7 DEF UnitOK, Requests
  <2> QED
    BY <1>2, <1>8, <2>1 DEF Requests, Sending, Receiving
<1>10. Stamps(u)'
  BY <1>1, <1>2, <1>3, <1>4, <1>5, <1>8 DEF Stamps, StepsLimited, AdvancedLoops, SlLoops
<1>11. Stored(u)'
  BY <1>1, <1>2, <1>3, <1>4, <1>5 DEF UnitOK, Stored, storedVars
<1> QED
  BY <1>8, <1>9, <1>10, <1>11 DEF UnitOK

LEMMA GpPostReceiveKeeps ==
  ASSUME IInv, CInv, NEW th \in Threads, NEW u \in Unit, GpPostReceive(th, u)
  PROVE  Linked' /\ \A w \in Unit : UnitOK(w)'
<1>1. /\ Body(th, u, "gp_post_receive") /\ WaitReceivesBody(u, "init_global_prob")
      /\ timestamp' = timestamp /\ UNCHANGED <<baryctr_coord_neigh, q_at_baryctr_neigh>>
      /\ bath_ex' = Taken(bath_ex, u, "init_global_prob")
  BY DEF GpPostReceive
<1>2. /\ GpAt(u) = "gp_post_receive" /\ GpAt(u)' = "gp_wait_sends"
      /\ At(u)' = At(u) /\ StepOf(u)' = StepOf(u) /\ OthersStay(u)
  <2>1. "gp_post_receive" \in GpLoops /\ Places /\ Successor(th) = "gp_wait_sends"
    BY <1>1 DEF GpLoops, CInv, Successor, Body
  <2> QED
    BY <1>1, <2>1, MasterMove DEF OthersStay
<1>3. UnitOK(u) /\ "init_global_prob" \in CommTypes
  BY IhdgOmpiAssumption DEF CInv
<1>4. send_buffer[u]["init_global_prob"] = 0
  BY <1>2, <1>3 DEF UnitOK, Stamps
<1>5. \A rb \in RankBoundaries : rb[1] # u => bath_ex'[rb] = bath_ex[rb]
  BY <1>1 DEF Taken
<1>6. /\ Linked' /\ \A w \in Unit \ {u} : UnitOK(w)'
      /\ send_buffer' = send_buffer /\ send_requests' = send_requests
      /\ \A s \in receive_requests' : s[1] = u => s \in receive_requests /\ s[3] # "init_global_prob"
      /\ \A v \in Neigh[u] :
           receive_buffer[<<u, v, "init_global_prob">>] = Written(v, u, "init_global_prob", 0)
  BY <1>1, <1>2, <1>3, <1>4, <1>5, ReceiveKeeps
<1>7. Requests(u)'
  BY <1>2, <1>3, <1>6 DEF UnitOK, Requests, Sending, Receiving
<1>8. Stamps(u)'
  BY <1>1, <1>2, <1>3, <1>6 DEF UnitOK, Stamps, StepsLimited, AdvancedLoops, SlLoops
<1>9. \A v \in Neigh[u] : bath_ex'[<<u, v>>] = Written(v, u, "init_global_prob", 0)
  <2>1. \A v \in Neigh[u] : <<u, v>> \in RankBoundaries
    BY NeighAssumption DEF RankBoundaries
  <2> QED
    BY <1>1, <1>6, <2>1 DEF Taken, GetFromReceiveBuffer
<1>10. Stored(u)'
  BY <1>1, <1>2, <1>3, <1>9 DEF UnitOK, Stored
<1> QED
  BY <1>6, <1>7, <1>8, <1>10 DEF UnitOK

LEMMA GpWaitSendsKeeps ==
  ASSUME IInv, CInv, NEW th \in Threads, NEW u \in Unit, GpWaitSends(th, u)
  PROVE  Linked' /\ \A w \in Unit : UnitOK(w)'
<1>1. /\ Body(th, u, "gp_wait_sends") /\ WaitSendsBody(u, "init_global_prob")
      /\ timestamp' = timestamp /\ UNCHANGED storedVars
  BY DEF GpWaitSends
<1>2. /\ GpAt(u) = "gp_wait_sends" /\ GpAt(u)' = "numbered_barrier"
      /\ At(u)' = At(u) /\ StepOf(u)' = StepOf(u) /\ OthersStay(u)
  <2>1. "gp_wait_sends" \in GpLoops /\ Places /\ Successor(th) = "numbered_barrier"
    BY <1>1 DEF GpLoops, CInv, Successor, Body
  <2> QED
    BY <1>1, <2>1, MasterMove DEF OthersStay
<1>3. UnitOK(u) /\ "init_global_prob" \in CommTypes
  BY IhdgOmpiAssumption DEF CInv
<1>4. /\ Linked' /\ \A w \in Unit \ {u} : UnitOK(w)'
      /\ send_buffer' = send_buffer /\ receive_requests' = receive_requests
      /\ \A s \in send_requests' : s[1] = u => s \in send_requests /\ s[3] # "init_global_prob"
  BY <1>1, <1>2, <1>3, SentKeeps
<1>5. Requests(u)'
  BY <1>2, <1>3, <1>4 DEF UnitOK, Requests, Sending, Receiving
<1>6. Stamps(u)'
  BY <1>1, <1>2, <1>3, <1>4 DEF UnitOK, Stamps, StepsLimited, AdvancedLoops, SlLoops
<1>7. Stored(u)'
  BY <1>1, <1>2, <1>3 DEF UnitOK, Stored, storedVars
<1> QED
  BY <1>4, <1>5, <1>6, <1>7 DEF UnitOK

(* The averages of a time step.                                            *)
LEMMA SlExchangeKeeps ==
  ASSUME FewSubmeshes, IInv, CInv, NEW th \in Threads, NEW u \in Unit, SlExchange(th, u)
  PROVE  Linked' /\ \A w \in Unit : UnitOK(w)'
<1>1. /\ Body(th, u, "sl_exchange") /\ ExchangeBody(u, "baryctr_state", timestamp[u])
      /\ timestamp' = timestamp /\ UNCHANGED storedVars /\ th[1] = Locality[u]
      /\ loop[th] = "sl_exchange"
  BY DEF SlExchange, Body
<1>2. /\ At(u) = "sl_exchange" /\ At(u)' = "sl_work"
      /\ StepOf(u)' = StepOf(u) /\ GpAt(u)' = GpAt(u) /\ OthersStay(u)
  <2>1. "sl_exchange" \in UnitLoops /\ Places
    BY DEF UnitLoops, CInv
  <2>2. Successor(th) = "sl_work"
    BY <1>1 DEF Successor
  <2>3. Tracked("sl_exchange") = "sl_exchange" /\ Tracked("sl_work") = "sl_work"
    BY DEF Tracked, AdvancedLoops, SlLoops
  <2> QED
    BY <1>1, <2>1, <2>2, <2>3, UnitMove, UnitMoveGp DEF OthersStay
<1>3. GpAt(u) = "numbered_barrier"
  BY <1>1, SamePlace DEF CInv, Computing, Updating, Decided
<1>4. UnitOK(u) /\ CommTypes = {"baryctr_coord", "init_global_prob", "baryctr_state"}
  BY IhdgOmpiAssumption DEF CInv
<1>5. /\ timestamp[u] = StepOf(u) /\ timestamp[u] \in Nat \ {0} /\ SlopeLimiting
      /\ send_buffer[u]["baryctr_coord"] = 0 /\ send_buffer[u]["init_global_prob"] = 0
      /\ send_buffer[u]["baryctr_state"] = IF timestamp[u] - 1 > 0 THEN timestamp[u] - 1 ELSE -1
  BY <1>2, <1>3, <1>4 DEF UnitOK, Stamps, StepsLimited, AdvancedLoops, SlLoops
<1>6. /\ Stamped("baryctr_state", timestamp[u])
      /\ Round("baryctr_state", timestamp[u]) = Started(u) + 1
  <2> DEFINE t == timestamp[u]
             state == send_buffer[u]["baryctr_state"]
  <2>1. Started(u) = IF state # -1 THEN state + 2 ELSE 2
    BY <1>5 DEF Started
  <2>2. Round("baryctr_state", t) = t + 2 /\ Stamped("baryctr_state", t)
    BY <1>5 DEF Round, Stamped
  <2>3. t \in Nat \ {0} /\ state = IF t - 1 > 0 THEN t - 1 ELSE -1
    BY <1>5
  <2> HIDE DEF t, state
  <2>4. Started(u) = t + 1
    BY <2>1, <2>3
  <2> QED
    BY <2>2, <2>3, <2>4 DEF t
<1>7. \A d : ~Receiving(u, d) /\ ~Sending(u, d)
  BY <1>2, <1>3 DEF Sending, Receiving
<1>8. /\ Linked' /\ \A w \in Unit \ {u} : UnitOK(w)'
      /\ send_buffer'[u]["baryctr_state"] = timestamp[u]
      /\ \A d \in CommTypes \ {"baryctr_state"} : send_buffer'[u][d] = send_buffer[u][d]
      /\ \A s \in send_requests' : s[1] = u => s \in send_requests \/ s[3] = "baryctr_state"
      /\ \A s \in receive_requests' : s[1] = u => s[3] = "baryctr_state"
  BY <1>1, <1>2, <1>4, <1>6, <1>7, ExchangeKeeps
<1>9. Requests(u)'
  <2>1. \A s \in send_requests : s[1] # u
    BY <1>4, <1>7 DEF UnitOK, Requests
  <2> QED
    BY <1>2, <1>8, <2>1 DEF Requests, Sending, Receiving
<1>10. Stamps(u)'
  BY <1>1, <1>2, <1>3, <1>4, <1>5, <1>8 DEF Stamps, StepsLimited, AdvancedLoops, SlLoops
<1>11. Stored(u)'
  BY <1>1, <1>2, <1>3, <1>4, <1>5 DEF UnitOK, Stored, storedVars
<1> QED
  BY <1>8, <1>9, <1>10, <1>11 DEF UnitOK

LEMMA SlReceiveKeeps ==
  ASSUME IInv, CInv, NEW th \in Threads, NEW u \in Unit, SlReceive(th, u)
  PROVE  Linked' /\ \A w \in Unit : UnitOK(w)'
<1>1. /\ Body(th, u, "sl_receive") /\ WaitReceivesBody(u, "baryctr_state")
      /\ timestamp' = timestamp /\ UNCHANGED <<baryctr_coord_neigh, bath_ex>>
      /\ q_at_baryctr_neigh' = Taken(q_at_baryctr_neigh, u, "baryctr_state")
  BY DEF SlReceive
<1>2. /\ At(u) = "sl_receive" /\ At(u)' = "sl_wait_sends"
      /\ StepOf(u)' = StepOf(u) /\ GpAt(u)' = GpAt(u) /\ OthersStay(u)
  <2>1. "sl_receive" \in UnitLoops /\ Places
    BY DEF UnitLoops, CInv
  <2>2. Successor(th) = "sl_wait_sends"
    BY <1>1 DEF Successor, Body
  <2>3. Tracked("sl_receive") = "sl_receive" /\ Tracked("sl_wait_sends") = "sl_wait_sends"
    BY DEF Tracked, AdvancedLoops, SlLoops
  <2> QED
    BY <1>1, <2>1, <2>2, <2>3, UnitMove, UnitMoveGp DEF OthersStay
<1>3. UnitOK(u) /\ "baryctr_state" \in CommTypes
  BY IhdgOmpiAssumption DEF CInv
<1>4. send_buffer[u]["baryctr_state"] = timestamp[u] /\ timestamp[u] \in Nat
  BY <1>2, <1>3 DEF UnitOK, Stamps, StepsLimited, AdvancedLoops, SlLoops
<1>5. \A rb \in RankBoundaries : rb[1] # u => q_at_baryctr_neigh'[rb] = q_at_baryctr_neigh[rb]
  BY <1>1 DEF Taken
<1>6. /\ Linked' /\ \A w \in Unit \ {u} : UnitOK(w)'
      /\ send_buffer' = send_buffer /\ send_requests' = send_requests
      /\ \A s \in receive_requests' : s[1] = u => s \in receive_requests /\ s[3] # "baryctr_state"
      /\ \A v \in Neigh[u] :
           receive_buffer[<<u, v, "baryctr_state">>] = Written(v, u, "baryctr_state", timestamp[u])
  BY <1>1, <1>2, <1>3, <1>4, <1>5, ReceiveKeeps
<1>7. Requests(u)'
  BY <1>2, <1>3, <1>6 DEF UnitOK, Requests, Sending, Receiving
<1>8. Stamps(u)'
  BY <1>1, <1>2, <1>3, <1>6 DEF UnitOK, Stamps, StepsLimited, AdvancedLoops, SlLoops
<1>9. \A v \in Neigh[u] : q_at_baryctr_neigh'[<<u, v>>] = Written(v, u, "baryctr_state", timestamp[u])
  <2>1. \A v \in Neigh[u] : <<u, v>> \in RankBoundaries
    BY NeighAssumption DEF RankBoundaries
  <2> QED
    BY <1>1, <1>6, <2>1 DEF Taken, GetFromReceiveBuffer
<1>10. Stored(u)'
  BY <1>1, <1>2, <1>3, <1>9 DEF UnitOK, Stored
<1> QED
  BY <1>6, <1>7, <1>8, <1>10 DEF UnitOK

LEMMA SlWaitSendsKeeps ==
  ASSUME IInv, CInv, NEW th \in Threads, NEW u \in Unit, SlWaitSends(th, u)
  PROVE  Linked' /\ \A w \in Unit : UnitOK(w)'
<1>1. /\ Body(th, u, "sl_wait_sends") /\ WaitSendsBody(u, "baryctr_state")
      /\ timestamp' = timestamp /\ UNCHANGED storedVars
  BY DEF SlWaitSends
<1>2. /\ At(u) = "sl_wait_sends" /\ At(u)' = "scrutinize"
      /\ StepOf(u)' = StepOf(u) /\ GpAt(u)' = GpAt(u) /\ OthersStay(u)
  <2>1. "sl_wait_sends" \in UnitLoops /\ Places
    BY DEF UnitLoops, CInv
  <2>2. Successor(th) = "scrutinize"
    BY <1>1 DEF Successor, Body
  <2>3. Tracked("sl_wait_sends") = "sl_wait_sends" /\ Tracked("scrutinize") = "scrutinize"
    BY DEF Tracked, AdvancedLoops, SlLoops
  <2> QED
    BY <1>1, <2>1, <2>2, <2>3, UnitMove, UnitMoveGp DEF OthersStay
<1>3. UnitOK(u) /\ "baryctr_state" \in CommTypes
  BY IhdgOmpiAssumption DEF CInv
<1>4. /\ Linked' /\ \A w \in Unit \ {u} : UnitOK(w)'
      /\ send_buffer' = send_buffer /\ receive_requests' = receive_requests
      /\ \A s \in send_requests' : s[1] = u => s \in send_requests /\ s[3] # "baryctr_state"
  BY <1>1, <1>2, <1>3, SentKeeps
<1>5. Requests(u)'
  BY <1>2, <1>3, <1>4 DEF UnitOK, Requests, Sending, Receiving
<1>6. Stamps(u)'
  BY <1>1, <1>2, <1>3, <1>4 DEF UnitOK, Stamps, StepsLimited, AdvancedLoops, SlLoops
<1>7. Stored(u)'
  BY <1>1, <1>2, <1>3 DEF UnitOK, Stored, storedVars
<1> QED
  BY <1>4, <1>5, <1>6, <1>7 DEF UnitOK

-----------------------------------------------------------------------------
(* The steps that do not exchange.                                         *)

(* Loops outside the exchanges leave a submesh where it is.                *)
LEMMA ComputingKeeps ==
  ASSUME IInv, CInv, NEW th \in Threads, NEW u \in Unit,
         NEW at \in {"launch", "init_iteration", "local", "condense", "update"},
         Body(th, u, at), UNCHANGED <<commVars, storedVars, timestamp>>
  PROVE  Linked' /\ \A w \in Unit : UnitOK(w)'
<1>1. at \in UnitLoops /\ loop[th] = at /\ Places
  BY DEF UnitLoops, Body, CInv
<1>2. Successor(th) \in {"init_iteration", "local", "condense", "solve_barrier", "decide"} /\ at # "output"
  BY <1>1 DEF Successor
<1>3. Tracked(at) = "computing" /\ Tracked(Successor(th)) = "computing"
  BY <1>2 DEF Tracked, PreLoops, AdvancedLoops, SlLoops
<1>4. At(u)' = At(u) /\ StepOf(u)' = StepOf(u) /\ GpAt(u)' = GpAt(u) /\ OthersStay(u)
  BY <1>1, <1>2, <1>3, UnitMove, UnitMoveGp DEF OthersStay
<1>5. Linked' /\ \A w \in Unit \ {u} : UnitOK(w)'
  BY <1>4, CommKeeps
<1>6. UnitOK(u)'
  BY <1>4, UnitKept DEF CInv, commVars, storedVars
<1> QED
  BY <1>5, <1>6

LEMMA AdvanceKeeps ==
  ASSUME IInv, CInv, NEW th \in Threads, NEW u \in Unit, Advance(th, u)
  PROVE  Linked' /\ \A w \in Unit : UnitOK(w)'
<1>1. /\ Body(th, u, "advance") /\ UNCHANGED <<commVars, storedVars>> /\ loop[th] = "advance"
      /\ timestamp' = [timestamp EXCEPT ![u] = @ + 1]
  BY DEF Advance, Body
<1>2. /\ At(u) = "computing" /\ At(u)' = IF SlopeLimiting THEN "sl_exchange" ELSE "scrutinize"
      /\ StepOf(u)' = StepOf(u) /\ GpAt(u)' = GpAt(u) /\ OthersStay(u)
  <2>1. "advance" \in UnitLoops /\ Places
    BY DEF UnitLoops, CInv
  <2>2. Successor(th) = IF SlopeLimiting THEN "sl_exchange" ELSE "scrutinize"
    BY <1>1 DEF Successor
  <2>3. /\ Tracked("advance") = "computing" /\ Tracked("sl_exchange") = "sl_exchange"
        /\ Tracked("scrutinize") = "scrutinize"
    BY DEF Tracked, PreLoops, AdvancedLoops, SlLoops
  <2> QED
    BY <1>1, <2>1, <2>2, <2>3, UnitMove, UnitMoveGp DEF OthersStay
<1>3. UnitOK(u) /\ timestamp \in [Unit -> Nat]
  BY DEF CInv
<1>4. timestamp'[u] = timestamp[u] + 1 /\ \A w \in Unit \ {u} : timestamp'[w] = timestamp[w]
  BY <1>1, <1>3
<1>5. Linked' /\ \A w \in Unit \ {u} : UnitOK(w)'
  BY <1>1, <1>2, <1>4, CommKeeps
<1>6. Requests(u)'
  BY <1>1, <1>2, <1>3 DEF UnitOK, Requests, Sending, Receiving, commVars
<1>7. Stamps(u)'
  BY <1>1, <1>2, <1>3, <1>4 DEF UnitOK, Stamps, StepsLimited, AdvancedLoops, SlLoops, commVars
<1>8. Stored(u)'
  BY <1>1, <1>2, <1>3, <1>4 DEF UnitOK, Stored, storedVars
<1> QED
  BY <1>5, <1>6, <1>7, <1>8 DEF UnitOK

LEMMA SlWorkKeeps ==
  ASSUME IInv, CInv, NEW th \in Threads, NEW u \in Unit, Local(th, u, "sl_work")
  PROVE  Linked' /\ \A w \in Unit : UnitOK(w)'
<1>1. /\ Body(th, u, "sl_work") /\ UNCHANGED <<commVars, storedVars, timestamp>>
      /\ loop[th] = "sl_work"
  BY DEF Local, Body
<1>2. /\ At(u) = "sl_work" /\ At(u)' = "sl_receive"
      /\ StepOf(u)' = StepOf(u) /\ GpAt(u)' = GpAt(u) /\ OthersStay(u)
  <2>1. "sl_work" \in UnitLoops /\ Places
    BY DEF UnitLoops, CInv
  <2>2. Successor(th) = "sl_receive"
    BY <1>1 DEF Successor
  <2>3. Tracked("sl_work") = "sl_work" /\ Tracked("sl_receive") = "sl_receive"
    BY DEF Tracked, AdvancedLoops, SlLoops
  <2> QED
    BY <1>1, <2>1, <2>2, <2>3, UnitMove, UnitMoveGp DEF OthersStay
<1>3. UnitOK(u)
  BY DEF CInv
<1>4. Linked' /\ \A w \in Unit \ {u} : UnitOK(w)'
  BY <1>1, <1>2, CommKeeps
<1>5. Requests(u)'
  BY <1>1, <1>2, <1>3 DEF UnitOK, Requests, Sending, Receiving, commVars
<1>6. Stamps(u)'
  BY <1>1, <1>2, <1>3 DEF UnitOK, Stamps, StepsLimited, AdvancedLoops, SlLoops, commVars
<1>7. Stored(u)'
  BY <1>1, <1>2, <1>3 DEF UnitOK, Stored, storedVars
<1> QED
  BY <1>4, <1>5, <1>6, <1>7 DEF UnitOK

LEMMA ScrutinizeKeeps ==
  ASSUME IInv, CInv, NEW th \in Threads, NEW u \in Unit, Scrutinize(th, u)
  PROVE  Linked' /\ \A w \in Unit : UnitOK(w)'
<1>1. /\ Body(th, u, "scrutinize") /\ UNCHANGED <<commVars, storedVars, timestamp>>
      /\ loop[th] = "scrutinize"
  BY DEF Scrutinize, Local, Body
<1>2. /\ At(u) = "scrutinize" /\ At(u)' = "output"
      /\ StepOf(u)' = StepOf(u) /\ GpAt(u)' = GpAt(u) /\ OthersStay(u)
  <2>1. "scrutinize" \in UnitLoops /\ Places
    BY DEF UnitLoops, CInv
  <2>2. Successor(th) = "output"
    BY <1>1 DEF Successor
  <2>3. Tracked("scrutinize") = "scrutinize" /\ Tracked("output") = "output"
    BY DEF Tracked, AdvancedLoops
  <2> QED
    BY <1>1, <2>1, <2>2, <2>3, UnitMove, UnitMoveGp DEF OthersStay
<1>3. UnitOK(u)
  BY DEF CInv
<1>4. Linked' /\ \A w \in Unit \ {u} : UnitOK(w)'
  BY <1>1, <1>2, CommKeeps
<1>5. Requests(u)'
  BY <1>1, <1>2, <1>3 DEF UnitOK, Requests, Sending, Receiving, commVars
<1>6. Stamps(u)'
  BY <1>1, <1>2, <1>3 DEF UnitOK, Stamps, StepsLimited, AdvancedLoops, SlLoops, commVars
<1>7. Stored(u)'
  BY <1>1, <1>2, <1>3 DEF UnitOK, Stored, storedVars
<1> QED
  BY <1>4, <1>5, <1>6, <1>7 DEF UnitOK

LEMMA OutputKeeps ==
  ASSUME IInv, CInv, NEW th \in Threads, NEW u \in Unit, Local(th, u, "output")
  PROVE  Linked' /\ \A w \in Unit : UnitOK(w)'
<1>1. /\ Body(th, u, "output") /\ UNCHANGED <<commVars, storedVars, timestamp>>
      /\ loop[th] = "output"
  BY DEF Local, Body
<1>2. /\ At(u) = "output" /\ StepOf(u) = step[th]
      /\ At(u)' = IF step[th] = NumSteps THEN "done" ELSE "computing"
      /\ StepOf(u)' = step[th] + 1 /\ GpAt(u)' = GpAt(u) /\ OthersStay(u)
  <2>1. "output" \in UnitLoops /\ Places
    BY DEF UnitLoops, CInv
  <2>2. Successor(th) = IF step[th] = NumSteps THEN "done" ELSE "init_iteration"
    BY <1>1 DEF Successor
  <2>3. /\ Tracked("output") = "output" /\ Tracked("done") = "done"
        /\ Tracked("init_iteration") = "computing"
    BY DEF Tracked, PreLoops, AdvancedLoops, SlLoops
  <2> QED
    BY <1>1, <2>1, <2>2, <2>3, UnitMove, UnitMoveGp DEF OthersStay
<1>3. UnitOK(u)
  BY DEF CInv
<1>4. Linked' /\ \A w \in Unit \ {u} : UnitOK(w)'
  BY <1>1, <1>2, CommKeeps
<1>5. Requests(u)'
  BY <1>1, <1>2, <1>3 DEF UnitOK, Requests, Sending, Receiving, commVars
<1>6. Stamps(u)'
  <2>1. /\ timestamp[u] = StepOf(u) /\ StepOf(u) \in Nat \ {0} /\ StepsLimited(u) = StepOf(u)
        /\ StepsLimited(u)' = StepOf(u) /\ StepOf(u)' = StepOf(u) + 1 /\ StepOf(u)' \in Nat \ {0}
        /\ StepOf(u)' - 1 = StepOf(u)
    BY <1>2, <1>3 DEF UnitOK, Stamps, StepsLimited, AdvancedLoops, SlLoops
  <2> QED
    BY <1>1, <1>2, <1>3, <2>1 DEF UnitOK, Stamps, AdvancedLoops, SlLoops, commVars
<1>7. Stored(u)'
  BY <1>1, <1>2, <1>3 DEF UnitOK, Stored, storedVars
<1> QED
  BY <1>4, <1>5, <1>6, <1>7 DEF UnitOK

LEMMA QuietKeeps ==
  ASSUME CInv, Stay, UNCHANGED <<commVars, storedVars, timestamp>>
  PROVE  Linked' /\ \A w \in Unit : UnitOK(w)'
<1>1. Linked'
  BY QuietLinks DEF CInv, Linked, CommTypeOK, commVars
<1>2. ASSUME NEW w \in Unit PROVE UnitOK(w)'
  BY UnitKept DEF CInv, Stay, commVars, storedVars
<1> QED
  BY <1>1, <1>2

LEMMA MpiKeeps ==
  ASSUME FewSubmeshes, CInv, Mpi
  PROVE  Linked' /\ \A w \in Unit : UnitOK(w)'
<1>1. MpiProgress /\ UNCHANGED <<loop, su_id, step, storedVars, timestamp>>
  BY DEF Mpi, threadVars
<1>2. Linked'
  BY <1>1, MpiLinks DEF CInv
<1>3. UNCHANGED <<send_buffer, send_requests, receive_requests>>
  BY <1>1 DEF MpiProgress, Deliver, Buffer
<1>4. ASSUME NEW w \in Unit PROVE UnitOK(w)'
  <2>1. At(w)' = At(w) /\ StepOf(w)' = StepOf(w) /\ GpAt(w)' = GpAt(w)
    BY <1>1, ThreadStays, MasterStays
  <2> QED
    BY <1>1, <1>3, <2>1, UnitKept DEF CInv, storedVars
<1> QED
  BY <1>2, <1>4

-----------------------------------------------------------------------------
(* The invariant of the exchanges.                                         *)

(* The threads do not come back to the numbering of the edges.             *)
LEMMA StillFirstStep ==
  ASSUME IInv, CInv, Next
  PROVE  FirstStep'
<1> DEFINE early == Exchanging \cup NumberingLoops
<1>1. loop \in [Threads -> Loops] /\ step \in [Threads -> Nat] /\ Places
  BY DEF IInv, ThreadsOK, CInv
<1>2. \A x \in early : x \notin {"done", "init_iteration", "solve_barrier", "decide", "advance", "local",
                                 "launch", "update", "solved_barrier", "output"}
  BY DEF Exchanging, NumberingLoops, NumberingMaster
<1> SUFFICES ASSUME NEW th \in Threads, loop'[th] \in early
             PROVE  loop[th] \in early /\ step'[th] = step[th]
  BY DEF CInv, FirstStep
<1>3. ASSUME NEW m \in Threads, NEW u \in Unit, NEW at \in UnitLoops \cup MasterLoops, Body(m, u, at)
      PROVE  loop[th] \in early /\ step'[th] = step[th]
  <2>1. /\ loop' = loop \/ loop' = [loop EXCEPT ![m] = Successor(m)]
        /\ loop[m] = at
    BY <1>1, <1>3, BodyMoves DEF Body
  <2>2. Successor(m) \in early => loop[m] \in early
    BY <1>3, <2>1 DEF Successor, UnitLoops, MasterLoops, Exchanging, NumberingLoops, NumberingMaster
  <2>3. loop[th] \in early
    BY <1>1, <2>1, <2>2
  <2>4. step' = step \/ (at = "output" /\ step' = [step EXCEPT ![m] = @ + 1])
    BY <1>3, <2>1 DEF Body, Leave
  <2> QED
    BY <1>1, <1>2, <2>1, <2>3, <2>4
<1>4. ASSUME NEW m \in Threads, Skip(m)
      PROVE  loop[th] \in early /\ step'[th] = step[th]
  <2>1. \/ /\ loop[m] \in Exchanging /\ step' = step
           /\ loop' = [loop EXCEPT ![m] = "pre_barrier"]
        \/ /\ \E to \in {"solve_barrier", "decide", "done", "init_iteration"} :
                loop' = [loop EXCEPT ![m] = to]
           /\ \A x \in Threads \ {m} : step'[x] = step[x]
    BY <1>1, <1>4 DEF Skip, Exchanging
  <2> QED
    BY <1>1, <1>2, <2>1
<1>5. ASSUME NEW m \in Threads, Gather(m) \/ Scatter(m) \/ Decide(m)
      PROVE  loop[th] \in early /\ step'[th] = step[th]
  <2>1. /\ step' = step
        /\ \/ /\ loop[m] \in {"gather", "scatter"} /\ loop' = [loop EXCEPT ![m] = Successor(m)]
           \/ loop' = [loop EXCEPT ![m] = "advance"] \/ loop' = [loop EXCEPT ![m] = "local"]
    BY <1>5 DEF Gather, Scatter, Decide, Leave, GoOn
  <2>2. loop[m] \in {"gather", "scatter"} => loop[m] \in early
    BY DEF NumberingLoops, NumberingMaster
  <2> QED
    BY <1>1, <1>2, <2>1, <2>2
<1>6. ASSUME NEW l \in Ranks, Barrier(l)
      PROVE  loop[th] \in early /\ step'[th] = step[th]
  <2>1. step' = step /\ (loop'[th] = loop[th] \/ (th[1] = l /\ loop'[th] = AfterBarrier(th)))
    BY <1>6 DEF Barrier
  <2>2. th[1] = l => loop[th] \in Barriers
    BY <1>6 DEF Barrier
  <2>3. loop[th] \in Barriers /\ loop[th] \notin early => AfterBarrier(th) \notin early
    BY DEF Barriers, AfterBarrier, Exchanging, NumberingLoops, NumberingMaster
  <2> QED
    BY <2>1, <2>2, <2>3
<1>7. ASSUME Solve PROVE loop[th] \in early /\ step'[th] = step[th]
  <2>1. /\ step' = step
        /\ loop'[th] = loop[th] \/ (loop[th] = "solve" /\ loop'[th] = "solved_barrier")
    BY <1>7 DEF Solve, SolveWith, Masters, Successor
  <2> QED
    BY <1>2, <2>1
<1>8. ASSUME UNCHANGED <<loop, step>> PROVE loop[th] \in early /\ step'[th] = step[th]
  BY <1>8
<1>9. ASSUME NEW m \in Threads, NEW u \in Unit, ThreadStep(m), ~Skip(m), ~Gather(m), ~Scatter(m), ~Decide(m)
      PROVE  \E w \in Unit : \E at \in UnitLoops \cup MasterLoops : Body(m, w, at)
  BY <1>9 DEF ThreadStep, PreExchange, PrePostReceive, PreWaitSends, GpExchange, GpPostReceive, GpWaitSends,
     Local, Condense, Assemble, Update, Advance, SlExchange, SlReceive, SlWaitSends, Scrutinize,
     UnitLoops, MasterLoops
<1>10. ASSUME NEW m \in Threads, ThreadStep(m) PROVE loop[th] \in early /\ step'[th] = step[th]
  <2>1. CASE Unit = {}
    BY <1>4, <1>5, <1>10, <2>1 DEF ThreadStep
  <2>2. CASE Unit # {}
    BY <1>3, <1>4, <1>5, <1>9, <1>10, <2>2
  <2> QED
    BY <2>1, <2>2
<1> QED
  BY <1>6, <1>7, <1>8, <1>10 DEF Next, Progress, Mpi, Terminated, vars, threadVars

(* A step of a thread.                                                     *)
LEMMA ThreadStepLinks ==
  ASSUME FewSubmeshes, IInv, CInv, NEW th \in Threads, ThreadStep(th)
  PROVE  Linked' /\ Places' /\ \A w \in Unit : UnitOK(w)'
<1>1. Places
  BY DEF CInv
<1>2. CASE Skip(th)
  <2>1. Stay /\ Places'
    BY <1>1, <1>2, SkipStays
  <2> QED
    BY <1>2, <2>1, QuietKeeps DEF Skip
<1>3. CASE Gather(th) \/ Scatter(th) \/ Decide(th)
  <2>1. /\ UNCHANGED <<commVars, storedVars, timestamp, step>>
        /\ \/ loop[th] = "gather" /\ GoOn(th, "scatter")
           \/ loop[th] = "scatter" /\ GoOn(th, "gp_exchange")
           \/ loop[th] = "decide" /\ (GoOn(th, "advance") \/ GoOn(th, "local"))
    BY <1>3 DEF Gather, Scatter, Decide, Leave, Successor
  <2>2. Stay /\ Places'
    BY <1>1, <2>1, GoOnStays
  <2> QED
    BY <2>1, <2>2, QuietKeeps
<1>4. ASSUME NEW u \in Unit, NEW at \in UnitLoops \cup MasterLoops, Body(th, u, at) PROVE Places'
  BY <1>1, <1>4, BodyMoves DEF Places
<1> USE DEF UnitLoops, MasterLoops
<1>5. ASSUME NEW u \in Unit, PreExchange(th, u) \/ PrePostReceive(th, u) \/ PreWaitSends(th, u)
      PROVE  Linked' /\ Places' /\ \A w \in Unit : UnitOK(w)'
  <2>1. \E at \in UnitLoops \cup MasterLoops : Body(th, u, at)
    BY <1>5 DEF PreExchange, PrePostReceive, PreWaitSends
  <2> QED
    BY <1>4, <1>5, <2>1, PreExchangeKeeps, PrePostReceiveKeeps, PreWaitSendsKeeps
<1>6. ASSUME NEW u \in Unit, GpExchange(th, u) \/ GpPostReceive(th, u) \/ GpWaitSends(th, u)
      PROVE  Linked' /\ Places' /\ \A w \in Unit : UnitOK(w)'
  <2>1. \E at \in UnitLoops \cup MasterLoops : Body(th, u, at)
    BY <1>6 DEF GpExchange, GpPostReceive, GpWaitSends
  <2> QED
    BY <1>4, <1>6, <2>1, GpExchangeKeeps, GpPostReceiveKeeps, GpWaitSendsKeeps
<1>7. ASSUME NEW u \in Unit, SlExchange(th, u) \/ SlReceive(th, u) \/ SlWaitSends(th, u)
      PROVE  Linked' /\ Places' /\ \A w \in Unit : UnitOK(w)'
  <2>1. \E at \in UnitLoops \cup MasterLoops : Body(th, u, at)
    BY <1>7 DEF SlExchange, SlReceive, SlWaitSends
  <2> QED
    BY <1>4, <1>7, <2>1, SlExchangeKeeps, SlReceiveKeeps, SlWaitSendsKeeps
<1>8. ASSUME NEW u \in Unit, Advance(th, u) \/ Scrutinize(th, u)
      PROVE  Linked' /\ Places' /\ \A w \in Unit : UnitOK(w)'
  <2>1. \E at \in UnitLoops \cup MasterLoops : Body(th, u, at)
    BY <1>8 DEF Advance, Scrutinize, Local
  <2> QED
    BY <1>4, <1>8, <2>1, AdvanceKeeps, ScrutinizeKeeps
<1>9. ASSUME NEW u \in Unit, Local(th, u, "sl_work") \/ Local(th, u, "output")
      PROVE  Linked' /\ Places' /\ \A w \in Unit : UnitOK(w)'
  <2>1. \E at \in UnitLoops \cup MasterLoops : Body(th, u, at)
    BY <1>9 DEF Local
  <2> QED
    BY <1>4, <1>9, <2>1, SlWorkKeeps, OutputKeeps
<1>10. ASSUME NEW u \in Unit,
              \/ \E at \in {"launch", "init_iteration", "local"} : Local(th, u, at)
              \/ Condense(th, u) \/ Update(th, u)
       PROVE  Linked' /\ Places' /\ \A w \in Unit : UnitOK(w)'
  <2>1. PICK at \in {"launch", "init_iteration", "local", "condense", "update"} :
          Body(th, u, at) /\ UNCHANGED <<commVars, storedVars, timestamp>>
    BY <1>10 DEF Local, Condense, Update
  <2>2. at \in UnitLoops \cup MasterLoops
    OBVIOUS
  <2> QED
    BY <1>4, <2>1, <2>2, ComputingKeeps
<1>11. ASSUME NEW u \in Unit, Assemble(th, u)
       PROVE  Linked' /\ Places' /\ \A w \in Unit : UnitOK(w)'
  <2>1. Body(th, u, "assemble") /\ UNCHANGED <<commVars, storedVars, timestamp>>
    BY <1>11 DEF Assemble
  <2>2. Stay /\ Places'
    BY <1>1, <2>1, AssembleStays
  <2> QED
    BY <2>1, <2>2, QuietKeeps
<1> QED
  BY <1>2, <1>3, <1>5, <1>6, <1>7, <1>8, <1>9, <1>10, <1>11 DEF ThreadStep

LEMMA NextCInv == FewSubmeshes /\ IInv /\ CInv /\ [Next]_vars => CInv'
<1> SUFFICES ASSUME FewSubmeshes, IInv, CInv, [Next]_vars PROVE CInv'
  OBVIOUS
<1>1. Places /\ timestamp \in [Unit -> Nat] /\ step \in [Threads -> Nat \ {0}]
  BY DEF CInv
<1>2. CASE UNCHANGED vars
  <2>1. UNCHANGED <<loop, su_id, step, commVars, storedVars, timestamp>>
    BY <1>2 DEF vars, threadVars
  <2>2. Stay /\ Places' /\ FirstStep'
    BY <2>1, <1>1, ThreadStays, MasterStays DEF Stay, Places, LoopStarts, CInv, FirstStep
  <2> QED
    BY <1>1, <2>1, <2>2, QuietKeeps DEF CInv
<1>3. CASE Next /\ UNCHANGED vars
  BY <1>2, <1>3
<1>4. CASE Next /\ ~UNCHANGED vars
  <2>1. FirstStep'
    BY <1>4, StillFirstStep
  <2>2. Linked' /\ Places' /\ \A w \in Unit : UnitOK(w)'
    <3>1. ASSUME NEW th \in Threads, ThreadStep(th)
          PROVE  Linked' /\ Places' /\ \A w \in Unit : UnitOK(w)'
      BY <3>1, ThreadStepLinks
    <3>2. ASSUME NEW l \in Ranks, Barrier(l)
          PROVE  Linked' /\ Places' /\ \A w \in Unit : UnitOK(w)'
      BY <1>1, <3>2, BarrierStays, QuietKeeps DEF Barrier
    <3>3. ASSUME Solve PROVE Linked' /\ Places' /\ \A w \in Unit : UnitOK(w)'
      BY <1>1, <3>3, SolveStays, QuietKeeps DEF Solve, SolveWith
    <3>4. ASSUME Mpi PROVE Linked' /\ Places' /\ \A w \in Unit : UnitOK(w)'
      BY <1>1, <3>4, MpiKeeps DEF Mpi, threadVars, Places, LoopStarts
    <3> QED
      BY <1>4, <3>1, <3>2, <3>3, <3>4 DEF Next, Progress, Terminated
  <2>3. timestamp' \in [Unit -> Nat]
    <3>1. timestamp' = timestamp \/ \E u \in Unit : timestamp' = [timestamp EXCEPT ![u] = @ + 1]
      BY <1>4 DEF Next, Progress, Terminated, ThreadStep, Skip, Gather, Scatter, Decide, PreExchange,
         PrePostReceive, PreWaitSends, GpExchange, GpPostReceive, GpWaitSends, Local, Condense, Assemble,
         Update, Advance, SlExchange, SlReceive, SlWaitSends, Scrutinize, Barrier, Solve, SolveWith, Mpi, vars
    <3> QED
      BY <1>1, <3>1
  <2>4. step' \in [Threads -> Nat \ {0}]
    <3>1. ASSUME NEW th \in Threads, NEW u, NEW at, Body(th, u, at)
          PROVE  step' = step \/ step' = [step EXCEPT ![th] = @ + 1]
      BY <3>1 DEF Body, Leave
    <3>2. ASSUME NEW th \in Threads, ThreadStep(th)
          PROVE  step' = step \/ step' = [step EXCEPT ![th] = @ + 1]
      <4>1. CASE Skip(th) \/ Gather(th) \/ Scatter(th) \/ Decide(th)
        <5>1. loop[th] \in {"gather", "scatter"} /\ Leave(th) => step' = step
          BY DEF Leave
        <5> QED
          BY <4>1, <5>1 DEF Skip, Gather, Scatter, Decide
      <4>2. CASE \E u, at : Body(th, u, at)
        BY <3>1, <4>2
      <4> QED
        BY <3>2, <4>1, <4>2 DEF ThreadStep, PreExchange, PrePostReceive, PreWaitSends, GpExchange,
           GpPostReceive, GpWaitSends, Local, Condense, Assemble, Update, Advance, SlExchange, SlReceive,
           SlWaitSends, Scrutinize
    <3>3. step' = step \/ \E th \in Threads : step' = [step EXCEPT ![th] = @ + 1]
      BY <1>4, <3>2 DEF Next, Progress, Terminated, Barrier, Solve, SolveWith, Mpi, threadVars
    <3> QED
      BY <1>1, <3>3
  <2> QED
    BY <2>1, <2>2, <2>3, <2>4 DEF CInv
<1> QED
  BY <1>2, <1>3, <1>4

LEMMA InitCInv == Init => CInv
<1> SUFFICES ASSUME Init PROVE CInv
  OBVIOUS
<1>1. CommTypeOK
  <2>1. receive_buffer \in [Slots -> Data]
    <3>1. \A s \in Slots : Written(s[2], s[1], s[3], -1) \in Data
      BY DEF Slots, Written, Data
    <3> QED
      BY <3>1 DEF Init, CommInit
  <2>2. send_buffer \in [Unit -> [CommTypes -> Nat \cup {-1}]]
    BY DEF Init, CommInit
  <2>3. network \in [Envelopes -> Seq(Message)] /\ posted \in [Envelopes -> Seq(Slots)]
    BY DEF Init, CommInit
  <2> QED
    BY <2>1, <2>2, <2>3 DEF Init, CommInit, CommTypeOK
<1>2. /\ CommTypes = {"baryctr_coord", "init_global_prob", "baryctr_state"}
      /\ \A u \in Unit, c \in CommTypes : send_buffer[u][c] = -1
      /\ \A u \in Unit : timestamp[u] = 0
      /\ \A th \in Threads : loop[th] = "pre_exchange" /\ su_id[th] = FirstId(th) /\ step[th] = 1
  BY IhdgOmpiAssumption DEF Init, CommInit
<1>3. ASSUME NEW u \in Unit PROVE InTurn(u) /\ Started(u) = 0
  <2>1. /\ send_buffer[u]["baryctr_coord"] = -1 /\ send_buffer[u]["init_global_prob"] = -1
        /\ send_buffer[u]["baryctr_state"] = -1
    BY <1>2
  <2> QED
    BY <1>2, <2>1 DEF InTurn, Started
<1>4. ASSUME NEW v \in Unit, NEW u \in Neigh[v] PROVE Link(u, v)
  <2>1. u \in Unit /\ SendEnvelope(u, v) \in Envelopes
    BY EnvelopeOf
  <2>2. network[SendEnvelope(u, v)] = <<>> /\ posted[SendEnvelope(u, v)] = <<>>
    BY <2>1 DEF Init, CommInit
  <2>3. Delivered(u, v) = 0
    BY <1>3, <2>2 DEF Delivered
  <2> QED
    BY <1>2, <1>3, <2>1, <2>2, <2>3 DEF Link, InOrder, OneReceive, Arrived
<1>5. Linked
  BY <1>1, <1>3, <1>4 DEF Linked, Init, CommInit
<1>6. Places
  BY <1>2, RunIds DEF Places, LoopStarts, Init
<1>7. ASSUME NEW u \in Unit PROVE UnitOK(u)
  <2> DEFINE r == Runner(u)
  <2>1. /\ r \in Threads /\ FirstId(r) <= SubmeshId[u] /\ FirstId(r) \in Int /\ SubmeshId[u] \in Nat
        /\ <<Locality[u], 0>> \in Threads
    BY RunnerRuns
  <2>2. ~(su_id[r] > SubmeshId[u]) /\ loop[r] = "pre_exchange" /\ step[r] = 1
    BY <1>2, <2>1
  <2>3. At(u) = "pre_exchange" /\ StepOf(u) = 1
    BY <2>2 DEF At, StepOf, Ran, PreLoops
  <2>4. GpAt(u) = "gp_exchange"
    BY <1>2, <2>1 DEF GpAt, Exchanging
  <2>5. Requests(u)
    BY DEF Requests, Init, CommInit
  <2>6. Stamps(u)
    BY <1>2, <2>3, <2>4 DEF Stamps, StepsLimited, AdvancedLoops, SlLoops
  <2>7. Stored(u)
    BY <1>2, <2>3, <2>4 DEF Stored
  <2> QED
    BY <2>5, <2>6, <2>7 DEF UnitOK
<1> QED
  BY <1>2, <1>5, <1>6, <1>7 DEF CInv, FirstStep, Init

(* The program keeps it if no rank has more submeshes than a tag can name. *)
THEOREM Exchanges ==
  ASSUME FewSubmeshes
  PROVE  Spec => []CInv
<1>1. Init => IInv /\ CInv
  BY InitIInv, InitCInv
<1>2. IInv /\ CInv /\ [Next]_vars => IInv' /\ CInv'
  BY NextIInv, NextCInv
<1> QED
  BY <1>1, <1>2, PTL DEF Spec

(* Every system is assembled and every slope limited from the neighbours'  *)
(* data of the same step, although one tag serves all types, the master    *)
(* exchanges for submeshes of other threads and MPI may read a buffer late.*)
THEOREM Freshness ==
  ASSUME FewSubmeshes
  PROVE  Spec => []FreshData
<1>1. IInv /\ CInv => FreshData
  <2> SUFFICES ASSUME IInv, CInv, NEW th \in Threads, NEW rb \in RankBoundaries, Runs(th, rb[1])
               PROVE  /\ loop[th] \in Numbered \ {"numbered_barrier"} =>
                           /\ baryctr_coord_neigh[rb] = Written(rb[2], rb[1], "baryctr_coord", 0)
                           /\ bath_ex[rb] = Written(rb[2], rb[1], "init_global_prob", 0)
                      /\ SlopeLimiting /\ Past(th, rb[1], "sl_receive", Limited) =>
                           q_at_baryctr_neigh[rb] = Written(rb[2], rb[1], "baryctr_state", timestamp[rb[1]])
    BY DEF FreshData
  <2> DEFINE u == rb[1]
             v == rb[2]
  <2>1. u \in Unit /\ v \in Neigh[u] /\ rb = <<u, v>>
    BY DEF RankBoundaries
  <2> HIDE DEF u, v
  <2>2. UnitOK(u) /\ Runs(th, u) /\ th = Runner(u) /\ Locality[u] = th[1]
    <3>1. Runs(th, u)
      BY DEF u
    <3>2. th = Runner(u) /\ Runner(u)[1] = Locality[u]
      BY <2>1, <3>1, RunnerRuns
    <3> QED
      BY <2>1, <3>1, <3>2 DEF CInv
  <2>3. ASSUME loop[th] \in Numbered \ {"numbered_barrier"}
        PROVE  /\ baryctr_coord_neigh[rb] = Written(v, u, "baryctr_coord", 0)
               /\ bath_ex[rb] = Written(v, u, "init_global_prob", 0)
    <3>1. loop[th] \in Computing \cup SolvingLoops /\ loop[th] \notin PreLoops
      BY <2>3 DEF Numbered, Stepping, Computing, Preparing, Updating, Decided, SolvingLoops, SolvingMaster,
         PreLoops
    <3>2. loop[th] \in UnitLoops => Successor(th) \notin PreLoops
      BY <3>1, UnitSuccessor DEF UnitLoops, PreLoops
    <3>3. At(u) \notin PreLoops
      BY <2>2, <3>1, <3>2 DEF At, Ran, PreLoops
    <3>4. GpAt(u) = "numbered_barrier"
      <4> DEFINE m == <<Locality[u], 0>>
      <4>1. m \in Threads /\ m[1] = th[1]
        BY <2>1, <2>2, RunnerRuns
      <4>2. loop[m] \in Computing \cup SolvingLoops
        BY <2>2, <3>1, <4>1 DEF IInv, SamePart, Parts
      <4>3. \A x \in Computing \cup SolvingLoops :
              x \notin Exchanging \cup {"gather", "scatter"} /\ x \notin GpLoops
        BY DEF Computing, Preparing, Updating, Decided, SolvingLoops, SolvingMaster, Exchanging, GpLoops
      <4> QED
        BY <4>2, <4>3 DEF GpAt
    <3> QED
      BY <2>1, <2>2, <3>3, <3>4 DEF UnitOK, Stored, PreLoops
  <2>4. ASSUME SlopeLimiting, Past(th, u, "sl_receive", Limited)
        PROVE  q_at_baryctr_neigh[rb] = Written(v, u, "baryctr_state", timestamp[u])
    <3>1. \/ At(u) \in {"sl_wait_sends", "scrutinize", "output", "done"}
          \/ At(u) = "computing" /\ StepOf(u) = step[th] + 1
      <4>1. CASE loop[th] = "sl_receive" /\ su_id[th] > SubmeshId[u]
        BY <2>2, <4>1 DEF At, Ran, UnitLoops, Successor, AdvancedLoops, SlLoops
      <4>2. CASE loop[th] \in {"sl_wait_sends", "scrutinize", "done"}
        BY <2>2, <4>2 DEF At, Ran, UnitLoops, Successor, AdvancedLoops, SlLoops
      <4>3. CASE loop[th] = "output"
        BY <2>2, <4>3 DEF At, StepOf, Ran, UnitLoops, Successor, PreLoops, AdvancedLoops, SlLoops
      <4> QED
        BY <2>4, <4>1, <4>2, <4>3 DEF Past, Limited
    <3>2. At(u) \notin {"sl_exchange", "sl_work", "sl_receive"}
      BY <3>1
    <3>3. timestamp[u] > 0
      <4>1. step[th] \in Nat \ {0} /\ NumSteps \in Nat \ {0}
        BY IhdgOmpiAssumption DEF CInv
      <4> QED
        BY <2>2, <3>1, <4>1 DEF UnitOK, Stamps, AdvancedLoops, SlLoops
    <3> QED
      BY <2>1, <2>2, <2>4, <3>2, <3>3 DEF UnitOK, Stored
  <2> QED
    BY <2>3, <2>4 DEF u, v
<1> QED
  BY <1>1, Invariance, Exchanges, PTL

(* No request is started while it is active, every message fits its        *)
(* receive, and MPI_Finalize finds nothing in flight.                      *)
THEOREM MpiUse ==
  ASSUME FewSubmeshes
  PROVE  Spec => []MpiCorrect
<1>1. IInv /\ CInv => MpiCorrect
  <2> SUFFICES ASSUME IInv, CInv, AllDone
               PROVE  /\ send_requests = {} /\ receive_requests = {}
                      /\ \A e \in Envelopes : network[e] = <<>> /\ posted[e] = <<>>
    BY DEF MpiCorrect, CInv, Linked
  <2>1. ASSUME NEW u \in Unit PROVE At(u) = "done" /\ GpAt(u) = "numbered_barrier" /\ UnitOK(u)
    <3>1. Runner(u) \in Threads /\ <<Locality[u], 0>> \in Threads
      BY RunnerRuns
    <3>2. loop[Runner(u)] = "done" /\ loop[<<Locality[u], 0>>] = "done"
      BY <3>1 DEF AllDone
    <3> QED
      BY <3>2 DEF At, Ran, GpAt, UnitLoops, Exchanging, GpLoops, CInv
  <2>2. \A s \in send_requests \cup receive_requests : s[1] \in Unit
    <3>1. send_requests \cup receive_requests \subseteq Slots
      BY DEF CInv, Linked, CommTypeOK
    <3> QED
      BY <3>1 DEF Slots
  <2>3. send_requests = {} /\ receive_requests = {}
    <3>1. \A u \in Unit : \A c : ~Sending(u, c) /\ ~Receiving(u, c)
      BY <2>1 DEF Sending, Receiving
    <3> QED
      BY <2>1, <2>2, <3>1 DEF UnitOK, Requests
  <2>4. ASSUME NEW u \in Unit PROVE Started(u) = IF SlopeLimiting THEN NumSteps + 2 ELSE 2
    <3>1. /\ StepsLimited(u) = NumSteps /\ NumSteps \in Nat \ {0} /\ SlopeLimiting \in BOOLEAN
          /\ send_buffer[u]["init_global_prob"] = 0
      <4>1. NumSteps \in Nat \ {0} /\ StepOf(u) = NumSteps + 1 /\ SlopeLimiting \in BOOLEAN
        BY <2>1, IhdgOmpiAssumption DEF UnitOK, Stamps
      <4> QED
        BY <2>1, <4>1 DEF UnitOK, Stamps, StepsLimited, AdvancedLoops, SlLoops
    <3>2. send_buffer[u]["baryctr_state"] = IF SlopeLimiting THEN NumSteps ELSE -1
      BY <2>1, <3>1 DEF UnitOK, Stamps
    <3> QED
      BY <3>1, <3>2 DEF Started
  <2>5. ASSUME NEW v \in Unit, NEW u \in Neigh[v]
        PROVE  network[SendEnvelope(u, v)] = <<>> /\ posted[SendEnvelope(u, v)] = <<>>
    <3> DEFINE e == SendEnvelope(u, v)
    <3>1. u \in Unit /\ e \in Envelopes /\ Link(u, v) /\ CommTypeOK
      BY EnvelopeOf DEF CInv, Linked
    <3>2. unreceived = {} /\ network[e] \in Seq(Message)
      BY <2>3, <3>1 DEF CommTypeOK
    <3>3. posted[e] = <<>>
      BY <3>1, <3>2 DEF Link, OneReceive
    <3>4. Started(u) = Started(v) /\ Started(u) \in Int
      BY <2>4, <3>1, StartedType
    <3>5. Delivered(u, v) = Started(v)
      BY <3>3, <3>4 DEF Delivered
    <3>6. Len(network[e]) = 0
      BY <3>1, <3>4, <3>5 DEF Link, InOrder
    <3>7. network[e] = <<>>
      <4> HIDE DEF e
      <4> QED
        BY <3>2, <3>6
    <3> QED
      BY <3>3, <3>7
  <2> QED
    BY <2>3, <2>5, EveryEnvelope
<1> QED
  BY <1>1, Invariance, Exchanges, PTL

-----------------------------------------------------------------------------
(* The numbering of the edges.  Of a rank it goes through three phases, as *)
(* its master goes through its section: not numbered, numbered locally,    *)
(* and knowing its offset; then submesh by submesh to the global numbers.  *)
Unnumbered == Exchanging \cup {"gather"}
Phase(l) ==
  IF loop[<<l, 0>>] \in Unnumbered THEN "unnumbered"
  ELSE IF loop[<<l, 0>>] = "scatter" THEN "counted" ELSE "scattered"

Scans ==
  \A l \in Ranks :
    total_global_dof_offsets[l] = IF Phase(l) = "unnumbered" THEN -1 ELSE RankCount(l)

UnitNumbers(u) ==
  /\ Phase(Locality[u]) = "scattered" =>
       OffsetInRank(u) + total_global_dof_offset[Locality[u]] = FirstNumber(u)
  /\ Phase(Locality[u]) # "unnumbered" /\ GpAt(u) = "gp_exchange" =>
       /\ global_dof_offsets[u] = OffsetInRank(u) /\ global_dof_indx[<<u, u>>] = 0
       /\ \A v \in OwnedEdges(u) : global_dof_indx[<<u, v>>] = LocalIndex(<<u, v>>)
  /\ GpAt(u) # "gp_exchange" =>
       /\ global_dof_indx[<<u, u>>] = FirstNumber(u)
       /\ \A v \in OwnedEdges(u) :
            global_dof_indx[<<u, v>>] = FirstNumber(u) + LocalIndex(<<u, v>>)
  /\ GpAt(u) \notin {"gp_exchange", "gp_post_receive"} =>
       \A v \in Neigh[u] : Owns(v, u) =>
         global_dof_indx[<<u, v>>] = FirstNumber(v) + LocalIndex(<<v, u>>)

NInv ==
  /\ global_dof_offsets \in [Unit -> Int] /\ global_dof_indx \in [Edges -> Int]
  /\ total_global_dof_offset \in [Ranks -> Int] /\ total_global_dof_offsets \in [Ranks -> Int]
  /\ Scans /\ \A u \in Unit : UnitNumbers(u)

(* Only the gathering and the scattering end a phase.                      *)
LEMMA PhaseKept ==
  ASSUME IInv, CInv, Next, NEW l \in Ranks, ~Gather(<<l, 0>>), ~Scatter(<<l, 0>>)
  PROVE  Phase(l)' = Phase(l)
<1> DEFINE th == <<l, 0>>
           early == Unnumbered \cup {"scatter"}
<1>1. loop \in [Threads -> Loops] /\ Places /\ th \in Threads /\ th[1] = l /\ th[2] = 0
  BY RankHasMaster DEF IInv, ThreadsOK, CInv
<1>2. \A x \in {"done", "init_iteration", "solve_barrier", "decide", "advance", "local",
                "launch", "update", "solved_barrier", "output", "solve"} : x \notin early
  BY DEF Unnumbered, Exchanging
<1> SUFFICES \/ loop'[th] = loop[th]
             \/ loop[th] \in Unnumbered /\ loop'[th] \in Unnumbered
             \/ loop[th] \notin early /\ loop'[th] \notin early
  BY DEF Phase
<1> DEFINE Kept == \/ loop'[th] = loop[th]
                   \/ loop[th] \in Unnumbered /\ loop'[th] \in Unnumbered
                   \/ loop[th] \notin early /\ loop'[th] \notin early
<1>3. ASSUME NEW m \in Threads, NEW u \in Unit, NEW at \in UnitLoops \cup MasterLoops, Body(m, u, at)
      PROVE  Kept
  <2>1. /\ loop' = loop \/ loop' = [loop EXCEPT ![m] = Successor(m)]
        /\ loop[m] = at
    BY <1>1, <1>3, BodyMoves DEF Body
  <2>2. CASE at \in PreLoops
    <3>1. loop[m] \in Unnumbered /\ Successor(m) \in Unnumbered
      BY <2>1, <2>2 DEF Successor, PreLoops, Exchanging, Unnumbered
    <3> QED
      BY <1>1, <2>1, <3>1
  <2>3. CASE at \notin PreLoops
    <3>1. loop[m] \notin early /\ Successor(m) \notin early
      BY <2>1, <2>3 DEF Successor, PreLoops, Exchanging, Unnumbered, UnitLoops, MasterLoops
    <3> QED
      BY <1>1, <2>1, <3>1
  <2> QED
    BY <2>2, <2>3
<1>4. ASSUME NEW m \in Threads, Skip(m) PROVE Kept
  <2>1. \/ /\ loop[m] \in Unnumbered
           /\ loop' = [loop EXCEPT ![m] = "pre_barrier"]
        \/ /\ loop[m] \in {"launch", "init_iteration", "local", "update", "advance"}
           /\ \E to \in {"solve_barrier", "decide", "done", "init_iteration"} :
                loop' = [loop EXCEPT ![m] = to]
    BY <1>1, <1>4 DEF Skip, Exchanging, Unnumbered
  <2>2. "pre_barrier" \in Unnumbered
    BY DEF Unnumbered, Exchanging
  <2> QED
    BY <1>1, <1>2, <2>1, <2>2
<1>5. ASSUME NEW m \in Threads, Gather(m) \/ Scatter(m) \/ Decide(m) PROVE Kept
  <2>1. CASE m = th
    <3>1. loop[th] = "decide" /\ (loop' = [loop EXCEPT ![m] = "advance"] \/ loop' = [loop EXCEPT ![m] = "local"])
      BY <1>5, <2>1 DEF Decide, GoOn
    <3> QED
      BY <1>1, <1>2, <2>1, <3>1
  <2>2. CASE m # th
    <3>1. \E x : loop' = [loop EXCEPT ![m] = x]
      BY <1>5 DEF Gather, Scatter, Decide, Leave, GoOn
    <3> QED
      BY <1>1, <2>2, <3>1
  <2> QED
    BY <2>1, <2>2
<1>6. ASSUME NEW r \in Ranks, Barrier(r) PROVE Kept
  <2>1. loop'[th] = loop[th] \/ (r = l /\ loop'[th] = AfterBarrier(th) /\ loop[th] \in Barriers)
    BY <1>1, <1>6 DEF Barrier
  <2>2. CASE loop[th] \in Barriers /\ loop'[th] = AfterBarrier(th)
    <3>1. loop[th] = "pre_barrier" => loop'[th] = "gather"
      BY <1>1, <2>2 DEF AfterBarrier
    <3>2. loop[th] # "pre_barrier" => loop[th] \notin early /\ loop'[th] \notin early
      BY <1>1, <2>2 DEF AfterBarrier, Barriers, Unnumbered, Exchanging
    <3> QED
      BY <3>1, <3>2 DEF Unnumbered, Exchanging
  <2> QED
    BY <2>1, <2>2
<1>7. ASSUME Solve PROVE Kept
  <2>1. loop'[th] = loop[th] \/ (loop[th] = "solve" /\ loop'[th] = "solved_barrier")
    BY <1>1, <1>7 DEF Solve, SolveWith, Masters, Successor
  <2> QED
    BY <1>2, <2>1
<1>8. ASSUME NEW m \in Threads, ThreadStep(m), ~Skip(m), ~Gather(m), ~Scatter(m), ~Decide(m)
      PROVE  \E w \in Unit : \E at \in UnitLoops \cup MasterLoops : Body(m, w, at)
  BY <1>8 DEF ThreadStep, PreExchange, PrePostReceive, PreWaitSends, GpExchange, GpPostReceive, GpWaitSends,
     Local, Condense, Assemble, Update, Advance, SlExchange, SlReceive, SlWaitSends, Scrutinize,
     UnitLoops, MasterLoops
<1> HIDE DEF Kept
<1>9. ASSUME NEW m \in Threads, ThreadStep(m) PROVE Kept
  BY <1>3, <1>4, <1>5, <1>8, <1>9
<1>10. ASSUME UNCHANGED loop PROVE Kept
  BY <1>10 DEF Kept
<1>11. Kept
  BY <1>6, <1>7, <1>9, <1>10 DEF Next, Progress, Mpi, Terminated, vars, threadVars
<1> QED
  BY <1>11 DEF Kept

(* Nothing else changes the numbers than the two and the exchange of u.    *)
LEMMA NumbersKept ==
  ASSUME NInv, UNCHANGED numberVars, \A l \in Ranks : Phase(l)' = Phase(l),
         \A u \in Unit : \/ GpAt(u)' = GpAt(u)
                         \/ GpAt(u) = "gp_wait_sends" /\ GpAt(u)' = "numbered_barrier"
  PROVE  NInv'
<1>1. Scans'
  BY DEF NInv, Scans, numberVars
<1>2. ASSUME NEW u \in Unit PROVE UnitNumbers(u)'
  <2>1. Locality[u] \in Ranks /\ Phase(Locality[u])' = Phase(Locality[u]) /\ UnitNumbers(u)
    BY DEF Ranks, NInv
  <2>2. /\ (GpAt(u)' = "gp_exchange") <=> (GpAt(u) = "gp_exchange")
        /\ (GpAt(u)' = "gp_post_receive") <=> (GpAt(u) = "gp_post_receive")
    OBVIOUS
  <2> QED
    BY <2>1, <2>2 DEF UnitNumbers, numberVars
<1> QED
  BY <1>1, <1>2 DEF NInv, numberVars

(* The gathering: the rank is numbered locally.                            *)
LEMMA GatherNumbers ==
  ASSUME IInv, CInv, NInv, NEW th \in Threads, Gather(th)
  PROVE  NInv'
<1> DEFINE l == th[1]
<1>1. th = <<l, 0>> /\ l \in Ranks /\ loop[th] = "gather" /\ loop \in [Threads -> Loops]
  <2>1. th[2] = 0
    BY DEF Gather, IInv, MasterSections, MasterParts, NumberingMaster
  <2> QED
    BY <2>1, ThreadShape DEF Gather, IInv, ThreadsOK
<1>2. loop' = [loop EXCEPT ![th] = "scatter"] /\ Stay
  <2>1. GoOn(th, "scatter") /\ UNCHANGED step /\ Places
    BY <1>1 DEF Gather, Leave, Successor, CInv
  <2> QED
    BY <1>1, <2>1, GoOnStays DEF GoOn
<1>3. /\ Phase(l) = "unnumbered" /\ Phase(l)' = "counted"
      /\ \A r \in Ranks \ {l} : Phase(r)' = Phase(r)
  <2>1. ASSUME NEW r \in Ranks PROVE <<r, 0>> \in Threads /\ (r # l => <<r, 0>> # th)
    <3>1. <<r, 0>>[1] = r
      OBVIOUS
    <3> QED
      BY <3>1, RankHasMaster
  <2> QED
    BY <1>1, <1>2, <2>1 DEF Phase, Unnumbered, Exchanging
<1>4. /\ global_dof_indx' = [e \in Edges |->
            IF Locality[e[1]] = l THEN LocalIndex(e) ELSE global_dof_indx[e]]
      /\ global_dof_offsets' = [u \in Unit |->
            IF Locality[u] = l THEN OffsetInRank(u) ELSE global_dof_offsets[u]]
      /\ total_global_dof_offsets' = [total_global_dof_offsets EXCEPT ![l] = RankCount(l)]
      /\ total_global_dof_offset' = total_global_dof_offset
  BY DEF Gather
<1>5. Scans'
  BY <1>1, <1>3, <1>4 DEF NInv, Scans
<1>6. ASSUME NEW u \in Unit PROVE UnitNumbers(u)'
  <2>1. UnitNumbers(u) /\ GpAt(u)' = GpAt(u) /\ Locality[u] \in Ranks
    BY <1>2 DEF NInv, Stay, Ranks
  <2>2. /\ <<u, u>> \in Edges /\ \A v \in Neigh[u] : <<u, v>> \in Edges
        /\ \A v \in OwnedEdges(u) : v \in Neigh[u]
    BY EdgeTypes
  <2>3. CASE Locality[u] # l
    <3>1. /\ global_dof_offsets'[u] = global_dof_offsets[u]
          /\ global_dof_indx'[<<u, u>>] = global_dof_indx[<<u, u>>]
          /\ \A v \in Neigh[u] : global_dof_indx'[<<u, v>>] = global_dof_indx[<<u, v>>]
      BY <1>4, <2>2, <2>3
    <3>2. Phase(Locality[u])' = Phase(Locality[u])
      BY <1>3, <2>1, <2>3
    <3> QED
      BY <1>4, <2>1, <2>2, <3>1, <3>2 DEF UnitNumbers
  <2>4. CASE Locality[u] = l
    <3>1. /\ global_dof_offsets'[u] = OffsetInRank(u)
          /\ global_dof_indx'[<<u, u>>] = LocalIndex(<<u, u>>)
          /\ \A v \in Neigh[u] : global_dof_indx'[<<u, v>>] = LocalIndex(<<u, v>>)
      BY <1>4, <2>2, <2>4
    <3>2. LocalIndex(<<u, u>>) = 0
      BY DEF LocalIndex
    <3>3. GpAt(u)' = "gp_exchange"
      BY <1>1, <2>1, <2>4 DEF GpAt
    <3> QED
      BY <1>3, <2>2, <2>4, <3>1, <3>2, <3>3 DEF UnitNumbers
  <2> QED
    BY <2>3, <2>4
<1>7. global_dof_offsets' \in [Unit -> Int] /\ global_dof_indx' \in [Edges -> Int]
  BY <1>4, EdgeTypes, LocalIndexType DEF NInv
<1>8. total_global_dof_offset' \in [Ranks -> Int] /\ total_global_dof_offsets' \in [Ranks -> Int]
  BY <1>1, <1>4, RankCountType DEF NInv
<1> QED
  BY <1>5, <1>6, <1>7, <1>8 DEF NInv

(* The scattering: all ranks are counted.                                  *)
LEMMA ScatterNumbers ==
  ASSUME IInv, CInv, NInv, NEW th \in Threads, Scatter(th)
  PROVE  NInv'
<1> DEFINE l == th[1]
<1>1. th = <<l, 0>> /\ l \in Ranks /\ loop[th] = "scatter" /\ loop \in [Threads -> Loops]
  <2>1. th[2] = 0
    BY DEF Scatter, IInv, MasterSections, MasterParts, NumberingMaster
  <2> QED
    BY <2>1, ThreadShape DEF Scatter, IInv, ThreadsOK
<1>2. loop' = [loop EXCEPT ![th] = "gp_exchange"] /\ Stay
  <2>1. GoOn(th, "gp_exchange") /\ UNCHANGED step /\ Places
    BY <1>1 DEF Scatter, Leave, Successor, CInv
  <2> QED
    BY <1>1, <2>1, GoOnStays DEF GoOn
<1>3. /\ Phase(l) = "counted" /\ Phase(l)' = "scattered"
      /\ \A r \in Ranks \ {l} : Phase(r)' = Phase(r)
  <2>1. ASSUME NEW r \in Ranks PROVE <<r, 0>> \in Threads /\ (r # l => <<r, 0>> # th)
    <3>1. <<r, 0>>[1] = r
      OBVIOUS
    <3> QED
      BY <3>1, RankHasMaster
  <2> QED
    BY <1>1, <1>2, <2>1 DEF Phase, Unnumbered, Exchanging
<1>4. /\ UNCHANGED <<global_dof_offsets, total_global_dof_offsets, global_dof_indx>>
      /\ total_global_dof_offset' =
           [total_global_dof_offset EXCEPT ![l] = OffsetOfRank(total_global_dof_offsets, l)]
      /\ \A r \in Ranks : total_global_dof_offsets[r] # -1
  BY DEF Scatter
<1>5. \A r \in Ranks : total_global_dof_offsets[r] = RankCount(r)
  BY <1>4 DEF NInv, Scans
<1>6. Scans'
  BY <1>3, <1>4 DEF NInv, Scans
<1>7. ASSUME NEW u \in Unit PROVE UnitNumbers(u)'
  <2>1. UnitNumbers(u) /\ GpAt(u)' = GpAt(u) /\ Locality[u] \in Ranks
    BY <1>2 DEF NInv, Stay, Ranks
  <2>2. CASE Locality[u] # l
    <3>1. Phase(Locality[u])' = Phase(Locality[u])
          /\ total_global_dof_offset'[Locality[u]] = total_global_dof_offset[Locality[u]]
      BY <1>3, <1>4, <2>1, <2>2 DEF NInv
    <3> QED
      BY <1>4, <2>1, <3>1 DEF UnitNumbers
  <2>3. CASE Locality[u] = l
    <3>1. OffsetInRank(u) + OffsetOfRank(total_global_dof_offsets, Locality[u]) = FirstNumber(u)
      BY <1>5, OffsetsAddUp
    <3>2. total_global_dof_offset'[l] = OffsetOfRank(total_global_dof_offsets, l)
      BY <1>1, <1>4 DEF NInv
    <3> QED
      BY <1>3, <1>4, <2>1, <2>3, <3>1, <3>2 DEF UnitNumbers
  <2> QED
    BY <2>2, <2>3
<1>8. total_global_dof_offset' \in [Ranks -> Int]
  <2>1. OffsetOfRank(total_global_dof_offsets, l) \in Int
    BY <1>1, <1>5, OffsetOfRankType
  <2> QED
    BY <1>4, <2>1 DEF NInv
<1> QED
  BY <1>4, <1>6, <1>7, <1>8 DEF NInv

(* The master's exchange: u gets its global numbers and sends them.        *)
LEMMA GpExchangeNumbers ==
  ASSUME IInv, CInv, NInv, Next, NEW th \in Threads, NEW u \in Unit, GpExchange(th, u),
         \A l \in Ranks : ~Gather(<<l, 0>>) /\ ~Scatter(<<l, 0>>)
  PROVE  NInv'
<1>1. /\ th = <<Locality[u], 0>> /\ loop[th] = "gp_exchange" /\ Locality[u] \in Ranks
      /\ GpAt(u) = "gp_exchange" /\ GpAt(u)' = "gp_post_receive"
      /\ \A w \in Unit \ {u} : GpAt(w)' = GpAt(w)
  <2>1. Body(th, u, "gp_exchange") /\ "gp_exchange" \in GpLoops /\ Places
    BY DEF GpExchange, GpLoops, CInv
  <2>2. loop[th] = "gp_exchange" /\ Successor(th) = "gp_post_receive"
    BY <2>1 DEF Body, Successor
  <2> QED
    BY <2>1, <2>2, MasterMove DEF Ranks
<1>2. \A l \in Ranks : Phase(l)' = Phase(l)
  BY PhaseKept
<1>3. /\ global_dof_offsets' =
           [global_dof_offsets EXCEPT ![u] = @ + total_global_dof_offset[Locality[u]]]
      /\ global_dof_indx' = [e \in Edges |->
           IF e[1] = u /\ (e[2] = u \/ Owns(u, e[2]))
           THEN global_dof_indx[e] + global_dof_offsets'[u] ELSE global_dof_indx[e]]
      /\ UNCHANGED <<total_global_dof_offsets, total_global_dof_offset>>
  BY <1>1 DEF GpExchange
<1>4. Scans'
  BY <1>2, <1>3 DEF NInv, Scans
<1>5. Phase(Locality[u]) = "scattered"
  BY <1>1 DEF Phase, Unnumbered, Exchanging
<1>6. global_dof_offsets'[u] = FirstNumber(u) /\ global_dof_offsets'[u] \in Int
  <2>1. global_dof_offsets'[u] = global_dof_offsets[u] + total_global_dof_offset[Locality[u]]
    BY <1>3 DEF NInv
  <2>2. UnitNumbers(u)
    BY DEF NInv
  <2>3. /\ OffsetInRank(u) + total_global_dof_offset[Locality[u]] = FirstNumber(u)
        /\ global_dof_offsets[u] = OffsetInRank(u)
    BY <1>1, <1>5, <2>2 DEF UnitNumbers
  <2> QED
    BY <2>1, <2>3, EdgeTypes
<1>7. UnitNumbers(u)'
  <2>1. UnitNumbers(u)
    BY DEF NInv
  <2>2. global_dof_indx'[<<u, u>>] = FirstNumber(u)
    <3>1. global_dof_indx'[<<u, u>>] = global_dof_indx[<<u, u>>] + global_dof_offsets'[u]
      BY <1>3, EdgeTypes
    <3> QED
      BY <1>1, <1>5, <1>6, <2>1, <3>1, EdgeTypes DEF UnitNumbers
  <2>3. ASSUME NEW v \in OwnedEdges(u)
        PROVE  global_dof_indx'[<<u, v>>] = FirstNumber(u) + LocalIndex(<<u, v>>)
    <3>1. <<u, v>> \in Edges /\ Owns(u, v) /\ LocalIndex(<<u, v>>) \in Int /\ FirstNumber(u) \in Int
      BY EdgeTypes
    <3>2. global_dof_indx'[<<u, v>>] = global_dof_indx[<<u, v>>] + global_dof_offsets'[u]
      BY <1>3, <3>1
    <3>3. global_dof_indx[<<u, v>>] = LocalIndex(<<u, v>>)
      BY <1>1, <1>5, <2>1 DEF UnitNumbers
    <3> QED
      BY <1>6, <3>1, <3>2, <3>3
  <2>4. Phase(Locality[u])' = Phase(Locality[u])
    BY <1>1, <1>2
  <2> QED
    BY <1>1, <1>3, <2>1, <2>2, <2>3, <2>4 DEF UnitNumbers
<1>8. ASSUME NEW w \in Unit \ {u} PROVE UnitNumbers(w)'
  <2>1. /\ UnitNumbers(w) /\ GpAt(w)' = GpAt(w) /\ Phase(Locality[w])' = Phase(Locality[w])
    BY <1>1, <1>2 DEF NInv, Ranks
  <2>2. /\ global_dof_offsets'[w] = global_dof_offsets[w]
        /\ global_dof_indx'[<<w, w>>] = global_dof_indx[<<w, w>>]
        /\ \A v \in Neigh[w] : global_dof_indx'[<<w, v>>] = global_dof_indx[<<w, v>>]
    <3>1. <<w, w>> \in Edges /\ \A v \in Neigh[w] : <<w, v>> \in Edges
      BY EdgeTypes
    <3> QED
      BY <1>3, <3>1 DEF NInv
  <2>3. \A v \in OwnedEdges(w) : v \in Neigh[w]
    BY EdgeTypes
  <2> QED
    BY <1>3, <2>1, <2>2, <2>3 DEF UnitNumbers
<1>9. global_dof_offsets' \in [Unit -> Int] /\ global_dof_indx' \in [Edges -> Int]
  BY <1>3, <1>6 DEF NInv
<1> QED
  BY <1>3, <1>4, <1>7, <1>8, <1>9 DEF NInv

(* What u waits for its neighbours have sent.                              *)
LEMMA NeighbourHasSent ==
  ASSUME IInv, CInv, NEW th \in Threads, NEW u \in Unit, loop[th] \in NumberingLoops, th[1] = Locality[u],
         GpAt(u) = "gp_post_receive", NEW v \in Neigh[u],
         <<u, v, "init_global_prob">> \notin unreceived
  PROVE  /\ GpAt(v) # "gp_exchange"
         /\ receive_buffer[<<u, v, "init_global_prob">>] = Written(v, u, "init_global_prob", 0)
<1>1. /\ v \in Unit /\ Link(v, u) /\ CommTypeOK /\ UnitOK(u) /\ UnitOK(v) /\ InTurn(v)
      /\ CommTypes = {"baryctr_coord", "init_global_prob", "baryctr_state"}
      /\ SendEnvelope(v, u) \in Envelopes
  BY EnvelopeOf, IhdgOmpiAssumption DEF CInv, Linked
<1>2. At(u) = "computing" /\ StepOf(u) = 1
  BY SamePlace DEF CInv
<1>3. send_buffer[u]["init_global_prob"] = 0 /\ send_buffer[u]["baryctr_state"] = -1
  BY <1>1, <1>2 DEF UnitOK, Stamps, StepsLimited, AdvancedLoops, SlLoops
<1>4. Started(u) = 2
  BY <1>3 DEF Started
<1>5. posted[SendEnvelope(v, u)] = <<>>
  <2> SUFFICES ASSUME NEW c \in CommTypes, <<u, v, c>> \in unreceived,
                      send_buffer[u][c] # -1, Round(c, send_buffer[u][c]) = 2
               PROVE  FALSE
    BY <1>1, <1>4 DEF Link, OneReceive
  <2> QED
    BY <1>1, <1>3 DEF Round
<1>6. Delivered(v, u) = 2
  BY <1>4, <1>5 DEF Delivered
<1>7. Started(v) >= 2
  <2>1. Len(network[SendEnvelope(v, u)]) \in Nat /\ Started(v) \in Int
    BY <1>1, StartedType DEF CommTypeOK
  <2>2. Len(network[SendEnvelope(v, u)]) = Started(v) - 2
    BY <1>1, <1>6 DEF Link, InOrder
  <2> QED
    BY <2>1, <2>2
<1>8. GpAt(v) # "gp_exchange"
  <2> SUFFICES ASSUME GpAt(v) = "gp_exchange" PROVE FALSE
    OBVIOUS
  <2>1. send_buffer[v]["init_global_prob"] = -1
    BY <1>1 DEF UnitOK, Stamps
  <2>2. Started(v) \in {0, 1}
    BY <1>1, <2>1 DEF Started, InTurn
  <2> QED
    BY <1>7, <2>2
<1> QED
  BY <1>1, <1>3, <1>8 DEF Link, Arrived

LEMMA GpPostReceiveNumbers ==
  ASSUME IInv, CInv, NInv, Next, NEW th \in Threads, NEW u \in Unit, GpPostReceive(th, u),
         \A l \in Ranks : ~Gather(<<l, 0>>) /\ ~Scatter(<<l, 0>>)
  PROVE  NInv'
<1>1. /\ th = <<Locality[u], 0>> /\ loop[th] = "gp_post_receive"
      /\ GpAt(u) = "gp_post_receive" /\ GpAt(u)' = "gp_wait_sends"
      /\ \A w \in Unit \ {u} : GpAt(w)' = GpAt(w)
  <2>1. Body(th, u, "gp_post_receive") /\ "gp_post_receive" \in GpLoops /\ Places
    BY DEF GpPostReceive, GpLoops, CInv
  <2>2. loop[th] = "gp_post_receive" /\ Successor(th) = "gp_wait_sends"
    BY <2>1 DEF Body, Successor
  <2> QED
    BY <2>1, <2>2, MasterMove
<1>2. \A l \in Ranks : Phase(l)' = Phase(l)
  BY PhaseKept
<1>3. /\ global_dof_indx' = [e \in Edges |->
           IF e[1] = u /\ e[2] # u /\ Owns(e[2], u)
           THEN IF receive_buffer[<<u, e[2], "init_global_prob">>].ts = -1 THEN 0
                ELSE global_dof_indx[<<e[2], u>>]
           ELSE global_dof_indx[e]]
      /\ UNCHANGED <<global_dof_offsets, total_global_dof_offsets, total_global_dof_offset>>
  BY DEF GpPostReceive
<1>4. Scans'
  BY <1>2, <1>3 DEF NInv, Scans
<1>5. ASSUME NEW v \in Neigh[u], Owns(v, u)
      PROVE  global_dof_indx'[<<u, v>>] = FirstNumber(v) + LocalIndex(<<v, u>>)
  <2>1. <<u, v>> \in Edges /\ v # u /\ v \in Unit /\ u \in OwnedEdges(v)
    BY <1>5, EdgeTypes DEF OwnedEdges
  <2>2. <<u, v, "init_global_prob">> \notin unreceived
    <3>1. <<u, v, "init_global_prob">> \in UnitSlots(u, "init_global_prob")
      BY IhdgOmpiAssumption, EnvelopeOf DEF UnitSlots, Slots
    <3> QED
      BY <3>1 DEF GpPostReceive, WaitReceivesBody, WaitAllReceives
  <2>3. /\ GpAt(v) # "gp_exchange"
        /\ receive_buffer[<<u, v, "init_global_prob">>] = Written(v, u, "init_global_prob", 0)
    <3>1. loop[th] \in NumberingLoops /\ th[1] = Locality[u]
      BY <1>1 DEF NumberingLoops, NumberingMaster
    <3> QED
      BY <1>1, <2>2, <3>1, NeighbourHasSent
  <2>4. receive_buffer[<<u, v, "init_global_prob">>].ts = 0
    BY <2>3 DEF Written
  <2>5. global_dof_indx'[<<u, v>>] = global_dof_indx[<<v, u>>]
    BY <1>3, <1>5, <2>1, <2>4
  <2>6. global_dof_indx[<<v, u>>] = FirstNumber(v) + LocalIndex(<<v, u>>)
    BY <2>1, <2>3 DEF NInv, UnitNumbers
  <2> QED
    BY <2>5, <2>6
<1>6. ASSUME NEW w \in Unit, NEW v, v = w \/ v \in Neigh[w], w # u \/ v = u \/ ~Owns(v, u)
      PROVE  global_dof_indx'[<<w, v>>] = global_dof_indx[<<w, v>>]
  <2>1. <<w, v>> \in Edges
    BY <1>6, EdgeTypes
  <2> QED
    BY <1>3, <1>6, <2>1
<1>7. UnitNumbers(u)'
  <2>1. UnitNumbers(u) /\ Phase(Locality[u])' = Phase(Locality[u])
    BY <1>2 DEF NInv, Ranks
  <2>2. \A v \in OwnedEdges(u) : v \in Neigh[u] /\ ~Owns(v, u)
    BY EdgeTypes, OwnsOrder
  <2>3. /\ global_dof_indx'[<<u, u>>] = global_dof_indx[<<u, u>>]
        /\ \A v \in OwnedEdges(u) : global_dof_indx'[<<u, v>>] = global_dof_indx[<<u, v>>]
    BY <1>6, <2>2
  <2>4. /\ global_dof_indx[<<u, u>>] = FirstNumber(u)
        /\ \A v \in OwnedEdges(u) : global_dof_indx[<<u, v>>] = FirstNumber(u) + LocalIndex(<<u, v>>)
        /\ Phase(Locality[u]) = "scattered" =>
             OffsetInRank(u) + total_global_dof_offset[Locality[u]] = FirstNumber(u)
    BY <1>1, <2>1 DEF UnitNumbers
  <2>5. GpAt(u)' # "gp_exchange"
    BY <1>1
  <2>6. /\ global_dof_indx'[<<u, u>>] = FirstNumber(u)
        /\ \A v \in OwnedEdges(u) : global_dof_indx'[<<u, v>>] = FirstNumber(u) + LocalIndex(<<u, v>>)
    BY <2>3, <2>4
  <2>7. Phase(Locality[u])' = "scattered" =>
          OffsetInRank(u) + total_global_dof_offset'[Locality[u]] = FirstNumber(u)
    BY <1>3, <2>1, <2>4
  <2>8. \A v \in Neigh[u] : Owns(v, u) =>
          global_dof_indx'[<<u, v>>] = FirstNumber(v) + LocalIndex(<<v, u>>)
    BY <1>5
  <2> QED
    BY <2>5, <2>6, <2>7, <2>8 DEF UnitNumbers
<1>8. ASSUME NEW w \in Unit \ {u} PROVE UnitNumbers(w)'
  <2>1. UnitNumbers(w) /\ GpAt(w)' = GpAt(w) /\ Phase(Locality[w])' = Phase(Locality[w])
    BY <1>1, <1>2 DEF NInv, Ranks
  <2>2. /\ global_dof_indx'[<<w, w>>] = global_dof_indx[<<w, w>>]
        /\ \A v \in Neigh[w] : global_dof_indx'[<<w, v>>] = global_dof_indx[<<w, v>>]
    BY <1>6
  <2>3. \A v \in OwnedEdges(w) : v \in Neigh[w]
    BY EdgeTypes
  <2> QED
    BY <1>3, <2>1, <2>2, <2>3 DEF UnitNumbers
<1>9. global_dof_indx' \in [Edges -> Int]
  <2> SUFFICES ASSUME NEW e \in Edges PROVE global_dof_indx'[e] \in Int
    BY <1>3
  <2>1. CASE e[1] = u /\ e[2] # u /\ Owns(e[2], u)
    <3>1. e \in RankBoundaries
      BY <2>1 DEF Edges
    <3>2. <<e[2], u>> \in Edges
      BY <2>1, <3>1, NeighAssumption DEF Edges, RankBoundaries
    <3> QED
      BY <1>3, <2>1, <3>2 DEF NInv
  <2>2. CASE ~(e[1] = u /\ e[2] # u /\ Owns(e[2], u))
    BY <1>3, <2>2 DEF NInv
  <2> QED
    BY <2>1, <2>2
<1> QED
  BY <1>3, <1>4, <1>7, <1>8, <1>9 DEF NInv

(* Every step keeps the invariant of the numbers.                          *)
LEMMA NextNInv == IInv /\ CInv /\ NInv /\ [Next]_vars => NInv'
<1> SUFFICES ASSUME IInv, CInv, NInv, [Next]_vars PROVE NInv'
  OBVIOUS
<1> DEFINE Placed == \A u \in Unit : \/ GpAt(u)' = GpAt(u)
                                     \/ GpAt(u) = "gp_wait_sends" /\ GpAt(u)' = "numbered_barrier"
<1>1. Places
  BY DEF CInv
<1>2. CASE UNCHANGED vars
  <2>1. UNCHANGED <<loop, su_id, numberVars>>
    BY <1>2 DEF vars, threadVars
  <2>2. (\A u \in Unit : GpAt(u)' = GpAt(u)) /\ \A l \in Ranks : Phase(l)' = Phase(l)
    BY <2>1, MasterStays DEF Phase
  <2> QED
    BY <2>1, <2>2, NumbersKept
<1>3. CASE Next /\ \E th \in Threads : Gather(th) \/ Scatter(th)
  BY <1>3, GatherNumbers, ScatterNumbers
<1>4. CASE Next /\ ~(\E th \in Threads : Gather(th) \/ Scatter(th)) /\ ~UNCHANGED vars
  <2>1. \A l \in Ranks : ~Gather(<<l, 0>>) /\ ~Scatter(<<l, 0>>)
    BY <1>4, RankHasMaster
  <2>2. \A l \in Ranks : Phase(l)' = Phase(l)
    BY <1>4, <2>1, PhaseKept
  <2>3. ASSUME UNCHANGED numberVars, Placed PROVE NInv'
    BY <2>2, <2>3, NumbersKept
  <2>4. ASSUME NEW th \in Threads, NEW u \in Unit, NEW at \in UnitLoops, Body(th, u, at) PROVE Placed
    BY <1>1, <2>4, UnitMoveGp
  <2>5. Stay => Placed
    BY DEF Stay
  <2> HIDE DEF Placed
  <2> USE DEF UnitLoops
  <2>6. ASSUME NEW th \in Threads, NEW u \in Unit,
               PreExchange(th, u) \/ PrePostReceive(th, u) \/ PreWaitSends(th, u)
        PROVE  NInv'
    <3>1. \E at \in UnitLoops : Body(th, u, at)
      BY <2>6 DEF PreExchange, PrePostReceive, PreWaitSends
    <3>2. UNCHANGED numberVars
      BY <2>6 DEF PreExchange, PrePostReceive, PreWaitSends
    <3> QED
      BY <2>3, <2>4, <3>1, <3>2
  <2>7. ASSUME NEW th \in Threads, NEW u \in Unit,
               \/ \E at \in {"launch", "init_iteration", "local", "sl_work", "output"} : Local(th, u, at)
               \/ Condense(th, u) \/ Update(th, u) \/ Advance(th, u) \/ SlExchange(th, u)
               \/ SlReceive(th, u) \/ SlWaitSends(th, u) \/ Scrutinize(th, u)
        PROVE  NInv'
    <3>1. \E at \in UnitLoops : Body(th, u, at)
      BY <2>7 DEF Local, Condense, Update, Advance, SlExchange, SlReceive, SlWaitSends, Scrutinize
    <3>2. UNCHANGED numberVars
      BY <2>7 DEF Local, Condense, Update, Advance, SlExchange, SlReceive, SlWaitSends, Scrutinize
    <3> QED
      BY <2>3, <2>4, <3>1, <3>2
  <2>8. ASSUME NEW th \in Threads, NEW u \in Unit, GpExchange(th, u) \/ GpPostReceive(th, u) PROVE NInv'
    BY <1>4, <2>1, <2>8, GpExchangeNumbers, GpPostReceiveNumbers
  <2>9. ASSUME NEW th \in Threads, NEW u \in Unit, GpWaitSends(th, u) PROVE NInv'
    <3>1. Body(th, u, "gp_wait_sends") /\ "gp_wait_sends" \in GpLoops
      BY <2>9 DEF GpWaitSends, GpLoops
    <3>2. loop[th] = "gp_wait_sends" /\ Successor(th) = "numbered_barrier"
      BY <3>1 DEF Body, Successor
    <3>3. Placed
      BY <1>1, <3>1, <3>2, MasterMove DEF Placed
    <3> QED
      BY <2>3, <2>9, <3>3 DEF GpWaitSends
  <2>10. ASSUME NEW th \in Threads, NEW u \in Unit, Assemble(th, u) PROVE NInv'
    <3>1. Stay
      BY <1>1, <2>10, AssembleStays DEF Assemble
    <3> QED
      BY <2>3, <2>5, <2>10, <3>1 DEF Assemble
  <2>11. ASSUME NEW th \in Threads, Skip(th) PROVE NInv'
    BY <1>1, <2>3, <2>5, <2>11, SkipStays DEF Skip
  <2>12. ASSUME NEW th \in Threads, Decide(th) PROVE NInv'
    <3>1. /\ UNCHANGED <<step, numberVars>>
          /\ loop[th] = "decide" /\ (GoOn(th, "advance") \/ GoOn(th, "local"))
      BY <2>12 DEF Decide
    <3>2. Stay
      BY <1>1, <3>1, GoOnStays
    <3> QED
      BY <2>3, <2>5, <3>1, <3>2
  <2>13. ASSUME NEW l \in Ranks, Barrier(l) PROVE NInv'
    BY <1>1, <2>3, <2>5, <2>13, BarrierStays DEF Barrier
  <2>14. ASSUME Solve PROVE NInv'
    BY <1>1, <2>3, <2>5, <2>14, SolveStays DEF Solve, SolveWith
  <2>15. ASSUME Mpi PROVE NInv'
    <3>1. UNCHANGED <<loop, su_id, numberVars>>
      BY <2>15 DEF Mpi, threadVars
    <3>2. Placed
      BY <3>1, MasterStays DEF Placed
    <3> QED
      BY <2>3, <3>1, <3>2
  <2>16. ASSUME NEW th \in Threads, ThreadStep(th) PROVE NInv'
    BY <1>4, <2>6, <2>7, <2>8, <2>9, <2>10, <2>11, <2>12, <2>16 DEF ThreadStep
  <2> QED
    BY <1>4, <2>13, <2>14, <2>15, <2>16 DEF Next, Progress, Terminated
<1> QED
  BY <1>2, <1>3, <1>4

LEMMA InitNInv == Init => NInv
<1> SUFFICES ASSUME Init PROVE NInv
  OBVIOUS
<1>1. \A l \in Ranks : Phase(l) = "unnumbered"
  BY RankHasMaster DEF Init, Phase, Unnumbered, Exchanging
<1>2. ASSUME NEW u \in Unit PROVE GpAt(u) = "gp_exchange" /\ Phase(Locality[u]) = "unnumbered"
  BY <1>1, RunnerRuns DEF Init, GpAt, Exchanging, Ranks
<1>3. \A u \in Unit : UnitNumbers(u)
  BY <1>2 DEF UnitNumbers
<1> QED
  BY <1>1, <1>3 DEF NInv, Scans, Init

(* The numbers of the edges are 0 .. N - 1, each used once and known alike *)
(* on both sides of a distributed edge, although every rank numbers its    *)
(* own edges only, rank 0 adds up what it gathers, and a message brings    *)
(* the numbers of the edges a neighbour owns.                              *)
THEOREM EdgesNumbered ==
  ASSUME FewSubmeshes
  PROVE  Spec => []NumberingCorrect
<1>1. IInv /\ CInv /\ NInv => NumberingCorrect
  <2> SUFFICES ASSUME IInv, NInv, \A th \in Threads : loop[th] \in Numbered
               PROVE  Numbering(global_dof_indx)
    BY DEF NumberingCorrect
  <2>1. ASSUME NEW u \in Unit PROVE GpAt(u) = "numbered_barrier" /\ UnitNumbers(u)
    <3>1. <<Locality[u], 0>> \in Threads
      BY RunnerRuns
    <3>2. loop[<<Locality[u], 0>>] \in Numbered
      BY <3>1
    <3>3. \A x \in Numbered : x \notin Exchanging \cup {"gather", "scatter"} /\ x \notin GpLoops
      BY DEF Numbered, Stepping, Exchanging, GpLoops
    <3> QED
      BY <3>2, <3>3 DEF GpAt, NInv
  <2>2. \A u \in Unit : /\ global_dof_indx[<<u, u>>] = FirstNumber(u)
                        /\ \A v \in OwnedEdges(u) :
                             global_dof_indx[<<u, v>>] = FirstNumber(u) + LocalIndex(<<u, v>>)
                        /\ \A v \in Neigh[u] : Owns(v, u) =>
                             global_dof_indx[<<u, v>>] = FirstNumber(v) + LocalIndex(<<v, u>>)
    BY <2>1 DEF UnitNumbers
  <2>3. ASSUME NEW e \in RankBoundaries, Owns(e[2], e[1])
        PROVE  global_dof_indx[e] = global_dof_indx[<<e[2], e[1]>>]
    <3>1. /\ e = <<e[1], e[2]>> /\ e[1] \in Unit /\ e[2] \in Neigh[e[1]]
          /\ e[2] \in Unit /\ e[1] \in OwnedEdges(e[2])
      BY <2>3, NeighAssumption DEF RankBoundaries, OwnedEdges
    <3> QED
      BY <2>2, <2>3, <3>1
  <2> QED
    BY <2>2, <2>3, NumberingFromOffsets
<1>2. Init => IInv /\ CInv /\ NInv
  BY InitIInv, InitCInv, InitNInv
<1>3. IInv /\ CInv /\ NInv /\ [Next]_vars => IInv' /\ CInv' /\ NInv'
  BY NextIInv, NextCInv, NextNInv
<1> QED
  BY <1>1, <1>2, <1>3, PTL DEF Spec
=============================================================================
