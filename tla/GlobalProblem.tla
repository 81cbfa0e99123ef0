----------------------------- MODULE GlobalProblem -----------------------------
(***************************************************************************)
(* What the implicit (IHDG) solver promises, however its submeshes are     *)
(* spread over ranks and threads.                                          *)
(*                                                                         *)
(* A time step is a Newton iteration.  In every iterate each submesh       *)
(* contributes the condensed system of its elements, one linear system is  *)
(* solved for the whole mesh, and each submesh applies the increment that  *)
(* was solved for.  The promise is that every system is made of the        *)
(* contributions of all submeshes to the same iterate, that every submesh  *)
(* applies every increment once, and that all agree when a step ends.      *)
(*                                                                         *)
(* IhdgOmpi is shown to implement this module.                             *)
(***************************************************************************)
EXTENDS NewtonIterates

CONSTANT Unit   \* the submeshes

VARIABLES
  contributed,  \* contributed[u]: the iterate of u's last contribution
  solved,       \* the iterate last solved
  converged,    \* the increment of that iterate was small
  applied       \* applied[u]: the iterate whose increment u last applied

vars == <<contributed, solved, converged, applied>>

-----------------------------------------------------------------------------
(* A step ends when an increment is small or its iterates are used up.     *)
After(it, conv) ==
  IF conv \/ it.iter = MaxIter THEN [step |-> it.step + 1, iter |-> 1]
                               ELSE [it EXCEPT !.iter = @ + 1]

(* Before the first step stands a converged iterate of a step 0.           *)
Init ==
  /\ solved = [step |-> 0, iter |-> 1]
  /\ converged = TRUE
  /\ contributed = [u \in Unit |-> solved]
  /\ applied = [u \in Unit |-> solved]

(* u contributes to the next system, having applied the last increment.    *)
Contribute(u) ==
  /\ contributed[u] = solved /\ applied[u] = solved
  /\ contributed' = [contributed EXCEPT ![u] = After(solved, converged)]
  /\ UNCHANGED <<solved, converged, applied>>

Solve ==
  /\ \A u \in Unit : contributed[u] = After(solved, converged)
  /\ solved' = After(solved, converged)
  /\ converged' \in BOOLEAN
  /\ UNCHANGED <<contributed, applied>>

Apply(u) ==
  /\ contributed[u] = solved /\ applied[u] # solved
  /\ applied' = [applied EXCEPT ![u] = solved]
  /\ UNCHANGED <<contributed, solved, converged>>

Next == Solve \/ \E u \in Unit : Contribute(u) \/ Apply(u)

Spec == Init /\ [][Next]_vars

-----------------------------------------------------------------------------
TypeOK ==
  /\ contributed \in [Unit -> Iterates]
  /\ applied \in [Unit -> Iterates]
  /\ solved \in Iterates
  /\ converged \in BOOLEAN

(* Where a submesh stands: the increment last solved is not yet applied,   *)
(* or it is, and the submesh may have contributed to the next system.      *)
Inv ==
  /\ TypeOK
  /\ \A u \in Unit :
       \/ contributed[u] = solved
       \/ contributed[u] = After(solved, converged) /\ applied[u] = solved

(* No submesh runs ahead of another: two submeshes that both contributed   *)
(* to a system not yet solved contributed to the same one, of one step.    *)
OneSystem ==
  \A u, v \in Unit :
    contributed[u] # solved /\ contributed[v] # solved => contributed[u] = contributed[v]

(* A new system replaces the old one only when all have applied the old    *)
(* increment: no increment is lost on a submesh.                           *)
NoIncrementLost ==
  [][solved' # solved => \A u \in Unit : applied[u] = solved]_vars
=============================================================================
