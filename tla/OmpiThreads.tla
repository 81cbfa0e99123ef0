------------------------------ MODULE OmpiThreads ------------------------------
(***************************************************************************)
(* How OMPISimulation::Run divides the submeshes of a rank among the       *)
(* OpenMP threads of the parallel region.                                  *)
(***************************************************************************)
EXTENDS OmpiCommunicator

CONSTANT NumThreads   \* NumThreads[l]: OpenMP threads of rank l

(* The submeshes of a rank are numbered 0, 1, ... as their files are found.*)
ASSUME OmpiThreadsAssumption ==
  /\ \A u \in Unit : NumThreads[Locality[u]] \in Nat \ {0}
  /\ \A u, v \in Unit :
       Locality[u] = Locality[v] /\ SubmeshId[u] = SubmeshId[v] => u = v
  /\ \A u \in Unit :
       SubmeshId[u] < Cardinality({v \in Unit : Locality[v] = Locality[u]})

Ranks == {Locality[u] : u \in Unit}

NumUnits(l) == Cardinality({u \in Unit : Locality[u] = l})

(* Thread t of a rank runs the submeshes from sim_per_thread * t up to     *)
(* (excluding) sim_per_thread * (t + 1), or to the last one.               *)
SimPerThread(l) == (NumUnits(l) + NumThreads[l] - 1) \div NumThreads[l]
BeginSimId(l, t) == SimPerThread(l) * t
EndSimId(l, t) == IF SimPerThread(l) * (t + 1) < NumUnits(l)
                  THEN SimPerThread(l) * (t + 1) ELSE NumUnits(l)
ThreadRuns(l, t, u) ==
  /\ Locality[u] = l
  /\ BeginSimId(l, t) <= SubmeshId[u] /\ SubmeshId[u] < EndSimId(l, t)
=============================================================================
