--------------------------- MODULE NewtonIterates ---------------------------
(* The iterates of the implicit solver: Newton iteration iter of time step *)
(* step, both counted from 1.                                              *)
EXTENDS Integers

CONSTANT MaxIter   \* iterates of a step without convergence (100 in the code)

ASSUME MaxIterAssumption == MaxIter \in Nat \ {0}

Iterates == [step : Nat, iter : 1 .. MaxIter]
=============================================================================
