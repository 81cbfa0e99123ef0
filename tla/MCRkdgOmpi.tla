------------------------------ MODULE MCRkdgOmpi ------------------------------
(* Instances of RkdgOmpi for TLC.                                          *)
EXTENDS RkdgOmpi, TLC

CONSTANTS a, b, c   \* submeshes

(* A chain a - b - c: rank 0 owns a and b, rank 1 owns c.                  *)
Chain == {a, b, c}
ChainNeigh == (a :> {b}) @@ (b :> {a, c}) @@ (c :> {b})

(* A triangle with the same ranks.                                         *)
TriangleNeigh == (a :> {b, c}) @@ (b :> {a, c}) @@ (c :> {a, b})

ChainLocality == (a :> 0) @@ (b :> 0) @@ (c :> 1)
ChainSubmeshId == (a :> 0) @@ (b :> 1) @@ (c :> 0)

RkdgCommTypes == {"baryctr_coord", "bound_state", "baryctr_state"}

OneThread == (0 :> 1) @@ (1 :> 1)
TwoThreads == (0 :> 2) @@ (1 :> 2)
=============================================================================
