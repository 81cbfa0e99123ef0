------------------------------ MODULE MCIhdgOmpi ------------------------------
(* Instances of IhdgOmpi for TLC.                                          *)
EXTENDS IhdgOmpi, TLC

CONSTANTS a, b, c   \* submeshes

(* A triangle: rank 0 owns a and b, rank 1 owns c.                         *)
Triangle == {a, b, c}
TriangleNeigh == (a :> {b, c}) @@ (b :> {a, c}) @@ (c :> {a, b})

(* A chain with the same ranks.                                            *)
ChainNeigh == (a :> {b}) @@ (b :> {a, c}) @@ (c :> {b})

TriangleLocality == (a :> 0) @@ (b :> 0) @@ (c :> 1)
TriangleSubmeshId == (a :> 0) @@ (b :> 1) @@ (c :> 0)
TriangleInner == (a :> 2) @@ (b :> 1) @@ (c :> 3)

IhdgCommTypes == {"baryctr_coord", "init_global_prob", "baryctr_state"}

(* Each rank has one thread, or two; the second of rank 1 is idle.         *)
OneThread == (0 :> 1) @@ (1 :> 1)
TwoThreads == (0 :> 2) @@ (1 :> 2)
=============================================================================
