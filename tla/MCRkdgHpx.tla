------------------------------- MODULE MCRkdgHpx -------------------------------
(* Instances of RkdgHpx for TLC.                                           *)
EXTENDS RkdgHpx, TLC

CONSTANTS a, b, c   \* submeshes

Three == {a, b, c}
ChainNeigh == (a :> {b}) @@ (b :> {a, c}) @@ (c :> {b})
TriangleNeigh == (a :> {b, c}) @@ (b :> {a, c}) @@ (c :> {a, b})

(* a and b are neighbours; c is an island of its own.                      *)
IslandNeigh == (a :> {b}) @@ (b :> {a}) @@ (c :> {})

RkdgCommTypes == {"baryctr_coord", "bound_state", "baryctr_state"}
RkdgCommIndex == ("baryctr_coord" :> 0) @@ ("bound_state" :> 1) @@ ("baryctr_state" :> 2)
=============================================================================
