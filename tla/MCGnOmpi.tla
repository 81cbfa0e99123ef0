------------------------------- MODULE MCGnOmpi -------------------------------
(* Instances of GnOmpi for TLC.                                            *)
EXTENDS GnOmpi, TLC

CONSTANTS a, b, c   \* submeshes

(* A chain: rank 0 owns a and b, rank 1 owns c.                            *)
Chain == {a, b, c}
ChainNeigh == (a :> {b}) @@ (b :> {a, c}) @@ (c :> {b})
ChainLocality == (a :> 0) @@ (b :> 0) @@ (c :> 1)
ChainSubmeshId == (a :> 0) @@ (b :> 1) @@ (c :> 0)
ChainInner == (a :> 2) @@ (b :> 1) @@ (c :> 3)

GnCommTypes == {"baryctr_coord", "init_global_prob", "bound_state", "baryctr_state",
                "dc_global_dof_indx", "dbath", "derivatives"}

(* Rank 0 has one thread per submesh, rank 1 one too many.                *)
TwoThreads == (0 :> 2) @@ (1 :> 2)
=============================================================================
