---------------------------- MODULE MCHdgKernels ----------------------------
(* A chain of three elements A, B and C: an interface between A and B, a   *)
(* wall at B, an interface between B and C, or the border of two submeshes,*)
(* and an open boundary at C.                                              *)
EXTENDS HdgKernels, TLC

(* Numbers without a pattern, for the i-th datum of sample seed.           *)
Draw(seed, i) ==
  LET x == (seed * 7919 + i * 4729 + 31) % 10007
  IN  (((x * x + 3 * x) % 10007) * 13 + x) % M
Draw3(seed, i) == <<Draw(seed, i), Draw(seed, i + 1), Draw(seed, i + 2)>>
Unit(seed, i) ==
  LET x == Draw(seed, i)
      by == (1 + x * x) % M
  IN  <<Div(1 - x * x, by), Div(2 * x, by)>>
NonZero(x) == IF IsZero(x) THEN 1 ELSE x
Positive(x) == LET y == NonZero(x) IN (y * y) % M
Reversed(seq) == [i \in 1 .. NGP |-> seq[NGP - i + 1]]

NumDofs == 4
Chain == <<<<1, 2>>, <<2>>, <<2, 3>>, <<3>>>>

(* An edge whose depth is a square at the values base of the trace.        *)
EdgeOf(seed, dof, kind, base) ==
  LET i == 100 * dof
      lambda == <<1, NonZero(Draw(seed, i))>>
  IN  [kind |-> kind, elts |-> Chain[dof], dof |-> dof, lambda |-> lambda,
       weight |-> <<NonZero(Draw(seed, i + 1)), NonZero(Draw(seed, i + 2))>>,
       normal |-> Unit(seed, i + 3),
       bath |-> [gp \in Gps |-> (Positive(Draw(seed, i + 4 + gp)) - lambda[gp] * base[ze]) % M]]

(* What the sea has at this stage and at the next is not the same.         *)
WithInflow(edge_, inflow, inflow_next) == [q_inf |-> inflow, q_inf_next |-> inflow_next] @@ edge_

(* The two edges of a border: what one counts forward, the other counts    *)
(* in reverse, and their normals are opposite.                             *)
Half1(e) == [e EXCEPT !.kind = "distributed", !.elts = <<e.elts[1]>>]
Half2(e) ==
  [e EXCEPT !.kind = "distributed", !.elts = <<e.elts[2]>>, !.lambda = Reversed(@), !.weight = Reversed(@),
            !.normal = <<-@[1], -@[2]>>, !.bath = Reversed(@)]

EltOf(seed, k, scale, q) ==
  [area |-> NonZero(Draw(seed, 10 * k)), dphi |-> <<Draw(seed, 10 * k + 1), Draw(seed, 10 * k + 2)>>,
   bath |-> NonZero(Draw(seed, 10 * k + 3)) - q[ze], dbath |-> <<Draw(seed, 10 * k + 4), Draw(seed, 10 * k + 5)>>,
   source |-> Times(scale, Draw3(seed, 600 + 10 * k)),
   source_next |-> Times(scale, Draw3(seed, 605 + 10 * k))]

MeshOf(program, seed, split, open, order, scale, q, q_hat, inflow(_, _, _)) ==
  LET plain(dof, kind) == EdgeOf(seed, dof, kind, q_hat[dof])
      full(dof, kind) == LET e == plain(dof, kind)
                         IN  WithInflow(e, [gp \in Gps |-> inflow(dof, e.lambda[gp], 800)],
                                           [gp \in Gps |-> inflow(dof, e.lambda[gp], 850)])
      border == full(3, "internal")
  IN  [program |-> program, order |-> order, dt |-> NonZero(Draw(seed, 7)),
       elts |-> [k \in 1 .. 3 |-> EltOf(seed, k, scale, q[k])],
       edges |-> <<full(1, "internal"), full(2, "land")>>
                   \o (IF split THEN <<Half1(border), Half2(border)>> ELSE <<border>>)
                   \o <<full(4, open)>>]

(* Any values at all.                                                      *)
AnyState(program, seed, split, open, order) ==
  LET q == [k \in 1 .. 3 |-> Draw3(seed, 750 + 10 * k)]
      q_hat == [dof \in 1 .. NumDofs |-> Draw3(seed, 700 + 10 * dof)]
      inflow(dof, lambda, i) == Draw3(seed, i + lambda)
  IN  [at |-> "init", mesh |-> MeshOf(program, seed, split, open, order, 1, q, q_hat, inflow), q |-> q, q_hat |-> q_hat]

(* All values within an infinitesimal of one and the same.                 *)
NearUniform(program, seed, split, open, order, base) ==
  LET near(i) == Plus(base, Times(P, Draw3(seed, i)))
      q == [k \in 1 .. 3 |-> near(750 + 10 * k)]
      q_hat == [dof \in 1 .. NumDofs |-> near(700 + 10 * dof)]
      inflow(dof, lambda, i) == Times(lambda, near(i))
  IN  [at |-> "init", mesh |-> MeshOf(program, seed, split, open, order, P, q, q_hat, inflow), q |-> q, q_hat |-> q_hat]

Rest == O3
FromStart(input) == [input EXCEPT !.at = "start"]

MCInputs ==
  {AnyState("ihdg", seed, split, open, order) :
     seed \in 1 .. 6, split \in BOOLEAN, open \in {"function", "outflow"}, order \in {1, 2}}
  \cup {NearUniform("ihdg", seed, split, "land", order, Rest) :
     seed \in 1 .. 2, split \in BOOLEAN, order \in {1, 2}}
  \cup {FromStart(NearUniform("ihdg", seed, split, "land", 1, Rest)) : seed \in 3 .. 4, split \in BOOLEAN}
  \cup {AnyState("ehdg", seed, split, open, 1) :
     seed \in 7 .. 9, split \in BOOLEAN, open \in {"function", "outflow"}}
  \cup {NearUniform("ehdg", seed, split, open, 1, Draw3(seed, 950)) :
     seed \in 1 .. 4, split \in BOOLEAN, open \in {"function", "outflow"}}
=============================================================================
