------------------------------ MODULE HdgKernels ------------------------------
(* One stage of the hybridized discretizations of the shallow water        *)
(* equations, from the values of the solution to the next ones:            *)
(*   IHDG: Newton's method for elements and traces at once, with the       *)
(*         elements condensed out of the system that is solved;            *)
(*   EHDG: Newton's method on every edge alone, then an explicit update.   *)
(*                                                                         *)
(* Numbers are residues (module Residues).  An element has one basis       *)
(* function and one quadrature point inside, an edge one basis function,   *)
(* the trace of those of its elements, and NGP quadrature points, which the*)
(* EX side counts in reverse.  Weights, normals, depths and values are     *)
(* arbitrary.  All threads are here one after the other: IhdgOmpi has their*)
(* interleavings.                                                          *)
EXTENDS ShallowWater

CONSTANTS
  Inputs,         \* meshes with their data, settings and first values
  NGP,            \* quadrature points of an edge
  MaxIterations   \* bound on the iterations of a Newton loop; 100 in the code

ASSUME InputAssumption == NGP \in Nat \ {0} /\ MaxIterations \in Nat \ {0}

VARIABLES
  at,             \* the next part of the stage
  mesh,           \* geometry, data and settings, constant
  iter,           \* iterations of the Newton loop; of a trace alone: one per edge,
                  \* more than MaxIterations if it was broken out of
  elt,            \* per element: state and internal data
  side,           \* per side of an edge: data of the boundary of its element
  edge,           \* per edge: the trace and its data
  global          \* the system of the global problem and its solution

vars == <<at, mesh, iter, elt, side, edge, global>>

Gps == 1 .. NGP
Elements == DOMAIN mesh.elts
Edges == DOMAIN mesh.edges

(* Sides of edges: In is 1, Ex is 2 and only of an interface.              *)
In == 1
Ex == 2
Sides == {s \in Edges \X {In, Ex} : s[2] \in DOMAIN mesh.edges[s[1]].elts}
SidesOf(e) == {s \in Sides : s[1] = e}
Elt(s) == mesh.edges[s[1]].elts[s[2]]
Dofs == {mesh.edges[e].dof : e \in Edges}

theta == IF mesh.order = 2 THEN half ELSE 0
implicit == (1 - theta) % M

(* gp_ex: the EX side counts the points of an edge in reverse.             *)
GpEx(gp) == NGP - gp + 1
GpOf(s, i) == IF s[2] = In THEN i ELSE GpEx(i)

AtGps(f) == Evaluated([gp \in Gps |-> f[gp]])

(* Integrals over an edge of values at the points of side s.               *)
Weight(e, gp) == mesh.edges[e].weight[gp] * mesh.edges[e].lambda[gp]
IntegrationPhi(s, F) == SumVec([i \in Gps |-> Times(Weight(s[1], GpOf(s, i)), F[i])], Gps)
IntegrationPhiLambda(s, F) ==
  SumMat([i \in Gps |-> LET gp == GpOf(s, i)
                        IN  MTimes((Weight(s[1], gp) * mesh.edges[s[1]].lambda[gp]) % M, F[i])], Gps)

-----------------------------------------------------------------------------
(* The trace and the water at the points of an edge.                       *)
q_hat_at_gp(e, gp) == Times(mesh.edges[e].lambda[gp], edge[e].q_hat)
WaterAt(e, gp) == Water(q_hat_at_gp(e, gp), mesh.edges[e].bath[gp], mesh.edges[e].normal)

(* Where the depth is not positive, sqrt(g * h) or a division has no value.*)
Defined ==
  /\ \A k \in Elements : ~IsZero(elt[k].q[ze] + mesh.elts[k].bath)
  /\ \A e \in Edges, gp \in Gps : IsPositive(q_hat_at_gp(e, gp)[ze] + mesh.edges[e].bath[gp])

(* The volume integral of the fluxes, and of the hydrostatic and the       *)
(* prescribed source, of values q.                                         *)
ElementWater(k, q) == Water(q, mesh.elts[k].bath, <<0, 0>>)
VolumeIntegral(k, q) ==
  LET w == ElementWater(k, q)
      data == mesh.elts[k]
  IN  Plus(Times(data.dphi[1], Fx(q, w, data.bath)), Times(data.dphi[2], Fy(q, w, data.bath)))
SourceIntegral(k, q, source) ==
  LET data == mesh.elts[k]
  IN  Times(data.area, Plus(source, Vec(<<0, g * data.dbath[1] * q[ze], g * data.dbath[2] * q[ze]>>)))

(* q_at_gp of a side.                                                      *)
Trace(s, q) == AtGps([i \in Gps |-> Times(mesh.edges[s[1]].lambda[GpOf(s, i)], q)])

-----------------------------------------------------------------------------
(* IHDG.  The flux on side s at its point i: the normal flux of the trace, *)
(* with the sign of the side, and the stabilisation.                       *)
F_hat_at(s, i, q_at_gp) ==
  LET gp == GpOf(s, i)
      w == WaterAt(s[1], gp)
      Fn_in == Fn(q_hat_at_gp(s[1], gp), w, mesh.edges[s[1]].bath[gp])
  IN  Plus(IF s[2] = In THEN Fn_in ELSE Times(-1, Fn_in),
           Times(tau(w), Minus(q_at_gp[i], q_hat_at_gp(s[1], gp))))

(* Mutant: the stabilisation is differentiated as if tau were constant.    *)
dF_hat_dq_hat_at_FrozenTau(s, i, q_at_gp) ==
  LET w == WaterAt(s[1], GpOf(s, i))
      dFn == dFn_dq(w)
  IN  MMinus(IF s[2] = In THEN dFn ELSE MTimes(-1, dFn), MTimes(tau(w), Identity))

dF_hat_dq_hat_at(s, i, q_at_gp) ==
  LET gp == GpOf(s, i)
      w == WaterAt(s[1], gp)
      dFn == dFn_dq(w)
      del_q == Minus(q_at_gp[i], q_hat_at_gp(s[1], gp))
  IN  MPlus(IF s[2] = In THEN dFn ELSE MTimes(-1, dFn),
            MMinus(dtau_delq(w, del_q), MTimes(tau(w), Identity)))

(* init_*_kernel: the explicit part of the second order scheme.            *)
rhs_prev(k) ==
  IF mesh.order = 1 THEN O3
  ELSE LET q == elt[k].q_prev
           out(s) == LET trace == Trace(s, q)
                     IN  IntegrationPhi(s, [i \in Gps |-> F_hat_at(s, i, trace)])
           mine == {s \in Sides : Elt(s) = k}
       IN  Minus(Plus(VolumeIntegral(k, q), SourceIntegral(k, q, mesh.elts[k].source)),
                 SumVec([s \in mine |-> out(s)], mine))

InitIteration ==
  /\ at = "init" /\ mesh.program = "ihdg" /\ Defined
  /\ elt' = [k \in Elements |-> [elt[k] EXCEPT !.q = elt[k].q_prev, !.rhs_prev = rhs_prev(k)]]
  /\ iter' = 0
  /\ at' = "local"
  /\ UNCHANGED <<mesh, side, edge, global>>

(* local_volume_kernel and local_source_kernel; the local_*_kernels of the *)
(* sides.  The source goes to the right hand side only.                    *)
LocalElements ==
  /\ at = "local" /\ Defined
  /\ elt' = [k \in Elements |->
       LET data == mesh.elts[k]
           e == elt[k]
           w == ElementWater(k, e.q)
           by_dt == Div(data.area, mesh.dt)
           explicit == Plus(VolumeIntegral(k, e.q), SourceIntegral(k, e.q, data.source_next))
       IN  [e EXCEPT
              !.delta_local = MMinus(MTimes(by_dt, Identity),
                                     MTimes(implicit, MPlus(MTimes(data.dphi[1], dFx_dq(w)),
                                                            MTimes(data.dphi[2], dFy_dq(w))))),
              !.rhs_local = Plus(Plus(Times(-by_dt, Minus(e.q, e.q_prev)), Times(implicit, explicit)),
                                 Times(theta, e.rhs_prev))]]
  /\ side' = [s \in Sides |-> [side[s] EXCEPT !.q_at_gp = Trace(s, elt[Elt(s)].q)]]
  /\ iter' = iter + 1
  /\ at' = "edges"
  /\ UNCHANGED <<mesh, edge, global>>

(* local_edge_*_kernel: fluxes and their derivatives, into the elements.   *)
LocalEdges ==
  /\ at = "edges"
  /\ side' = [s \in Sides |->
       LET kernels(f) == AtGps([i \in Gps |-> f[i]])
           q_at_gp == side[s].q_at_gp
           dF_hat_dq == kernels([i \in Gps |-> MTimes(tau(WaterAt(s[1], GpOf(s, i))), Identity)])
           dF_hat_dq_hat == kernels([i \in Gps |-> dF_hat_dq_hat_at(s, i, q_at_gp)])
       IN  [side[s] EXCEPT !.F_hat = kernels([i \in Gps |-> F_hat_at(s, i, q_at_gp)]),
                           !.dF_hat_dq = dF_hat_dq,
                           !.dF_hat_dq_hat = dF_hat_dq_hat,
                           !.delta_hat_local = MTimes(implicit, IntegrationPhiLambda(s, dF_hat_dq_hat))]]
  /\ elt' = [k \in Elements |->
       LET mine == {s \in Sides : Elt(s) = k}
           dF == SumMat([s \in mine |-> IntegrationPhiLambda(s, side'[s].dF_hat_dq)], mine)
           F == SumVec([s \in mine |-> IntegrationPhi(s, side'[s].F_hat)], mine)
       IN  [elt[k] EXCEPT !.delta_local = MPlus(@, MTimes(implicit, dF)),
                          !.rhs_local = Minus(@, Times(implicit, F))]]
  /\ at' = "global"
  /\ UNCHANGED <<mesh, iter, edge, global>>

-----------------------------------------------------------------------------
(* The condition on the trace of a boundary at a point, with its           *)
(* derivatives by the state in (d) and by the trace (d_hat).               *)
LandKernel(n, q, q_hat) ==
  LET qn == q[qx] * n[1] + q[qy] * n[2]
      nn == <<<<0, 0, 0>>, <<0, n[1] * n[1], n[1] * n[2]>>, <<0, n[1] * n[2], n[2] * n[2]>>>>
  IN  [rhs |-> Plus(Minus(q_hat, q), Vec(<<0, qn * n[1], qn * n[2]>>)),
       d |-> MPlus(MTimes(-1, Identity), nn),
       d_hat |-> Identity]

(* What leaves is taken from q, what enters from q_inf.                    *)
OpenKernel(w, q, q_hat, q_inf) ==
  LET dq == Minus(q, q_hat)
      dq_inf == Minus(q_inf, q_hat)
      dB(d) == Minus(Apply(dAplus(w, d), dq), Apply(dAminus(w, d), dq_inf))
  IN  [rhs |-> Minus(Apply(Aplus(w), dq), Apply(Aminus(w), dq_inf)),
       d |-> Aplus(w),
       d_hat |-> MPlus(MMinus(Aminus(w), Aplus(w)), FromColumns([d \in Variables |-> dB(d)]))]

(* Land, Function with what its function gives for q_inf, and Outflow, that*)
(* has its own state beyond.                                               *)
BoundaryKernel(e, gp, q_inf) ==
  LET q == side[<<e, In>>].q_at_gp[gp]
      beyond == IF mesh.edges[e].kind = "outflow" THEN q ELSE q_inf[gp]
  IN  IF mesh.edges[e].kind = "land" THEN LandKernel(mesh.edges[e].normal, q, q_hat_at_gp(e, gp))
      ELSE OpenKernel(WaterAt(e, gp), q, q_hat_at_gp(e, gp), beyond)

IsBoundary(e) == mesh.edges[e].kind \in {"land", "function", "outflow"}

(* Between elements the equation is that the fluxes add up to nothing, on  *)
(* either side of an interface to another submesh for the flux of its own. *)
FluxKernel(e, gp) ==
  LET s == SidesOf(e)
  IN  [rhs |-> SumVec([x \in s |-> side[x].F_hat[GpOf(x, gp)]], s),
       d_hat |-> SumMat([x \in s |-> side[x].dF_hat_dq_hat[GpOf(x, gp)]], s)]

(* global_edge_*_kernel: what is integrated, and its integrals.            *)
GlobalEdges ==
  /\ at = "global"
  /\ edge' = [e \in Edges |-> [edge[e] EXCEPT
       !.kernel = AtGps([gp \in Gps |-> IF IsBoundary(e) THEN BoundaryKernel(e, gp, mesh.edges[e].q_inf_next)
                                        ELSE FluxKernel(e, gp)])]]
  /\ at' = "integrate"
  /\ UNCHANGED <<mesh, iter, elt, side, global>>

IntegrationLambda(e) == IntegrationPhi(<<e, In>>, [gp \in Gps |-> edge[e].kernel[gp].rhs])
IntegrationLambdaLambda(e) == IntegrationPhiLambda(<<e, In>>, [gp \in Gps |-> edge[e].kernel[gp].d_hat])

IntegrateEdges ==
  /\ at = "integrate"
  /\ side' = [s \in Sides |-> [side[s] EXCEPT
       !.delta_global = IntegrationPhiLambda(s,
          [i \in Gps |-> IF IsBoundary(s[1]) THEN edge[s[1]].kernel[i].d ELSE side[s].dF_hat_dq[i]])]]
  /\ edge' = [e \in Edges |-> [edge[e] EXCEPT !.delta_hat_global = IntegrationLambdaLambda(e),
                                               !.rhs_global = Times(-1, IntegrationLambda(e))]]
  /\ at' = "condense"
  /\ UNCHANGED <<mesh, iter, elt, global>>

-----------------------------------------------------------------------------
(* The elements are eliminated: every edge gets terms with its own trace   *)
(* and, of each of its elements, with the traces of the other sides.       *)
Condensed(s) == Prod(side[s].delta_global, elt[Elt(s)].delta_local_inv)

Coupled(e) == {x \in SidesOf(e) \X Sides : Elt(x[2]) = Elt(x[1])}

(* The block of edge e and of the unknowns of dof: MatSetValues and        *)
(* add_triplet add what several edges say of the same entry.               *)
Block(e, dof) ==
  LET at_dof == {x \in Coupled(e) : mesh.edges[x[2][1]].dof = dof}
  IN  MMinus(IF mesh.edges[e].dof = dof THEN edge[e].delta_hat_global ELSE ZeroMatrix,
             SumMat([x \in at_dof |-> Prod(Condensed(x[1]), side[x[2]].delta_hat_local)], at_dof))

EdgeRhs(e) ==
  Minus(edge[e].rhs_global,
        SumVec([s \in SidesOf(e) |-> Apply(Condensed(s), elt[Elt(s)].rhs_local)], SidesOf(e)))

Invert ==
  /\ at = "condense" /\ \A k \in Elements : IsRegular(elt[k].delta_local)
  /\ elt' = [k \in Elements |-> [elt[k] EXCEPT !.delta_local_inv = MatInverse(elt[k].delta_local)]]
  /\ at' = "assemble"
  /\ UNCHANGED <<mesh, iter, side, edge, global>>

Assemble ==
  LET edgesOf(dof) == {e \in Edges : mesh.edges[e].dof = dof}
  IN  /\ at = "assemble"
      /\ global' = [A |-> [i \in Dofs |-> [j \in Dofs |->
                             SumMat([e \in edgesOf(i) |-> Block(e, j)], edgesOf(i))]],
                    b |-> [i \in Dofs |-> SumVec([e \in edgesOf(i) |-> EdgeRhs(e)], edgesOf(i))]]
      /\ at' = "solve"
      /\ UNCHANGED <<mesh, iter, elt, side, edge>>

Solution == Solve(global.A, global.b)

SolveGlobalProblem ==
  /\ at = "solve"
  /\ LET result == Solution
     IN  /\ ~result.failed
         /\ global' = [A |-> <<>>, b |-> result.b]
  /\ at' = "update"
  /\ UNCHANGED <<mesh, iter, elt, side, edge>>

(* The traces, then the elements from the traces around them.              *)
UpdateIterate ==
  /\ at = "update"
  /\ edge' = [e \in Edges |-> [edge[e] EXCEPT !.q_hat = Plus(@, global.b[mesh.edges[e].dof])]]
  /\ elt' = [k \in Elements |->
       LET mine == {s \in Sides : Elt(s) = k}
           known == SumVec([s \in mine |-> Apply(side[s].delta_hat_local,
                                                 global.b[mesh.edges[s[1]].dof])], mine)
           rhs_local == Apply(elt[k].delta_local_inv, Minus(elt[k].rhs_local, known))
       IN  [elt[k] EXCEPT !.rhs_local = rhs_local, !.q = Plus(@, rhs_local)]]
  /\ at' = "converged"
  /\ UNCHANGED <<mesh, iter, side, global>>

(* The norm of the increment is small: here, it is zero.  After the last   *)
(* iteration the stage ends either way, without a word.                    *)
Converged == \A dof \in Dofs : global.b[dof] = O3

NextIteration ==
  /\ at = "converged" /\ ~Converged /\ iter < MaxIterations
  /\ at' = "local"
  /\ UNCHANGED <<mesh, iter, elt, side, edge, global>>

(* ++stepper and the swap of the states.                                   *)
EndStage ==
  /\ at = "converged" /\ (Converged \/ iter = MaxIterations)
  /\ elt' = [k \in Elements |-> [elt[k] EXCEPT !.q_prev = elt[k].q, !.q = elt[k].q_prev]]
  /\ at' = "done"
  /\ UNCHANGED <<mesh, iter, side, edge, global>>

-----------------------------------------------------------------------------
(* The trace alone, from the elements: the flux of EHDG, and before its    *)
(* first step the trace of IHDG, which starts from zero.                   *)
(*                                                                         *)
(* global_*_kernel: the sides, which are also sent to the other submesh.   *)
InitTrace ==
  /\ at = "start"
  /\ side' = [s \in Sides |-> [side[s] EXCEPT !.q_at_gp = Trace(s, elt[Elt(s)].q)]]
  /\ edge' = [e \in Edges |-> [edge[e] EXCEPT !.q_hat = O3]]
  /\ iter' = [e \in Edges |-> 0]
  /\ at' = "trace"
  /\ UNCHANGED <<mesh, elt, global>>

GlobalSides ==
  /\ at = "init" /\ mesh.program = "ehdg" /\ Defined
  /\ side' = [s \in Sides |-> [side[s] EXCEPT !.q_at_gp = Trace(s, elt[Elt(s)].q)]]
  /\ iter' = [e \in Edges |-> 0]
  /\ at' = "trace"
  /\ UNCHANGED <<mesh, elt, edge, global>>

Twin(e) == CHOOSE x \in Edges \ {e} : mesh.edges[x].dof = mesh.edges[e].dof

(* The other side at point gp of edge e: of the same submesh, or received. *)
q_ex(e, gp) ==
  IF mesh.edges[e].kind = "distributed" THEN side[<<Twin(e), In>>].q_at_gp[GpEx(gp)]
  ELSE side[<<e, Ex>>].q_at_gp[GpEx(gp)]

(* Between elements the fluxes add up to nothing if this does.             *)
TraceKernel(e, gp) ==
  LET w == WaterAt(e, gp)
      del_q == Minus(Plus(side[<<e, In>>].q_at_gp[gp], q_ex(e, gp)), Times(2, q_hat_at_gp(e, gp)))
  IN  [rhs |-> Times(tau(w), del_q),
       d_hat |-> MMinus(dtau_delq(w, del_q), MTimes(2 * tau(w), Identity))]

(* The edges whose loop has not ended; they do not depend on each other,   *)
(* so that all of them may take their n-th iteration together.             *)
Running == {e \in Edges : iter[e] < MaxIterations}

(* Mutant: the open boundary has the time of the next stage, as in IHDG.   *)
EdgeKernels_NextTime ==
  /\ at = "trace" /\ Running # {} /\ Defined
  /\ edge' = [e \in Edges |-> IF e \notin Running THEN edge[e] ELSE
       [edge[e] EXCEPT !.kernel = AtGps([gp \in Gps |->
          IF IsBoundary(e) THEN BoundaryKernel(e, gp, mesh.edges[e].q_inf_next) ELSE TraceKernel(e, gp)])]]
  /\ at' = "iterate"
  /\ UNCHANGED <<mesh, iter, elt, side, global>>

(* global_edge_*_iteration of every edge: kernels, integrals, solution.    *)
(* A small increment, here a zero one, breaks out of its loop, and the last*)
(* iteration ends it as well, without a word.                              *)
EdgeKernels ==
  /\ at = "trace" /\ Running # {} /\ Defined
  /\ edge' = [e \in Edges |-> IF e \notin Running THEN edge[e] ELSE
       [edge[e] EXCEPT !.kernel = AtGps([gp \in Gps |->
          IF IsBoundary(e) THEN BoundaryKernel(e, gp, mesh.edges[e].q_inf) ELSE TraceKernel(e, gp)])]]
  /\ at' = "iterate"
  /\ UNCHANGED <<mesh, iter, elt, side, global>>

EdgeIteration ==
  LET del_q_hat(e) == Apply(MatInverse(IntegrationLambdaLambda(e)), Times(-1, IntegrationLambda(e)))
  IN  /\ at = "iterate" /\ \A e \in Running : IsRegular(IntegrationLambdaLambda(e))
      /\ edge' = [e \in Edges |->
           IF e \in Running THEN [edge[e] EXCEPT !.q_hat = Plus(@, del_q_hat(e))] ELSE edge[e]]
      /\ iter' = [e \in Edges |->
           IF e \notin Running THEN iter[e] ELSE IF del_q_hat(e) = O3 THEN MaxIterations + 1 ELSE iter[e] + 1]
      /\ at' = "trace"
      /\ UNCHANGED <<mesh, elt, side, global>>

(* Mutant: point gp of Ex is taken for the same point as gp of In.         *)
Opposite_SameIndex(F, gp) == Times(-1, F.in[gp])

Opposite(F, gp) == Times(-1, F.in[GpEx(gp)])

(* Internal::ComputeNumericalFlux: the loop over the points negates, for   *)
(* point gp of Ex, what In has at gp_ex, stabilised already or not yet, and*)
(* then stabilises point gp of In and gp_ex of Ex.                         *)
InterfaceFlux(e) ==
  LET Fn_at(gp) == Fn(q_hat_at_gp(e, gp), WaterAt(e, gp), mesh.edges[e].bath[gp])
      Stab(gp, q) == Times(tau(WaterAt(e, gp)), Minus(q, q_hat_at_gp(e, gp)))
      in_side == side[<<e, In>>].q_at_gp
      ex_side == side[<<e, Ex>>].q_at_gp
      After[gp \in 0 .. NGP] ==
        IF gp = 0 THEN [in |-> AtGps([i \in Gps |-> Fn_at(i)]), ex |-> AtGps([i \in Gps |-> O3])]
        ELSE LET F == After[gp - 1]
                 ex == [F.ex EXCEPT ![gp] = Opposite(F, gp)]
             IN  [in |-> [F.in EXCEPT ![gp] = Plus(@, Stab(gp, in_side[gp]))],
                  ex |-> [ex EXCEPT ![GpEx(gp)] = Plus(@, Stab(gp, ex_side[GpEx(gp)]))]]
  IN  After[NGP]

(* ComputeInitTrace of every edge has ended.                               *)
EndInitTrace ==
  /\ at = "trace" /\ Running = {} /\ mesh.program = "ihdg"
  /\ at' = "init"
  /\ UNCHANGED <<mesh, iter, elt, side, edge, global>>

(* ComputeNumericalFlux of every edge.                                     *)
NumericalFlux ==
  /\ at = "trace" /\ Running = {} /\ mesh.program = "ehdg" /\ Defined
  /\ side' = [s \in Sides |->
       [side[s] EXCEPT !.F_hat =
          IF mesh.edges[s[1]].kind = "internal"
          THEN LET F == InterfaceFlux(s[1]) IN IF s[2] = In THEN F.in ELSE F.ex
          ELSE AtGps([i \in Gps |-> F_hat_at(s, i, side[s].q_at_gp)])]]
  /\ at' = "flux"
  /\ UNCHANGED <<mesh, iter, elt, edge, global>>

(* local_*_kernel and the update of a stage with one step.                 *)
LocalStep ==
  /\ at = "flux"
  /\ elt' = [k \in Elements |->
       LET q == elt[k].q_prev
           mine == {s \in Sides : Elt(s) = k}
           rhs == Minus(Plus(VolumeIntegral(k, q), SourceIntegral(k, q, mesh.elts[k].source)),
                        SumVec([s \in mine |-> IntegrationPhi(s, side[s].F_hat)], mine))
       IN  [elt[k] EXCEPT !.q_prev = Plus(q, Times(Div(mesh.dt, mesh.elts[k].area), rhs))]]
  /\ at' = "done"
  /\ UNCHANGED <<mesh, iter, side, edge, global>>

-----------------------------------------------------------------------------
(* A value that is not a number spreads over the solution, and             *)
(* scrutinize_solution aborts the program.                                 *)
Abort ==
  /\ \/ at \in {"init", "local", "trace"} /\ ~Defined
     \/ at = "condense" /\ \E k \in Elements : ~IsRegular(elt[k].delta_local)
     \/ at = "solve" /\ Solution.failed
     \/ at = "iterate" /\ \E e \in Running : ~IsRegular(IntegrationLambdaLambda(e))
  /\ at' = "aborted"
  /\ UNCHANGED <<mesh, iter, elt, side, edge, global>>

Finished == at \in {"done", "aborted"} /\ UNCHANGED vars

(* The traces are what the last stage left, the elements what the slope    *)
(* limiter made of its result: either may be anything.                     *)
Init ==
  \E input \in Inputs :
    /\ at = input.at /\ mesh = input.mesh /\ iter = 0
    /\ elt = [k \in DOMAIN input.mesh.elts |->
         [q |-> input.q[k], q_prev |-> input.q[k], rhs_prev |-> O3,
          delta_local |-> ZeroMatrix, delta_local_inv |-> ZeroMatrix, rhs_local |-> O3]]
    /\ edge = [e \in DOMAIN input.mesh.edges |->
         [q_hat |-> input.q_hat[input.mesh.edges[e].dof],
          kernel |-> <<>>, delta_hat_global |-> ZeroMatrix, rhs_global |-> O3]]
    /\ side = [s \in {x \in (DOMAIN input.mesh.edges) \X {In, Ex} :
                        x[2] \in DOMAIN input.mesh.edges[x[1]].elts} |->
         [q_at_gp |-> <<>>, F_hat |-> <<>>, dF_hat_dq |-> <<>>, dF_hat_dq_hat |-> <<>>,
          delta_hat_local |-> ZeroMatrix, delta_global |-> ZeroMatrix]]
    /\ global = [A |-> <<>>, b |-> <<>>]

Next ==
  \/ InitIteration \/ LocalElements \/ LocalEdges \/ GlobalEdges \/ IntegrateEdges \/ Invert
  \/ Assemble \/ SolveGlobalProblem \/ UpdateIterate \/ NextIteration \/ EndStage
  \/ InitTrace \/ EndInitTrace \/ GlobalSides \/ EdgeKernels \/ EdgeIteration \/ NumericalFlux \/ LocalStep
  \/ Abort \/ Finished

Spec == Init /\ [][Next]_vars

-----------------------------------------------------------------------------
(* The equations, as functions of an iterate of elements and traces.       *)
Iterate == [q |-> [k \in Elements |-> elt[k].q],
            q_hat |-> [dof \in Dofs |-> edge[CHOOSE e \in Edges : mesh.edges[e].dof = dof].q_hat]]

Toward(x, y) ==
  [q |-> [k \in Elements |-> Plus(x.q[k], Times(P, Minus(y.q[k], x.q[k])))],
   q_hat |-> [dof \in Dofs |-> Plus(x.q_hat[dof], Times(P, Minus(y.q_hat[dof], x.q_hat[dof])))]]

(* The flux out of side s with the outward normal, at point gp of its edge.*)
OutwardFlux(s, gp, x) ==
  LET e == mesh.edges[s[1]]
      n == IF s[2] = In THEN e.normal ELSE <<-e.normal[1], -e.normal[2]>>
      hat == Times(e.lambda[gp], x.q_hat[e.dof])
      w == Water(hat, e.bath[gp], n)
  IN  Plus(Fn(hat, w, e.bath[gp]), Times(tau(w), Minus(Times(e.lambda[gp], x.q[Elt(s)]), hat)))

(* The balance of an element over a step: the implicit theta scheme with   *)
(* the source of the last iterate.                                         *)
ElementBalance(k, x, last) ==
  LET data == mesh.elts[k]
      mine == {s \in Sides : Elt(s) = k}
      out(s) == SumVec([gp \in Gps |-> Times(Weight(s[1], gp), OutwardFlux(s, gp, x))], Gps)
      gain == Minus(Plus(VolumeIntegral(k, x.q[k]), SourceIntegral(k, last.q[k], data.source_next)),
                    SumVec([s \in mine |-> out(s)], mine))
  IN  Minus(Minus(Times(Div(data.area, mesh.dt), Minus(x.q[k], elt[k].q_prev)), Times(implicit, gain)),
            Times(theta, elt[k].rhs_prev))

(* The condition on a trace: between elements the fluxes add up to nothing,*)
(* at a boundary its condition holds on average, with q_inf beyond a       *)
(* function; the state beyond an outflow is that of the last iterate.      *)
TraceCondition(dof, x, last, q_inf) ==
  LET sides == {s \in Sides : mesh.edges[s[1]].dof = dof}
      e == CHOOSE e \in Edges : mesh.edges[e].dof = dof
      at_gp(gp) ==
        LET lambda == mesh.edges[e].lambda[gp]
            q == Times(lambda, x.q[mesh.edges[e].elts[1]])
            hat == Times(lambda, x.q_hat[dof])
            n == mesh.edges[e].normal
            w == Water(hat, mesh.edges[e].bath[gp], n)
            beyond == IF mesh.edges[e].kind = "outflow" THEN Times(lambda, last.q[mesh.edges[e].elts[1]])
                      ELSE q_inf[e][gp]
        IN  Times(Weight(e, gp),
                  IF mesh.edges[e].kind = "land"
                  THEN Plus(Minus(hat, q), Times(q[qx] * n[1] + q[qy] * n[2], <<0, n[1], n[2]>>))
                  ELSE Minus(Apply(Aplus(w), Minus(q, hat)), Apply(Aminus(w), Minus(beyond, hat))))
  IN  IF IsBoundary(e) THEN SumVec([gp \in Gps |-> at_gp(gp)], Gps)
      ELSE SumVec([s \in sides |->
             SumVec([gp \in Gps |-> Times(Weight(s[1], gp), OutwardFlux(s, gp, x))], Gps)], sides)

(* Every update is exactly one step of Newton's method for the equations of*)
(* all elements and traces together: going from the last iterate a P-th of *)
(* the way to the new one takes a P-th of every residual away.  This is    *)
(* about all of the Jacobians that are written out by hand, the condensing *)
(* of the elements, the assembly of coupled edges, submesh borders         *)
(* included, and the recovery of the elements from the traces.             *)
NewtonUpdateExact ==
  [][at = "update" =>
       LET old == Iterate
           new == Iterate'
           on == Toward(old, new)
           residual(dof, x) == TraceCondition(dof, x, old, [e \in Edges |-> mesh.edges[e].q_inf_next])
       IN  /\ \A k \in Elements :
                Plus(Times(P - 1, ElementBalance(k, old, old)), ElementBalance(k, on, old)) = O3
           /\ \A dof \in Dofs :
                Plus(Times(P - 1, residual(dof, old)), residual(dof, on)) = O3]_vars

(* The same of the loop of an edge alone: every iteration is exactly one   *)
(* step of Newton's method for the condition on its trace at the time of   *)
(* the stage, with both elements as they are.  At the border of two        *)
(* submeshes each of them makes such steps with what it received, for a    *)
(* condition that is about the elements of both.                           *)
EdgeUpdateExact ==
  [][at = "iterate" /\ at' = "trace" => \A e \in Running :
       LET old == [Iterate EXCEPT !.q_hat = [dof \in Dofs |-> edge[e].q_hat]]
           new == [Iterate EXCEPT !.q_hat = [dof \in Dofs |-> edge'[e].q_hat]]
           residual(x) == TraceCondition(mesh.edges[e].dof, x, old, [b \in Edges |-> mesh.edges[b].q_inf])
       IN  Plus(Times(P - 1, residual(old)), residual(Toward(old, new))) = O3]_vars

(* EHDG: where the loops for the trace have converged, what the numerical  *)
(* flux takes out of an element at any point of an edge, the element across*)
(* gains, be it of the same submesh or of another one, which has computed  *)
(* the trace for itself.                                                   *)
FluxConserved ==
  at = "flux" => \A s \in Sides, t \in Sides :
    /\ s # t /\ mesh.edges[s[1]].dof = mesh.edges[t[1]].dof
    /\ iter[s[1]] > MaxIterations /\ iter[t[1]] > MaxIterations
    => \A gp \in Gps : side[s].F_hat[gp] = Times(-1, side[t].F_hat[GpEx(gp)])

(* The matrices that open boundaries upwind with are a splitting of the    *)
(* Jacobian of the normal flux: they add up to it, and what one keeps the  *)
(* other annihilates, at every state the trace goes through.               *)
UpwindSplit ==
  at \in {"edges", "flux"} => \A e \in Edges, gp \in Gps :
    mesh.edges[e].kind \in {"function", "outflow"} =>
      LET w == WaterAt(e, gp)
      IN  /\ MPlus(Aplus(w), Aminus(w)) = dFn_dq(w)
          /\ Prod(Aplus(w), Aminus(w)) = ZeroMatrix
=============================================================================
