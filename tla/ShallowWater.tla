----------------------------- MODULE ShallowWater -----------------------------
(* The shallow water fluxes at a quadrature point, their Jacobians, the    *)
(* matrices of upwinding with their derivatives, and the Lax-Friedrichs    *)
(* stabilisation of the hybridized discretizations.                        *)
EXTENDS Residues

CONSTANT g
ASSUME GravityAssumption == g \in Num /\ IsPositive(g)

(* SWE::Variables.                                                         *)
ze == 1
qx == 2
qy == 3
Variables == {ze, qx, qy}

(* The water at a point of a side: depth, velocity and the normal.         *)
Water(q, bath, n) ==
  LET h == (q[ze] + bath) % M
  IN  [h |-> h, u |-> Div(q[qx], h), v |-> Div(q[qy], h), nx |-> n[1], ny |-> n[2]]

half == Inv[2]
Pe(q, bath) == g * ((half * q[ze] * q[ze] + q[ze] * bath) % M)

Fx(q, w, bath) == Vec(<<q[qx], w.u * q[qx] + Pe(q, bath), w.u * q[qy]>>)
Fy(q, w, bath) == Vec(<<q[qy], w.u * q[qy], w.v * q[qy] + Pe(q, bath)>>)
Fn(q, w, bath) == Plus(Times(w.nx, Fx(q, w, bath)), Times(w.ny, Fy(q, w, bath)))

dFx_dq(w) == <<Vec(<<0, 1, 0>>), Vec(<<g * w.h - w.u * w.u, 2 * w.u, 0>>), Vec(<<-w.u * w.v, w.v, w.u>>)>>
dFy_dq(w) == <<Vec(<<0, 0, 1>>), Vec(<<-w.u * w.v, w.v, w.u>>), Vec(<<g * w.h - w.v * w.v, 0, 2 * w.v>>)>>
dFn_dq(w) == MPlus(MTimes(w.nx, dFx_dq(w)), MTimes(w.ny, dFy_dq(w)))

-----------------------------------------------------------------------------
c(w) == Sqrt(g * w.h)
un(w) == (w.u * w.nx + w.v * w.ny) % M

(* Derivatives of c and un by variable d.                                  *)
dc(w, d) == IF d = ze THEN Div(Sqrt(Div(g, w.h)), 2) ELSE 0
dun(w, d) == Div(IF d = ze THEN -un(w) ELSE IF d = qx THEN w.nx ELSE w.ny, w.h)

(* Eigenvalues of the flux Jacobian and what is made of them.              *)
Eigenvalues(w) == Plus(Times(un(w), <<1, 1, 1>>), Times(c(w), <<-1, 0, 1>>))
dEigenvalues(w, d) == Plus(Times(dun(w, d), <<1, 1, 1>>), Times(dc(w, d), <<-1, 0, 1>>))

L(w) == Diag(Eigenvalues(w))
dL(w, d) == Diag(dEigenvalues(w, d))
absL(w) == Diag([i \in 1 .. 3 |-> Abs(Eigenvalues(w)[i])])
dabsL(w, d) == Diag([i \in 1 .. 3 |-> dEigenvalues(w, d)[i] * Sign(Eigenvalues(w)[i])])

R(w) ==
  <<Vec(<<1, 0, 1>>),
    Vec(<<w.u - c(w) * w.nx, -w.ny, w.u + c(w) * w.nx>>),
    Vec(<<w.v - c(w) * w.ny, w.nx, w.v + c(w) * w.ny>>)>>

dR(w, d) ==
  LET velocity(m, i) == IF d = ze THEN -Div(m, w.h) ELSE IF d = i THEN Inv[w.h] ELSE 0
      du == velocity(w.u, qx)
      dv == velocity(w.v, qy)
  IN  <<O3,
        Vec(<<du - dc(w, d) * w.nx, 0, du + dc(w, d) * w.nx>>),
        Vec(<<dv - dc(w, d) * w.ny, 0, dv + dc(w, d) * w.ny>>)>>

(* Mutant: the first and the last row carry each other's sign.             *)
invR_Swapped(w) ==
  LET by(x) == Div(x, 2 * c(w))
  IN  <<Vec(<<by(c(w) + un(w)), by(w.nx), by(w.ny)>>),
        Vec(<<w.u * w.ny - w.v * w.nx, -w.ny, w.nx>>),
        Vec(<<by(c(w) - un(w)), -by(w.nx), -by(w.ny)>>)>>

invR(w) ==
  LET by(x) == Div(x, 2 * c(w))
  IN  <<Vec(<<by(c(w) + un(w)), -by(w.nx), -by(w.ny)>>),
        Vec(<<w.u * w.ny - w.v * w.nx, -w.ny, w.nx>>),
        Vec(<<by(c(w) - un(w)), by(w.nx), by(w.ny)>>)>>

dinvR(w, d) ==
  LET first == IF d = ze THEN -Div(3 * un(w), 4 * w.h * c(w)) ELSE Div(dun(w, d), 2 * c(w))
      slope == Div(dc(w, d), 2 * g * w.h)
      across == IF d = ze THEN -Div(w.u * w.ny - w.v * w.nx, w.h)
                ELSE IF d = qx THEN Div(w.ny, w.h) ELSE -Div(w.nx, w.h)
  IN  <<Vec(<<first, slope * w.nx, slope * w.ny>>),
        Vec(<<across, 0, 0>>),
        Vec(<<-first, -slope * w.nx, -slope * w.ny>>)>>

-----------------------------------------------------------------------------
(* One half of the flux Jacobian, s = 1 for what leaves with the normal and*)
(* s = -1 for what enters, and its derivatives.                            *)
Half(w, s) == MTimes(half, Prod(Prod(R(w), MPlus(L(w), MTimes(s, absL(w)))), invR(w)))

dHalf(w, s, d) ==
  LET l == MPlus(L(w), MTimes(s, absL(w)))
      dl == MPlus(dL(w, d), MTimes(s, dabsL(w, d)))
  IN  MTimes(half, MPlus(MPlus(Prod(Prod(dR(w, d), l), invR(w)),
                               Prod(Prod(R(w), dl), invR(w))),
                         Prod(Prod(R(w), l), dinvR(w, d))))

Aplus(w) == Half(w, 1)
dAplus(w, d) == dHalf(w, 1, d)
Aminus(w) == Half(w, -1)
dAminus(w, d) == dHalf(w, -1, d)

(* Lax-Friedrichs: tau times the identity and its derivatives.             *)
tau(w) == (c(w) + Abs(un(w))) % M
dtau(w, d) == (dc(w, d) + dun(w, d) * Sign(un(w))) % M

(* dtau_delq: the derivative of tau at a jump that is held.                *)
dtau_delq(w, del_q) ==
  FromColumns([d \in Variables |-> Times(dtau(w, d), del_q)])
=============================================================================
