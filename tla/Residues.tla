------------------------------- MODULE Residues -------------------------------
(* Numbers for a model of differentiable arithmetic that TLC can evaluate: *)
(* the residues modulo P * P, P a prime of the form 4k + 3.                *)
(*                                                                         *)
(* The multiples of P are infinitesimal: for every f made of + - * /, sqrt *)
(* and abs that is defined at x,                                           *)
(*     f(x + P * d) = f(x) + P * d * f'(x)   modulo P * P, exactly,        *)
(* so that a derivative is checked with one difference and no tolerance.   *)
(* The squares modulo P play the positive numbers: they are closed under   *)
(* products and inverses, one of x and -x is a square, and a square has    *)
(* one root that is a square.  There is no order: sums of squares may be   *)
(* no squares, as water depths may become negative.                        *)
EXTENDS Integers, Sequences, FiniteSetsExt, Functions

CONSTANT P
ASSUME PAssumption == P \in Nat /\ P % 4 = 3 /\ \A d \in 2 .. P - 1 : P % d # 0

M == P * P
Num == 0 .. M - 1

IsZero(x) == x % P = 0
Squares == {(x * x) % P : x \in 1 .. P - 1}
IsPositive(x) == x % P \in Squares
Sign(x) == IF IsZero(x) THEN 0 ELSE IF IsPositive(x) THEN 1 ELSE -1
Abs(x) == (Sign(x) * x) % M

Inv == [x \in {x \in Num : ~IsZero(x)} |-> CHOOSE y \in Num : (x * y) % M = 1]
Root == [x \in {x \in Num : IsPositive(x)} |-> CHOOSE y \in Num : IsPositive(y) /\ (y * y) % M = x]
Div(a, b) == ((a % M) * Inv[b % M]) % M
Sqrt(x) == Root[x % M]

-----------------------------------------------------------------------------
(* Vectors of three components and matrices as tuples of rows.             *)
Vec(f) == <<f[1] % M, f[2] % M, f[3] % M>>
Mat(f) == <<Vec([j \in 1 .. 3 |-> f[1, j]]), Vec([j \in 1 .. 3 |-> f[2, j]]), Vec([j \in 1 .. 3 |-> f[3, j]])>>
Index == (1 .. 3) \X (1 .. 3)

O3 == <<0, 0, 0>>
ZeroMatrix == <<O3, O3, O3>>
Diag(v) == Mat([i \in Index |-> IF i[1] # i[2] THEN 0 ELSE v[i[1]]])
Identity == Diag(<<1, 1, 1>>)

Plus(v, w) == Vec([i \in 1 .. 3 |-> v[i] + w[i]])
Minus(v, w) == Vec([i \in 1 .. 3 |-> v[i] - w[i]])
Times(k, v) == Vec([i \in 1 .. 3 |-> k * v[i]])
Dot(v, w) == v[1] * w[1] + v[2] * w[2] + v[3] * w[3]
Column(A, j) == <<A[1][j], A[2][j], A[3][j]>>
FromColumns(v) == Mat([i \in Index |-> v[i[2]][i[1]]])

MPlus(A, B) == <<Plus(A[1], B[1]), Plus(A[2], B[2]), Plus(A[3], B[3])>>
MMinus(A, B) == <<Minus(A[1], B[1]), Minus(A[2], B[2]), Minus(A[3], B[3])>>
MTimes(k, A) == <<Times(k, A[1]), Times(k, A[2]), Times(k, A[3])>>
Apply(A, v) == Vec([i \in 1 .. 3 |-> Dot(A[i], v)])
Prod(A, B) == LET c == [j \in 1 .. 3 |-> Column(B, j)]
              IN  Mat([i \in Index |-> Dot(A[i[1]], c[i[2]])])

Cofactor(A, i, j) ==
  LET n(k) == (k % 3) + 1
  IN  A[n(i)][n(j)] * A[n(n(i))][n(n(j))] - A[n(i)][n(n(j))] * A[n(n(i))][n(j)]
Det(A) == (A[1][1] * Cofactor(A, 1, 1) + A[1][2] * Cofactor(A, 1, 2) + A[1][3] * Cofactor(A, 1, 3)) % M
IsRegular(A) == ~IsZero(Det(A))
MatInverse(A) == LET d == Inv[Det(A)] IN Mat([i \in Index |-> (Cofactor(A, i[2], i[1]) % M) * d])

SumVec(f, S) == FoldFunctionOnSet(Plus, O3, f, S)
SumMat(f, S) == FoldFunctionOnSet(MPlus, ZeroMatrix, f, S)

-----------------------------------------------------------------------------
(* solve_sle and KSPSolve: the solution of a system of n equations in      *)
(* blocks of three, by elimination of one block after the other; a system  *)
(* with no regular block to eliminate next is given up.                    *)
Evaluated(seq) == <<>> \o seq

Eliminated(sys, k) ==
  IF sys.failed \/ ~\E r \in k .. Len(sys.A) : IsRegular(sys.A[r][k])
  THEN [sys EXCEPT !.failed = TRUE]
  ELSE LET n == Len(sys.A)
           pivot == CHOOSE r \in k .. n : IsRegular(sys.A[r][k])
           from(r) == IF r = k THEN pivot ELSE IF r = pivot THEN k ELSE r
           inv == MatInverse(sys.A[pivot][k])
           factor == Evaluated([r \in 1 .. n |-> IF r = k THEN ZeroMatrix ELSE Prod(sys.A[from(r)][k], inv)])
           row == Evaluated([c \in 1 .. n |-> sys.A[pivot][c]])
       IN  [A |-> Evaluated([r \in 1 .. n |-> Evaluated([c \in 1 .. n |->
                    IF r = k THEN Prod(inv, row[c])
                    ELSE MMinus(sys.A[from(r)][c], Prod(factor[r], row[c]))])]),
            b |-> Evaluated([r \in 1 .. n |->
                    IF r = k THEN Apply(inv, sys.b[pivot])
                    ELSE Minus(sys.b[from(r)], Apply(factor[r], sys.b[pivot]))]),
            failed |-> FALSE]

Solve(A, b) ==
  LET step[k \in 0 .. Len(A)] ==
        IF k = 0 THEN [A |-> A, b |-> b, failed |-> FALSE] ELSE Eliminated(step[k - 1], k)
  IN  step[Len(A)]
=============================================================================
