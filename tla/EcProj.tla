------------------------------- MODULE EcProj -------------------------------
(***************************************************************************)
(* The projective revision of evmmax::ecc (src/lib/evmone_precompiles/    *)
(* ecc.hpp): ProjPoint (X : Y : Z) standing for (X/Z, Y/Z), the complete  *)
(* addition formulas of Renes, Costello and Batina (ePrint 2015/1060,     *)
(* algorithms 7, 8 and 9) for curves with a = 0, which take b3 = 3 * b as *)
(* an argument and have no special cases, to_affine, and mul.             *)
(*                                                                         *)
(* One step is one call of add, the mixed add or dbl on representations   *)
(* of points of the curve, or one iteration of a loop of mul.  The field  *)
(* operations are those of ECC (FieldElement, lines 58-81).               *)
(***************************************************************************)
EXTENDS ECC

CONSTANT ScalarBits   \* the width of Curve::uint_type (256)

\* static_assert(Curve::A == 0) of add and dbl.
ASSUME A = 0 /\ ScalarBits \in Nat

\* Curve::ORDER is the order of the group: ORDER * p = 0 for every point.
ASSUME \A pt \in AffinePoints : RefMul(Order, pt) = Infinity

\* The b3 argument: 3 * Curve::B.
B3 == FMul(3, B)

\* ProjPoint{}: x = 0, y = FE{1}, z = 0.
ProjInfinity == [x |-> 0, y |-> 1, z |-> 0]

\* to_affine: z_inv = 1 / z, which is 0 for z = 0, and (x z_inv, y z_inv).
ProjToAffine(pt) ==
    LET zInv == FInv(pt.z)
    IN  [x |-> FMul(pt.x, zInv), y |-> FMul(pt.y, zInv)]

\* Mutant: opposite points take the tangent branch.
AffineAddA0NoOpposite(p, q) ==
    LET dx0   == FSub(q.x, p.x)
        dy    == IF dx0 # 0 THEN FSub(q.y, p.y) ELSE FMul(3, FMul(p.x, p.x))
        dx    == IF dx0 # 0 THEN dx0 ELSE FAdd(p.y, p.y)
        slope == FDiv(dy, dx)
        xr    == FSub(FSub(FMul(slope, slope), p.x), q.x)
    IN  CASE p = Infinity -> q
          [] q = Infinity -> p
          [] OTHER -> [x |-> xr, y |-> FSub(FMul(slope, FSub(p.x, xr)), p.y)]

\* add(AffinePoint, AffinePoint): the chord-and-tangent formula with the
\* cases at infinity and for opposite points; the tangent slope is
\* 3 x^2 / 2 y, with no A term.
AffineAddA0(p, q) ==
    LET dx0   == FSub(q.x, p.x)
        dy0   == FSub(q.y, p.y)
        dy    == IF dx0 # 0 THEN dy0 ELSE FMul(3, FMul(p.x, p.x))
        dx    == IF dx0 # 0 THEN dx0 ELSE FAdd(p.y, p.y)
        slope == FDiv(dy, dx)
        xr    == FSub(FSub(FMul(slope, slope), p.x), q.x)
    IN  CASE p = Infinity -> q
          [] q = Infinity -> p
          [] dx0 = 0 /\ dy0 # 0 -> Infinity
          [] OTHER -> [x |-> xr, y |-> FSub(FMul(slope, FSub(p.x, xr)), p.y)]

\* Steps 19-33 of algorithm 7, shared with algorithm 8, from t0 = x1 x2,
\* t1 = y1 y2, t2 = z1 z2, t3, t4 and y3 of the steps before.
CompleteTail(t0, t1, t2, t3, t4, y3) ==
    LET t0b == FMul(3, t0)            \* 19-20: t0 + t0 + t0
        t2b == FMul(B3, t2)           \* 21
        z3a == FAdd(t1, t2b)          \* 22
        t1b == FSub(t1, t2b)          \* 23
        y3b == FMul(B3, y3)           \* 24
    IN  [x |-> FSub(FMul(t3, t1b), FMul(t4, y3b)),       \* 25-27
         y |-> FAdd(FMul(t1b, z3a), FMul(y3b, t0b)),     \* 28-30
         z |-> FAdd(FMul(z3a, t4), FMul(t0b, t3))]       \* 31-33

\* Mutant: step 8 as t3 = t3 + t4.
ProjAddStep8Plus(p, q) ==
    LET t0 == FMul(p.x, q.x)
        t1 == FMul(p.y, q.y)
        t2 == FMul(p.z, q.z)
    IN  CompleteTail(t0, t1, t2,
            FAdd(FMul(FAdd(p.x, p.y), FAdd(q.x, q.y)), FAdd(t0, t1)),
            FSub(FMul(FAdd(p.y, p.z), FAdd(q.y, q.z)), FAdd(t1, t2)),
            FSub(FMul(FAdd(p.x, p.z), FAdd(q.x, q.z)), FAdd(t0, t2)))

\* add(ProjPoint, ProjPoint, b3): algorithm 7.
ProjAdd(p, q) ==
    LET t0 == FMul(p.x, q.x)                                          \* 1
        t1 == FMul(p.y, q.y)                                          \* 2
        t2 == FMul(p.z, q.z)                                          \* 3
        t3 == FSub(FMul(FAdd(p.x, p.y), FAdd(q.x, q.y)), FAdd(t0, t1)) \* 4-8
        t4 == FSub(FMul(FAdd(p.y, p.z), FAdd(q.y, q.z)), FAdd(t1, t2)) \* 9-13
        y3 == FSub(FMul(FAdd(p.x, p.z), FAdd(q.x, q.z)), FAdd(t0, t2)) \* 14-18
    IN  CompleteTail(t0, t1, t2, t3, t4, y3)

\* add(ProjPoint, AffinePoint, b3): algorithm 8, q taken as (x2 : y2 : 1).
ProjMixedAdd(p, q) ==
    LET t0 == FMul(p.x, q.x)
        t1 == FMul(p.y, q.y)
        t3 == FSub(FMul(FAdd(q.x, q.y), FAdd(p.x, p.y)), FAdd(t0, t1))
        t4 == FAdd(FMul(q.y, p.z), p.y)
        y3 == FAdd(FMul(q.x, p.z), p.x)
    IN  CompleteTail(t0, t1, p.z, t3, t4, y3)

\* Mutant: step 12 as t2 = t1 + t1 (2 b3 z^2 instead of 3 b3 z^2).
ProjDblStep12(p) ==
    LET t0  == FMul(p.y, p.y)
        z8  == FMul(8, t0)
        t2  == FMul(B3, FMul(p.z, p.z))
        t0b == FSub(t0, FMul(4, t2))
    IN  [x |-> FMul(2, FMul(t0b, FMul(p.x, p.y))),
         y |-> FAdd(FMul(t2, z8), FMul(t0b, FAdd(t0, t2))),
         z |-> FMul(FMul(p.y, p.z), z8)]

\* dbl(ProjPoint, b3): algorithm 9.
ProjDbl(p) ==
    LET t0  == FMul(p.y, p.y)                 \* 1
        z8  == FMul(8, t0)                    \* 2-4: z3 doubled three times
        t2  == FMul(B3, FMul(p.z, p.z))       \* 6-7
        t0b == FSub(t0, FMul(3, t2))          \* 11-13: t0 - (t2 + t2 + t2)
    IN  [x |-> FMul(2, FMul(t0b, FMul(p.x, p.y))),           \* 16-18
         y |-> FAdd(FMul(t2, z8), FMul(t0b, FAdd(t0, t2))),   \* 8, 9, 14, 15
         z |-> FMul(FMul(p.y, p.z), z8)]                      \* 5, 10

-----------------------------------------------------------------------------
(* Calls of add, the mixed add, dbl and mul.                               *)

VARIABLES
    op,       \* the function called: "none", "affine", "add", "mixed", "dbl", "mul"
    a1, a2,   \* the affine points the arguments stand for
    j1, j2,   \* the ProjPoint arguments
    k, c,     \* mul: the scalar as passed, and as reduced in place
    i,        \* mul: the bit loop counter
    out,      \* the result; in mul, the accumulator r
    pc

vars == <<op, a1, a2, j1, j2, k, c, i, out, pc>>

Scalars == 0..2^ScalarBits - 1

\* The ProjPoints standing for an affine point: (l x : l y : l), and
\* (0 : l : 0) for the point at infinity, for every l # 0.
ProjReps(pt) ==
    IF pt = Infinity THEN {[x |-> 0, y |-> l, z |-> 0] : l \in 1..P - 1}
    ELSE {[x |-> FMul(l, pt.x), y |-> FMul(l, pt.y), z |-> l] : l \in 1..P - 1}

Init ==
    /\ op = "none"
    /\ a1 = Infinity /\ a2 = Infinity
    /\ j1 = ProjInfinity /\ j2 = ProjInfinity
    /\ k = 0 /\ c = 0 /\ i = 0
    /\ out = ProjInfinity
    /\ pc = "idle"

Call(name, result) ==
    /\ op' = name /\ out' = result /\ pc' = "done"
    /\ UNCHANGED <<k, c, i>>

CallAffineAdd ==
    /\ op = "none"
    /\ \E x1, x2 \in AffinePoints :
          /\ a1' = x1 /\ a2' = x2 /\ j1' = ProjInfinity /\ j2' = ProjInfinity
          /\ Call("affine", AffineAddA0(x1, x2))

CallAdd ==
    /\ op = "none"
    /\ \E x1, x2 \in AffinePoints : \E r1 \in ProjReps(x1), r2 \in ProjReps(x2) :
          /\ a1' = x1 /\ a2' = x2 /\ j1' = r1 /\ j2' = r2
          /\ Call("add", ProjAdd(r1, r2))

CallMixedAdd ==
    /\ op = "none"
    /\ \E x1, x2 \in AffinePoints : \E r1 \in ProjReps(x1) :
          /\ a1' = x1 /\ a2' = x2 /\ j1' = r1 /\ j2' = ProjInfinity
          /\ Call("mixed", ProjMixedAdd(r1, x2))

CallDbl ==
    /\ op = "none"
    /\ \E x1 \in AffinePoints : \E r1 \in ProjReps(x1) :
          /\ a1' = x1 /\ a2' = Infinity /\ j1' = r1 /\ j2' = ProjInfinity
          /\ Call("dbl", ProjDbl(r1))

\* mul(p, c, b3), with p any AffinePoint, AffinePoint{} included.
CallMul ==
    /\ op = "none"
    /\ \E pt \in AffinePoints, s \in Scalars :
          /\ op' = "mul" /\ a2' = pt /\ k' = s /\ c' = s
          /\ pc' = "reduce"
    /\ UNCHANGED <<a1, j1, j2, i, out>>

\* subc(c, Curve::ORDER) borrows: c < ORDER.
ScalarBelowOrder(s) == s < Order

\* while (true) { [reduced_c, less_than] = subc(c, ORDER); ... c = reduced_c; }
ReduceScalar ==
    /\ pc = "reduce" /\ ~ScalarBelowOrder(c)
    /\ c' = c - Order
    /\ UNCHANGED <<op, a1, a2, j1, j2, k, i, out, pc>>

\* if (less_than) break; ProjPoint r; bit_width = 256 - clz(c).
StartLoop ==
    /\ pc = "reduce" /\ ScalarBelowOrder(c)
    /\ out' = ProjInfinity
    /\ i' = BitWidth(c)
    /\ pc' = "loop"
    /\ UNCHANGED <<op, a1, a2, j1, j2, k, c>>

\* r = dbl(r, b3); if (c & (1 << (i - 1))) r = add(r, p, b3);
MulStep ==
    /\ pc = "loop" /\ i # 0
    /\ out' = IF BitTest(c, i - 1) THEN ProjMixedAdd(ProjDbl(out), a2) ELSE ProjDbl(out)
    /\ i' = i - 1
    /\ UNCHANGED <<op, a1, a2, j1, j2, k, c, pc>>

MulReturn ==
    /\ pc = "loop" /\ i = 0
    /\ pc' = "done"
    /\ UNCHANGED <<op, a1, a2, j1, j2, k, c, i, out>>

Next ==
    \/ CallAffineAdd \/ CallAdd \/ CallMixedAdd \/ CallDbl \/ CallMul
    \/ ReduceScalar \/ StartLoop \/ MulStep \/ MulReturn

Spec == Init /\ [][Next]_vars

-----------------------------------------------------------------------------
(* Properties.                                                             *)

\* The affine add is the group law of the curve: its result is on the
\* curve or at infinity, it is commutative and associative, (0, 0) is
\* its identity and (x, -y) the inverse of (x, y).  Its tangent slope has
\* no A term, which is right on this a = 0 curve only.
AffineAddA0GroupLaw ==
    (pc = "done" /\ op = "affine") =>
        /\ out \in AffinePoints
        /\ out = AffineAddA0(a2, a1)
        /\ a2 = AffineNeg(a1) => out = Infinity
        /\ \A s \in AffinePoints : AffineAddA0(out, s) = AffineAddA0(a1, AffineAddA0(a2, s))

\* The projective formulas are complete: add, the mixed add and dbl
\* return a representation of the affine sum for every representation
\* of every pair of points, infinity and equal or opposite points
\* included, with no special case in the code.  In particular z = 0
\* exactly for the point at infinity and the result is never the
\* non-point (0 : 0 : 0).  The mixed add takes q as (x2 : y2 : 1), so
\* AffinePoint{} is no point for it (for it the result is wrong, and
\* (0 : 0 : 0) at r = 0).
CompleteAddition ==
    (pc = "done" /\ op \in {"add", "mixed", "dbl"} /\ ~(op = "mixed" /\ a2 = Infinity)) =>
        out \in ProjReps(IF op = "dbl" THEN AffineAddA0(a1, a1) ELSE AffineAddA0(a1, a2))

\* mul returns k * p through to_affine for the scalar as passed, reduced
\* by the order as many times as it takes, also for p = AffinePoint{}:
\* there r goes from (0 : 1 : 0) to (0 : 0 : 0) at the first add and
\* stays there, and to_affine maps it to (0, 0).  (k * p is taken as
\* (k mod ORDER) * p, by the ASSUME that ORDER is the group order.)
ProjMulCorrect ==
    (pc = "done" /\ op = "mul") => ProjToAffine(out) = RefMul(k % Order, a2)

=============================================================================
