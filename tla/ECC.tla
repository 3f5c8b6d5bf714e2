-------------------------------- MODULE ECC --------------------------------
(***************************************************************************)
(* The elliptic-curve operations of evmmax::ecc (src/unnamed/part_010):    *)
(* affine add, Jacobian add, mixed add, dbl for a = 0 and a = -3, and      *)
(* to_affine, on a short Weierstrass curve y^2 = x^3 + A*x + B over the    *)
(* prime field of P elements, whose group has prime order Order (as        *)
(* secp256k1, secp256r1 and bn254 G1 have).  The FieldElement operators, *)
(* AffinePoint, its zero test and Point::operator- are the same code in    *)
(* the projective revision (src/lib/evmone_precompiles/ecc.hpp, lines      *)
(* 26-127), which EcProj builds on.                                        *)
(*                                                                         *)
(* A FieldElement is modelled by its value in 0..P-1.  The code keeps it  *)
(* in Montgomery form and computes with ModArith mul, add, sub and inv;   *)
(* the MontMul and ModInv models show those return the Montgomery form of *)
(* the product, sum, difference and inverse (0 for 0) for every input, so *)
(* the field operations below are their values.                           *)
(***************************************************************************)
EXTENDS Integers

CONSTANTS
    P,        \* Curve::FIELD_PRIME
    A,        \* Curve::A: 0 or P - 3
    B,        \* Curve::B
    Order     \* Curve::ORDER, the (prime) number of points

ASSUME A \in {0, P - 3} /\ B \in 1..P - 1

F == 0..P - 1

-----------------------------------------------------------------------------
(* FieldElement operators (lines 60-94).                                   *)

FMul(a, b) == (a * b) % P
FAdd(a, b) == (a + b) % P
FSub(a, b) == (a - b) % P
FNeg(a) == (0 - a) % P
\* 1 / a: Fp.inv, which gives 0 for 0.
FInv(a) == IF a = 0 THEN 0 ELSE CHOOSE b \in 1..P - 1 : (a * b) % P = 1
FDiv(a, b) == FMul(a, FInv(b))

-----------------------------------------------------------------------------
(* Points.                                                                  *)

\* AffinePoint{}: (0, 0) is the point at infinity (B # 0 keeps it off the curve).
Infinity == [x |-> 0, y |-> 0]
OnCurve(pt) == FMul(pt.y, pt.y) = FAdd(FAdd(FMul(FMul(pt.x, pt.x), pt.x), FMul(A, pt.x)), B)
CurvePoints == {pt \in [x : F, y : F] : OnCurve(pt)}
AffinePoints == CurvePoints \cup {Infinity}

\* Point::operator-.
AffineNeg(pt) == [x |-> pt.x, y |-> FNeg(pt.y)]

\* ProjPoint{}: x = 0, y = FE{1}, z = 0; p == 0 iff z == 0.
JacInfinity == [x |-> 0, y |-> 1, z |-> 0]
IsJacInfinity(pt) == pt.z = 0
\* ProjPoint(const AffinePoint&): z = FE{1}.
FromAffine(pt) == [x |-> pt.x, y |-> pt.y, z |-> 1]

\* to_affine: z_inv = 1 / z (0 at infinity), (x * z_inv^2, y * z_inv^3).
ToAffine(pt) ==
    LET zInv   == FInv(pt.z)
        zzInv  == FMul(zInv, zInv)
        zzzInv == FMul(zzInv, zInv)
    IN  [x |-> FMul(pt.x, zzInv), y |-> FMul(pt.y, zzzInv)]

-----------------------------------------------------------------------------
(* add(AffinePoint, AffinePoint), lines 232-264: the chord-and-tangent    *)
(* formula with the special cases at infinity and for opposite points.    *)

\* Mutant: no test for opposite points; they take the tangent branch.
AffineAddNoOpposite(p, q) ==
    LET dx0 == FSub(q.x, p.x)
        xx  == FMul(p.x, p.x)
        dy  == IF dx0 # 0 THEN FSub(q.y, p.y) ELSE FAdd(FAdd(FAdd(xx, xx), xx), A)
        dx  == IF dx0 # 0 THEN dx0 ELSE FAdd(p.y, p.y)
        slope == FDiv(dy, dx)
        xr == FSub(FSub(FMul(slope, slope), p.x), q.x)
    IN  CASE p = Infinity -> q
          [] q = Infinity -> p
          [] OTHER -> [x |-> xr, y |-> FSub(FMul(slope, FSub(p.x, xr)), p.y)]

AffineAdd(p, q) ==
    LET dx0 == FSub(q.x, p.x)
        dy0 == FSub(q.y, p.y)
        xx  == FMul(p.x, p.x)
        \* coincident points: the slope of the tangent, (3 x^2 + A) / 2 y
        dy  == IF dx0 # 0 THEN dy0 ELSE FAdd(FAdd(FAdd(xx, xx), xx), A)
        dx  == IF dx0 # 0 THEN dx0 ELSE FAdd(p.y, p.y)
        slope == FDiv(dy, dx)
        xr == FSub(FSub(FMul(slope, slope), p.x), q.x)
        yr == FSub(FMul(slope, FSub(p.x, xr)), p.y)
    IN  CASE p = Infinity -> q
          [] q = Infinity -> p
          [] dx0 = 0 /\ dy0 # 0 -> Infinity
          [] OTHER -> [x |-> xr, y |-> yr]

-----------------------------------------------------------------------------
(* dbl(ProjPoint), lines 377-438: dbl-2009-l for A = 0, dbl-2001-b for    *)
(* A = P - 3.                                                               *)

\* dbl-2009-l, for A = 0.
Dbl2009l(p) ==
    LET xx   == FMul(p.x, p.x)
        yy   == FMul(p.y, p.y)
        yyyy == FMul(yy, yy)
        t0   == FAdd(p.x, yy)
        t3   == FSub(FSub(FMul(t0, t0), xx), yyyy)
        d    == FAdd(t3, t3)
        e    == FAdd(FAdd(xx, xx), xx)
        x3   == FSub(FMul(e, e), FAdd(d, d))
        t8   == FMul(8, yyyy)                        \* yyyy + ... + yyyy
    IN  [x |-> x3, y |-> FSub(FMul(e, FSub(d, x3)), t8),
         z |-> FAdd(FMul(p.y, p.z), FMul(p.y, p.z))]

\* Mutant: z3 = (y + z)^2 - yy, the - zz dropped.
Dbl2001bNoZZ(p) ==
    LET zz    == FMul(p.z, p.z)
        yy    == FMul(p.y, p.y)
        xyy   == FMul(p.x, yy)
        t2    == FMul(FSub(p.x, zz), FAdd(p.x, zz))
        alpha == FAdd(FAdd(t2, t2), t2)
        x3    == FSub(FMul(alpha, alpha), FMul(8, xyy))
        z3    == FSub(FMul(FAdd(p.y, p.z), FAdd(p.y, p.z)), yy)
    IN  [x |-> x3, y |-> FSub(FMul(alpha, FSub(FMul(4, xyy), x3)), FMul(8, FMul(yy, yy))),
         z |-> z3]

\* dbl-2001-b, for A = P - 3.
Dbl2001b(p) ==
    LET zz    == FMul(p.z, p.z)
        yy    == FMul(p.y, p.y)
        xyy   == FMul(p.x, yy)
        t2    == FMul(FSub(p.x, zz), FAdd(p.x, zz))
        alpha == FAdd(FAdd(t2, t2), t2)
        x3    == FSub(FMul(alpha, alpha), FMul(8, xyy))
        t5    == FAdd(p.y, p.z)
        z3    == FSub(FSub(FMul(t5, t5), yy), zz)
        t9    == FSub(FMul(4, xyy), x3)
        t11   == FMul(8, FMul(yy, yy))
    IN  [x |-> x3, y |-> FSub(FMul(alpha, t9), t11), z |-> z3]

Dbl(p) == IF A = 0 THEN Dbl2009l(p) ELSE Dbl2001b(p)

-----------------------------------------------------------------------------
(* add(ProjPoint, ProjPoint), lines 271-322: add-1998-cmo-2.               *)

\* Mutant: s1 = y1 * z2z2, the cube of z2 taken as its square.
JacAddHRSquareS1(p, q) ==
    LET z1z1 == FMul(p.z, p.z)
        z2z2 == FMul(q.z, q.z)
        u1   == FMul(p.x, z2z2)
        s1   == FMul(p.y, z2z2)
        s2   == FMul(q.y, FMul(p.z, z1z1))
    IN  [u1 |-> u1, s1 |-> s1, h |-> FSub(FMul(q.x, z1z1), u1), r |-> FSub(s2, s1)]

\* The values h = u2 - u1 and r = s2 - s1 the formula and its assertion use.
JacAddHR(p, q) ==
    LET z1z1 == FMul(p.z, p.z)
        z2z2 == FMul(q.z, q.z)
        u1   == FMul(p.x, z2z2)
        u2   == FMul(q.x, z1z1)
        s1   == FMul(p.y, FMul(q.z, z2z2))
        s2   == FMul(q.y, FMul(p.z, z1z1))
    IN  [u1 |-> u1, s1 |-> s1, h |-> FSub(u2, u1), r |-> FSub(s2, s1)]

\* assert(r != 0 || h == 0) at line 303, reached when neither point is
\* at infinity.
JacAddAssertion(p, q) ==
    LET hr == JacAddHR(p, q)
    IN  IsJacInfinity(p) \/ IsJacInfinity(q) \/ hr.r # 0 \/ hr.h = 0

JacAdd(p, q) ==
    LET hr  == JacAddHR(p, q)
        hh  == FMul(hr.h, hr.h)
        hhh == FMul(hr.h, hh)
        v   == FMul(hr.u1, hh)
        x3  == FSub(FSub(FMul(hr.r, hr.r), hhh), FAdd(v, v))
        y3  == FSub(FMul(hr.r, FSub(v, x3)), FMul(hr.s1, hhh))
        z3  == FMul(p.z, FMul(q.z, hr.h))
    IN  CASE IsJacInfinity(p) -> q
          [] IsJacInfinity(q) -> p
          [] hr.h = 0 /\ hr.r = 0 -> Dbl(p)
          [] OTHER -> [x |-> x3, y |-> y3, z |-> z3]

-----------------------------------------------------------------------------
(* add(ProjPoint, AffinePoint), lines 329-374: madd, with doubling.        *)

\* h = u2 - x1 and t2 = s2 - y1: both zero iff p == q.
MixedAddDoubles(p, q) ==
    LET z1z1 == FMul(p.z, p.z)
    IN  /\ FSub(FMul(q.x, z1z1), p.x) = 0
        /\ FSub(FMul(q.y, FMul(p.z, z1z1)), p.y) = 0

MixedAdd(p, q) ==
    LET z1z1 == FMul(p.z, p.z)
        h    == FSub(FMul(q.x, z1z1), p.x)
        t2   == FSub(FMul(q.y, FMul(p.z, z1z1)), p.y)
        i    == FMul(FAdd(h, h), FAdd(h, h))
        j    == FMul(h, i)
        r    == FAdd(t2, t2)
        v    == FMul(p.x, i)
        x3   == FSub(FSub(FMul(r, r), j), FAdd(v, v))
        t7   == FMul(p.y, j)
        y3   == FSub(FMul(r, FSub(v, x3)), FAdd(t7, t7))
        t10  == FMul(p.z, h)
    IN  CASE q = Infinity -> p
          [] IsJacInfinity(p) -> FromAffine(q)
          [] h = 0 /\ t2 = 0 -> Dbl(p)
          [] OTHER -> [x |-> x3, y |-> y3, z |-> FAdd(t10, t10)]

-----------------------------------------------------------------------------
(* mul(AffinePoint, c), lines 440-465, as a function (the EcMul module    *)
(* has it as a state machine, one loop iteration per step).               *)

\* The number of bits of c: sizeof(IntT) * 8 - clz(c).
RECURSIVE BitWidth(_)
BitWidth(c) == IF c = 0 THEN 0 ELSE 1 + BitWidth(c \div 2)

\* bit_test(c, i)
BitTest(c, i) == (c \div 2^i) % 2 = 1

\* while (true) { subc(c, ORDER); if (less_than) break; c = reduced_c; }
RECURSIVE ReduceByOrder(_)
ReduceByOrder(c) == IF c < Order THEN c ELSE ReduceByOrder(c - Order)

\* for (i = bit_width; i != 0; --i) { r = dbl(r); if (bit_test(c, i - 1)) r = add(r, p); }
RECURSIVE MulLoop(_, _, _, _)
MulLoop(r, p, c, i) ==
    IF i = 0 THEN r
    ELSE MulLoop(IF BitTest(c, i - 1) THEN MixedAdd(Dbl(r), p) ELSE Dbl(r), p, c, i - 1)

Mul(p, c) ==
    LET cr == ReduceByOrder(c)
    IN  MulLoop(JacInfinity, p, cr, BitWidth(cr))

-----------------------------------------------------------------------------
(* Reference definitions.                                                  *)

\* k * pt by k - 1 affine additions.
RECURSIVE RefMul(_, _)
RefMul(k, pt) == IF k = 0 THEN Infinity ELSE AffineAdd(RefMul(k - 1, pt), pt)

=============================================================================
