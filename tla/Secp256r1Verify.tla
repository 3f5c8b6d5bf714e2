-------------------------- MODULE Secp256r1Verify --------------------------
(***************************************************************************)
(* evmmax::secp256r1::verify (src/lib/evmone_precompiles/secp256r1.cpp,   *)
(* lines 18-68), the ECDSA check of P256VERIFY, on a toy a = -3 curve of  *)
(* prime order whose order is below the field prime, as for secp256r1.    *)
(* One step is one straight-line stretch of verify: the range checks of   *)
(* r and s, the checks of Q, the scalars u1 and u2 modulo the order, the  *)
(* two scalar multiplications, the Jacobian add, and the comparison.      *)
(*                                                                         *)
(* The arithmetic modulo the order n uses ModArith (to_mont, inv, mul,    *)
(* from_mont), shown by MontMul and ModInv to compute z * s^-1 mod n also *)
(* for z >= n; it is modelled by its values.                              *)
(***************************************************************************)
EXTENDS ECC

CONSTANTS
    Gx, Gy,        \* the generator G
    HashBits,      \* the bits of the hash z (256; ORDER > 2^255)
    InputMax       \* r, s, qx, qy range over 0..InputMax

ASSUME OnCurve([x |-> Gx, y |-> Gy]) /\ 2^(HashBits - 1) < Order /\ Order < P

G == [x |-> Gx, y |-> Gy]

VARIABLES
    z, r, s, qx, qy,   \* the hash and the inputs
    u1, u2,            \* the scalars
    t1, t2,            \* T1 = u1 * G, T2 = u2 * Q
    jr,                \* jR = T1 + T2
    result,            \* the returned bool, once pc = "done"
    pc

vars == <<z, r, s, qx, qy, u1, u2, t1, t2, jr, result, pc>>

Q == [x |-> qx, y |-> qy]   \* AffinePoint{FE{qx}, FE{qy}}, once qx, qy < P

Init ==
    /\ z \in 0..2^HashBits - 1
    /\ r \in 0..InputMax /\ s \in 0..InputMax
    /\ qx \in 0..InputMax /\ qy \in 0..InputMax
    /\ u1 = 0 /\ u2 = 0
    /\ t1 = JacInfinity /\ t2 = JacInfinity /\ jr = JacInfinity
    /\ result = FALSE
    /\ pc = "start"

Reject == result' = FALSE /\ pc' = "done"

\* Mutant: only r, s != 0 checked, not r, s < ORDER.
InScalarRangeNoUpper(v) == v # 0

\* 1 <= v < Curve::ORDER
InScalarRange(v) == v # 0 /\ v < Order

\* 1. if (r == 0 || r >= ORDER || s == 0 || s >= ORDER) return false;
CheckSignature ==
    /\ pc = "start"
    /\ \/ ~(InScalarRange(r) /\ InScalarRange(s)) /\ Reject
       \/ InScalarRange(r) /\ InScalarRange(s) /\ pc' = "checkq" /\ UNCHANGED result
    /\ UNCHANGED <<z, r, s, qx, qy, u1, u2, t1, t2, jr>>

\* qx, qy < FIELD_PRIME; Q != 0; is_on_curve(Q).
CheckPublicKey ==
    /\ pc = "checkq"
    /\ LET valid == qx < P /\ qy < P /\ Q # Infinity /\ OnCurve(Q)
       IN  \/ ~valid /\ Reject
           \/ valid /\ pc' = "scalars" /\ UNCHANGED result
    /\ UNCHANGED <<z, r, s, qx, qy, u1, u2, t1, t2, jr>>

\* s^-1 mod n: n.inv(n.to_mont(s)) in Montgomery form; inv gives 0 for a
\* value with no inverse.
ScalarInv(v) ==
    IF v % Order = 0 THEN 0 ELSE CHOOSE w \in 1..Order - 1 : (v * w) % Order = 1

\* 4. u1 = z * s^-1 mod n, u2 = r * s^-1 mod n.
ComputeScalars ==
    /\ pc = "scalars"
    /\ u1' = (z * ScalarInv(s)) % Order
    /\ u2' = (r * ScalarInv(s)) % Order
    /\ pc' = "mulg"
    /\ UNCHANGED <<z, r, s, qx, qy, t1, t2, jr, result>>

\* 5. T1 = ecc::mul(G, u1).
MulG ==
    /\ pc = "mulg"
    /\ t1' = Mul(G, u1)
    /\ pc' = "mulq"
    /\ UNCHANGED <<z, r, s, qx, qy, u1, u2, t2, jr, result>>

\* T2 = ecc::mul(Q, u2).
MulQ ==
    /\ pc = "mulq"
    /\ t2' = Mul(Q, u2)
    /\ pc' = "add"
    /\ UNCHANGED <<z, r, s, qx, qy, u1, u2, t1, jr, result>>

\* jR = ecc::add(T1, T2).
AddPoints ==
    /\ pc = "add"
    /\ jr' = JacAdd(t1, t2)
    /\ pc' = "compare"
    /\ UNCHANGED <<z, r, s, qx, qy, u1, u2, t1, t2, result>>

\* Mutant: x1 compared without the reduction by ORDER.
ReduceXNone(x) == x

\* if (x1 >= ORDER) x1 -= ORDER;
ReduceX(x) == IF x >= Order THEN x - Order ELSE x

\* R = to_affine(jR); 6. return R.x mod n == r.
Compare ==
    /\ pc = "compare"
    /\ result' = (ReduceX(ToAffine(jr).x) = r)
    /\ pc' = "done"
    /\ UNCHANGED <<z, r, s, qx, qy, u1, u2, t1, t2, jr>>

Next ==
    \/ CheckSignature \/ CheckPublicKey \/ ComputeScalars
    \/ MulG \/ MulQ \/ AddPoints \/ Compare

Spec == Init /\ [][Next]_vars

-----------------------------------------------------------------------------
(* Properties.                                                             *)

\* P256VERIFY as the spec states it: r, s in [1, n - 1], qx, qy below the
\* field prime, Q not at infinity and on the curve, and R = u1 G + u2 Q
\* not at infinity with R.x mod n = r.
RefAccepts ==
    LET sInv == ScalarInv(s)
        R    == AffineAdd(RefMul((z * sInv) % Order, G), RefMul((r * sInv) % Order, Q))
    IN  /\ r \in 1..Order - 1 /\ s \in 1..Order - 1
        /\ qx < P /\ qy < P /\ Q # Infinity /\ OnCurve(Q)
        /\ R # Infinity /\ R.x % Order = r

\* verify returns true exactly for the signatures P256VERIFY accepts,
\* through mul, the Jacobian add, to_affine (x1 = 0 at infinity, which
\* never equals r >= 1) and the single subtraction of ORDER from x1.
VerifyMatchesSpec == pc = "done" => (result <=> RefAccepts)

\* assert(T2 != 0) at line 56: "Because u2 != 0 and R != 0".
T2NotInfinity == pc = "add" => ~IsJacInfinity(t2)

\* The assertion of the Jacobian add (part_010 line 303) in the add of
\* T1 and T2: points with equal y have equal x.
VerifyJacAddAssertion == pc = "add" => JacAddAssertion(t1, t2)

=============================================================================
