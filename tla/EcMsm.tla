------------------------------- MODULE EcMsm -------------------------------
(***************************************************************************)
(* ecc::msm(u, p, v, q) (src/unnamed/part_010, lines 470-501): u*p + v*q  *)
(* by the Straus-Shamir trick, one double-and-add loop over the bits of   *)
(* u | v, adding p, q or the precomputed affine p + q.  bn254 mul calls it *)
(* with the two halves of the decomposed scalar and with p = +-pt and     *)
(* q = (beta * pt.x, +-pt.y), both points of the curve.  One step is one  *)
(* iteration of the loop.                                                  *)
(***************************************************************************)
EXTENDS ECC, Bitwise

CONSTANT ScalarBits   \* the bits of u and v

VARIABLES
    u, p, v, q,   \* the arguments
    h,            \* the precomputed affine p + q
    r,            \* the Jacobian accumulator
    i,            \* the bit loop counter
    pc

vars == <<u, p, v, q, h, r, i, pc>>

Init ==
    /\ u \in 0..2^ScalarBits - 1 /\ v \in 0..2^ScalarBits - 1
    /\ p \in CurvePoints /\ q \in CurvePoints
    /\ h = Infinity
    /\ r = JacInfinity
    /\ i = 0
    /\ pc = "start"

\* bit_width of w = u | v; if it is 0 return r (the point at infinity),
\* else h = add(p, q) and the loop from bit_width.
MsmStart ==
    /\ pc = "start"
    /\ LET bw == BitWidth(u | v)
       IN  \/ bw = 0 /\ pc' = "done" /\ UNCHANGED <<h, i>>
           \/ bw # 0 /\ h' = AffineAdd(p, q) /\ i' = bw /\ pc' = "loop"
    /\ UNCHANGED <<u, p, v, q, r>>

\* The lookup table {nullptr, &p, &q, &h} at idx = 2 * v_bit + u_bit.
MsmPoint(idx) == CASE idx = 1 -> p [] idx = 2 -> q [] idx = 3 -> h

\* Mutant: idx = 2 * u_bit + v_bit, the bits swapped.
MsmIndexSwapped(n) ==
    2 * (IF BitTest(u, n - 1) THEN 1 ELSE 0) + (IF BitTest(v, n - 1) THEN 1 ELSE 0)

\* idx of the iteration with counter i.
MsmIndex(n) ==
    2 * (IF BitTest(v, n - 1) THEN 1 ELSE 0) + (IF BitTest(u, n - 1) THEN 1 ELSE 0)

\* r = dbl(r); if (idx == 0) continue; r = add(r, *points[idx]);
MsmStep ==
    /\ pc = "loop" /\ i # 0
    /\ r' = IF MsmIndex(i) = 0 THEN Dbl(r) ELSE MixedAdd(Dbl(r), MsmPoint(MsmIndex(i)))
    /\ i' = i - 1
    /\ UNCHANGED <<u, p, v, q, h, pc>>

MsmReturn ==
    /\ pc = "loop" /\ i = 0
    /\ pc' = "done"
    /\ UNCHANGED <<u, p, v, q, h, r, i>>

Next == MsmStart \/ MsmStep \/ MsmReturn

Spec == Init /\ [][Next]_vars

-----------------------------------------------------------------------------
(* Properties.                                                             *)

\* The Straus-Shamir invariant: with i bits left, r represents
\* (u >> i) * p + (v >> i) * q, with z = 0 exactly at infinity.  It needs
\* the table entry 3 to be p + q also when p = q or p = -q ("works
\* correctly if P == Q", line 481) and the mixed add to handle r equal
\* to, or opposite to, the table entry.
MsmLoopInvariant ==
    pc = "loop" =>
        LET m == AffineAdd(RefMul(u \div 2^i, p), RefMul(v \div 2^i, q))
        IN  ToAffine(r) = m /\ (IsJacInfinity(r) <=> m = Infinity)

=============================================================================
