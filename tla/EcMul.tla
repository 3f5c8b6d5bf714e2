------------------------------- MODULE EcMul -------------------------------
(***************************************************************************)
(* ecc::mul(p, c) (src/unnamed/part_010, lines 440-465) as a state        *)
(* machine: the loop that reduces the scalar by the group order, one      *)
(* iteration per step, then the double-and-add loop over the bits of c    *)
(* from the top, one iteration per step.  secp256r1 verify calls it with  *)
(* G and with the validated public key Q, so p is a point of the curve.   *)
(***************************************************************************)
EXTENDS ECC

CONSTANT ScalarBits   \* the width of Curve::uint_type (256)

ASSUME ScalarBits \in Nat /\ 2^(ScalarBits - 1) < Order

VARIABLES
    p,      \* the affine point argument
    k,      \* the scalar argument as passed
    c,      \* the scalar, reduced in place
    r,      \* the Jacobian accumulator
    i,      \* the bit loop counter
    pc

vars == <<p, k, c, r, i, pc>>

Scalars == 0..2^ScalarBits - 1

Init ==
    /\ p \in CurvePoints
    /\ k \in Scalars
    /\ c = k
    /\ r = JacInfinity
    /\ i = 0
    /\ pc = "reduce"

\* Mutant: the reduction loop dropped.
ScalarBelowOrderNoReduce(s) == TRUE

\* subc(c, Curve::ORDER) borrows: c < ORDER.
ScalarBelowOrder(s) == s < Order

\* while (true) { [reduced_c, less_than] = subc(c, ORDER); ... c = reduced_c; }
ReduceScalar ==
    /\ pc = "reduce" /\ ~ScalarBelowOrder(c)
    /\ c' = c - Order
    /\ UNCHANGED <<p, k, r, i, pc>>

\* if (less_than) break; ProjPoint r; bit_width = 256 - clz(c).
StartLoop ==
    /\ pc = "reduce" /\ ScalarBelowOrder(c)
    /\ r' = JacInfinity
    /\ i' = BitWidth(c)
    /\ pc' = "loop"
    /\ UNCHANGED <<p, k, c>>

\* Mutant: bit_test(c, i), one bit too high.
MulBitOffByOne(s, n) == BitTest(s, n)

\* The bit the iteration with counter i adds on: bit_test(c, i - 1).
MulBit(s, n) == BitTest(s, n - 1)

\* r = dbl(r); if (bit_test(c, i - 1)) r = add(r, p);
MulStep ==
    /\ pc = "loop" /\ i # 0
    /\ r' = IF MulBit(c, i) THEN MixedAdd(Dbl(r), p) ELSE Dbl(r)
    /\ i' = i - 1
    /\ UNCHANGED <<p, k, c, pc>>

MulReturn ==
    /\ pc = "loop" /\ i = 0
    /\ pc' = "done"
    /\ UNCHANGED <<p, k, c, r, i>>

Next == ReduceScalar \/ StartLoop \/ MulStep \/ MulReturn

Spec == Init /\ [][Next]_vars

-----------------------------------------------------------------------------
(* Properties.                                                             *)

\* The double-and-add invariant: with i bits of c left, r represents
\* (c >> i) * p, and is at infinity exactly when that multiple is.
MulLoopInvariant ==
    pc = "loop" =>
        LET m == RefMul(c \div 2^i, p)
        IN  ToAffine(r) = m /\ (IsJacInfinity(r) <=> m = Infinity)

\* The comment at line 446: once c is reduced below the order, the add
\* in the loop never meets the doubling case (r == p after dbl), so the
\* loop could use an add without it.
MulNoDoubling ==
    (pc = "loop" /\ i # 0 /\ MulBit(c, i)) =>
        ~(~IsJacInfinity(Dbl(r)) /\ MixedAddDoubles(Dbl(r), p))

\* mul returns k * p for the scalar as passed.
MulCorrect == pc = "done" => ToAffine(r) = RefMul(k, p)

=============================================================================
