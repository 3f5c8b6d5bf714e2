------------------------------- MODULE EcAdd -------------------------------
(***************************************************************************)
(* The point operations of evmmax::ecc (src/unnamed/part_010) called on   *)
(* every pair of inputs: affine add, Jacobian add, mixed add and dbl.     *)
(* a1, a2 are affine points (or the point at infinity); j1, j2 are        *)
(* Jacobian representations of them: (x z^2, y z^3, z) for every z # 0,  *)
(* and at infinity every (x, y, 0), since the Jacobian formulas leave     *)
(* arbitrary x and y in a result with z = 0.  One step is one call; out   *)
(* is what it returns.                                                     *)
(***************************************************************************)
EXTENDS ECC

VARIABLES a1, a2, j1, j2, op, out

vars == <<a1, a2, j1, j2, op, out>>

\* The Jacobian representations of an affine point.
JacReps(pt) ==
    IF pt = Infinity THEN [x : F, y : F, z : {0}]
    ELSE {[x |-> FMul(pt.x, FMul(z, z)), y |-> FMul(pt.y, FMul(z, FMul(z, z))), z |-> z] :
            z \in 1..P - 1}

Init ==
    /\ a1 \in AffinePoints /\ a2 \in AffinePoints
    /\ j1 \in JacReps(a1) /\ j2 \in JacReps(a2)
    /\ op = "none"
    /\ out = JacInfinity

\* add(const AffinePoint&, const AffinePoint&)
CallAffineAdd ==
    /\ op = "none"
    /\ op' = "affine" /\ out' = AffineAdd(a1, a2)
    /\ UNCHANGED <<a1, a2, j1, j2>>

\* add(const ProjPoint&, const ProjPoint&)
CallJacAdd ==
    /\ op = "none"
    /\ op' = "jac" /\ out' = JacAdd(j1, j2)
    /\ UNCHANGED <<a1, a2, j1, j2>>

\* add(const ProjPoint&, const AffinePoint&)
CallMixedAdd ==
    /\ op = "none"
    /\ op' = "mixed" /\ out' = MixedAdd(j1, a2)
    /\ UNCHANGED <<a1, a2, j1, j2>>

\* dbl(const ProjPoint&)
CallDbl ==
    /\ op = "none"
    /\ op' = "dbl" /\ out' = Dbl(j1)
    /\ UNCHANGED <<a1, a2, j1, j2>>

Next == CallAffineAdd \/ CallJacAdd \/ CallMixedAdd \/ CallDbl

Spec == Init /\ [][Next]_vars

-----------------------------------------------------------------------------
(* Properties.                                                             *)

\* The affine add is the group law of the curve: its result is on the
\* curve or at infinity, it is commutative and associative, (0, 0) is
\* its identity and Point::operator- its inverse.  This covers the
\* special cases of lines 234-258: infinity, opposite points and the
\* tangent of coincident points.
AffineAddGroupLaw ==
    op = "affine" =>
        /\ out \in AffinePoints
        /\ out = AffineAdd(a2, a1)
        /\ a2 = AffineNeg(a1) => out = Infinity
        /\ \A s \in AffinePoints : AffineAdd(out, s) = AffineAdd(a1, AffineAdd(a2, s))

\* The Jacobian add, the mixed add and dbl implement the affine group law
\* through to_affine, for every representation of their inputs, and give
\* a point with z = 0 exactly when the sum is the point at infinity
\* (the p == 0 test of the next operation and to_affine rely on it).
JacobianRefinesAffine ==
    op \in {"jac", "mixed", "dbl"} =>
        LET sum == IF op = "dbl" THEN AffineAdd(a1, a1) ELSE AffineAdd(a1, a2)
        IN  /\ ToAffine(out) = sum
            /\ IsJacInfinity(out) <=> sum = Infinity

=============================================================================
