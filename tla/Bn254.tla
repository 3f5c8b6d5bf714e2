------------------------------- MODULE Bn254 -------------------------------
(***************************************************************************)
(* evmmax::bn254 validate and mul (src/lib/evmone_precompiles/bn254.cpp,  *)
(* lines 11-35), on top of ecc::msm (EcMsm), on a toy a = 0 curve of      *)
(* prime order with an endomorphism (x, y) -> (Beta x, y) acting as       *)
(* multiplication by Lambda, as bn254 G1 has.                              *)
(*                                                                         *)
(* mul splits c by ecc::decompose, which is not in this source tree: it   *)
(* is modelled from the specification as any pair of signed halves with   *)
(* k1 + k2 Lambda = c (mod N), each half below 2^ScalarBits.              *)
(*                                                                         *)
(* Three entry points: msm called with any arguments (the library        *)
(* function, EcMsm's Init), mul called with a point that passed validate, *)
(* and the mul of the earlier revision of bn254.cpp kept at the end of    *)
(* secp256r1.hpp (lines 43-66), to_affine(ecc::mul(pt, c)) with no early  *)
(* return and no decomposition, on the same validated points.             *)
(***************************************************************************)
EXTENDS EcMsm

CONSTANTS
    Beta,       \* Curve::BETA, a cube root of unity in the field
    Lambda,     \* Curve::LAMBDA, the matching cube root of unity mod N
    MaxScalar   \* mul's c ranges over 0..MaxScalar

\* The endomorphism: (Beta x, y) = Lambda * (x, y) on the curve.
ASSUME \A pt \in CurvePoints : [x |-> FMul(Beta, pt.x), y |-> pt.y] = RefMul(Lambda, pt)

VARIABLES
    caller,   \* "msm" for a direct call of msm, "mul" for bn254 mul,
              \* "mulplain" for the mul of the earlier revision
    pt, cs,   \* mul's arguments
    res,      \* mul's result, once mpc = "done"
    mpc       \* mul's program counter

bnVars == <<caller, pt, cs, res, mpc>>
allVars == <<vars, bnVars>>

\* validate(pt): y^2 == x^3 + B, or pt == 0.
Validate(a) == FMul(a.y, a.y) = FAdd(FMul(FMul(a.x, a.x), a.x), B) \/ a = Infinity

\* A half of the decomposition: the sign and the magnitude.
Halves == [sign : BOOLEAN, value : 0..2^ScalarBits - 1]
Signed(k) == IF k.sign THEN -k.value ELSE k.value

\* ecc::decompose<Curve>(c): from the specification, k = k1 + k2 Lambda.
Decompose(c) ==
    {d \in [k1 : Halves, k2 : Halves] : (Signed(d.k1) + Signed(d.k2) * Lambda - c) % Order = 0}

\* Every scalar has a decomposition with halves of ScalarBits bits.
ASSUME \A c \in 0..MaxScalar : Decompose(c) # {}

\* Mutant: the sign of y in q taken from k1.
MsmArgumentsSignSwapped(a, d) ==
    [u |-> d.k1.value, p |-> [x |-> a.x, y |-> IF ~d.k1.sign THEN a.y ELSE FNeg(a.y)],
     v |-> d.k2.value, q |-> [x |-> FMul(Beta, a.x), y |-> IF ~d.k1.sign THEN a.y ELSE FNeg(a.y)]]

\* q = {BETA * pt.x, !k2.sign ? pt.y : -pt.y}; p = {pt.x, !k1.sign ? pt.y : -pt.y};
\* msm(k1.value, p, k2.value, q).
MsmArguments(a, d) ==
    [u |-> d.k1.value, p |-> [x |-> a.x, y |-> IF ~d.k1.sign THEN a.y ELSE FNeg(a.y)],
     v |-> d.k2.value, q |-> [x |-> FMul(Beta, a.x), y |-> IF ~d.k2.sign THEN a.y ELSE FNeg(a.y)]]

MulInit ==
    \/ /\ Init
       /\ caller = "msm" /\ pt = Infinity /\ cs = 0 /\ res = Infinity /\ mpc = "done"
    \/ /\ u = 0 /\ p = Infinity /\ v = 0 /\ q = Infinity
       /\ h = Infinity /\ r = JacInfinity /\ i = 0 /\ pc = "idle"
       /\ caller \in {"mul", "mulplain"}
       /\ pt \in {a \in [x : F, y : F] : Validate(a)}
       /\ cs \in 0..MaxScalar
       /\ res = Infinity
       /\ mpc = "start"

\* if (pt == 0) return pt; if (c == 0) return {};
MulEarlyReturn ==
    /\ caller = "mul" /\ mpc = "start"
    /\ \/ pt = Infinity /\ res' = pt
       \/ pt # Infinity /\ cs = 0 /\ res' = Infinity
    /\ mpc' = "done"
    /\ UNCHANGED <<vars, caller, pt, cs>>

\* [k1, k2] = decompose(c); the arguments of msm; the call.
MulCallMsm ==
    /\ caller = "mul" /\ mpc = "start" /\ pt # Infinity /\ cs # 0
    /\ \E d \in Decompose(cs) :
          LET args == MsmArguments(pt, d)
          IN  u' = args.u /\ p' = args.p /\ v' = args.v /\ q' = args.q
    /\ pc' = "start" /\ mpc' = "msm"
    /\ UNCHANGED <<h, r, i, caller, pt, cs, res>>

\* return to_affine(pr);
MulReturn ==
    /\ mpc = "msm" /\ pc = "done"
    /\ res' = ToAffine(r) /\ mpc' = "done"
    /\ UNCHANGED <<vars, caller, pt, cs>>

\* The earlier revision: const auto pr = ecc::mul(pt, c); return
\* ecc::to_affine(pr); ecc::mul (ECC's Mul) takes pt == 0 and c >= N to
\* its own branches, which its comments call untestable for secp256r1.
MulPlain ==
    /\ caller = "mulplain" /\ mpc = "start"
    /\ res' = ToAffine(Mul(pt, cs))
    /\ mpc' = "done"
    /\ UNCHANGED <<vars, caller, pt, cs>>

MulNext ==
    \/ MulEarlyReturn \/ MulCallMsm \/ MulReturn \/ MulPlain
    \/ Next /\ UNCHANGED bnVars

MulSpec == MulInit /\ [][MulNext]_allVars

-----------------------------------------------------------------------------
(* Properties.                                                             *)

\* mul returns c * pt for every validated point and every c, the GLV
\* split, the signs of p and q, the endomorphism and c >= N included; so
\* does the earlier revision's mul through ecc::mul, pt = 0 (the mixed
\* add's q == 0 branch) and c >= N (the reduction loop) included.
Bn254MulCorrect == mpc = "done" => res = RefMul(cs, pt)

=============================================================================
