# TLA+ models of evmone's modular arithmetic, MODEXP and elliptic curves

This directory holds TLA+ modules and TLC configurations for the parts of evmone
(`src/`) that a model checker can reach. It also records what each check shows.
The machine-readable index is `PROJECT.json`. It lists the components, the runs,
the mutants, the map from every definition to the source lines it models, the
findings and the hazards.

## 1. The system (inventory)

evmone is an EVM implementation. The code under `src/` is sequential: no
threads, no callbacks, nothing persisted. What is hard to get right is
arithmetic. Carries and wrap-around in multi-word integers, loop invariants
of number-theoretic algorithms, and a dispatch over moduli and sizes all have
edge cases that unit tests rarely hit. The parts are:

| Part | Source | State and operations | What makes it correct |
|---|---|---|---|
| ModArith (C1) | `src/unnamed/part_000` | mod_, r_squared_, mod_inv_. Operations: `inv_mod`, `mul` (CIOS: accumulator `t` of S+1 words, outer loop over `y[i]`), `to_mont`, `from_mont`, `add`, `sub`, `inv` (binary extended GCD: locals a, b, u, v) | mul returns x·y·R⁻¹ mod m, reduced, also for x ≥ m. inv keeps the Bezout relations, terminates, and returns x⁻¹·R or 0. |
| MODEXP (C2) | `src/lib/evmone_precompiles/modexp.cpp` 175-648; the fixed-size revisions at 1-172, 648-865, 867-1157 | load/store, `Exponent`, word-array add/sub/mul/neg_add2, `mul_amm`, `modexp_odd_fixed_size` plus the size dispatch, `modexp_pow2`, `modinv_pow2`, `modexp_even` (CRT), `modexp` | Output = base^exp mod m, big-endian, of the length of m, on every path. The AMM carries never collide. One final reduction is enough. |
| ECC core (C3), Jacobian revision | `src/unnamed/part_010` | Affine and Jacobian add, mixed add, dbl (a = 0 and a = −3), mul (double-and-add), msm, to_affine | The group law: results equal the affine reference. The special cases (infinity, P = −Q, P = Q) are handled. |
| ECC core, projective revision | `src/lib/evmone_precompiles/ecc.hpp` | Affine add (a = 0), the complete projective add, mixed add and dbl (Renes–Costello–Batina algorithms 7, 8, 9), mul, to_affine | Complete formulas: no special case, the right sum for every representation of every pair. |
| Curve precompiles (C4) | `secp256r1.cpp`, `bn254.cpp`, the earlier `bn254.cpp` at the end of `secp256r1.hpp` | ECDSA verify; bn254 validate and the GLV mul over msm; the earlier mul, `to_affine(ecc::mul(pt, c))` | Accept exactly the valid signatures. mul returns c·pt. |
| Code analysis (C6) | `src/lib/evmone/baseline.hpp` | `BitsetSpan`, the `CodeAnalysis` constructor, `check_jumpdest`; `analyze` (declared only) | A jump is valid iff it targets a JUMPDEST that is not inside push data. |
| Cost tables | `src/unnamed/part_009` | `build_cost_tables` | An opcode is defined from its `since` revision on. |
| Deposit requests | `src/test/state/requests.cpp` | `collect_deposit_requests`, `calculate_requests_hash` | Only well-formed deposit logs are collected. A malformed one voids the whole collection. Empty requests are skipped in the hash. |

ModArith is the base of everything else. ECC and the curve precompiles use it
for field arithmetic, and secp256r1 verify also uses it for arithmetic modulo
the group order. MODEXP uses `compute_mont_mod_inv` and `inv_mod` from it, but
has its own AMM multiplication. `PROJECT.json` lists every part, including
those not modelled and why (enumerations, constant tables, a wrapper over
libsecp256k1, tests, `part_013` and the other revision of `ecc.hpp`).

## 2. Modelling approach

* **Scaled words.** A value is a natural number. An S-word integer with W-bit
  words is a number below R = 2^(W·S). Every C++ unsigned wrap-around is a `%`
  by a power of two. W is 64 in the code and 2 or 4 in the runs. The word
  structure is kept, including which word a carry goes to, because that is
  where the bugs would be.
* **Multiply-accumulate chains.** `addmul` chains over the words of an operand
  are exact: each word product plus two words fits in two words. So a chain is
  one natural-number addition, followed by the split of its result into the
  stored words and the outgoing carry, as the code does.
* **Loops as steps.** A loop is a state machine with one step per iteration
  (`MontMul`, `ModInv`, `AMM`, `ModExp`). The pure algorithms are also RECURSIVE
  operators (`ModArith`, `ModExpArith`), used where a loop is called as a
  function.
* **Toy curves.** The curve code is generic in the curve. It runs here on
  curves y² = x³ + A·x + B over small prime fields whose groups have prime
  order, like those of secp256k1, secp256r1 and bn254:
  * a = 0 (bn254, secp256k1): P = 7, B = 3, with 13 points.
  * a = −3 (secp256r1): P = 13, B = 1, with 19 points.
  * a = −3 for verify: P = 11, B = 10, with 7 points. Here ORDER < FIELD_PRIME
    < 2·ORDER, as for secp256r1.

  A `FieldElement` is its value mod P. The code keeps the Montgomery form and
  calls `ModArith` mul/add/sub/inv. `MontMul` and `ModInv` show those
  compute the Montgomery form of the exact result for every input, with
  inv(0) = 0. Every formula keeps its intermediate values and special cases
  as in the code.
* **Bytes.** In MODEXP a byte has ByteBits bits and a word WordBytes bytes. The
  runs use 2-bit bytes and one byte per word.
* **Bitset words.** `BitsetSpan::WORD_BITS` is 64 in the code and 4 here;
  an opcode is a number in 0..255, the codes use five of them. Load and store are modelled by
  what they do: a big-endian value, and its low bytes.

## 3. Modules

| Module | Models | State / actions |
|---|---|---|
| `ModArith` | part_000: inv_mod, compute_*, mul (CIOS round `MontRound`, `MulFinal`), add, sub, inv (`OddStep`, `Halve`, `InvStep`, `InvResult`) | pure operators; references `GCD`, `OddModuli` |
| `MontMul` | `ModArith::mul` | vars mod, x, y, t = [lo, hi], i, out, pc. Actions `Round` (one outer iteration), `Finish` (conditional subtraction) |
| `ModInv` | `ModArith::inv` | vars mod, x, a, b, u, v, out, pc. Actions `Iterate` (one loop iteration), `Return` |
| `ModExpArith` | modexp.cpp helpers | load/store, Exponent, truncating add/sub/mul, mask_pow2, ctz, is_pow2, shr, AMM round, size dispatch, modinv_pow2; reference `PowMod` |
| `AMM` | `mul_amm` | vars mod, x, y, st = [t, tc, d1, d2], i, out, pc. Actions `Round`, `Finish` |
| `ModExp` | `modexp`, `modexp_odd_fixed_size`, `modexp_pow2`, `modexp_even` | vars baseB, expB, modB, ret, r2, x1, i, result, output, pc. Actions `ZeroExponent`, `StartOdd`, `StartPow2`, `OddIteration`, `OddFinish`, `Pow2Iteration`, `Pow2Finish`, `EvenCombine`, `StoreOutput` |
| `ECC` | part_010: FieldElement ops, to_affine, affine add, Jacobian add (with the line-303 assertion as `JacAddAssertion`), mixed add, dbl (`Dbl2009l` for a = 0, `Dbl2001b` for a = −3), mul as a function | pure operators; reference `RefMul` (k − 1 affine additions) |
| `EcAdd` | the four point operations called on every pair of points, every Jacobian representation (z ≠ 0, and every (x, y, 0) at infinity) | vars a1, a2, j1, j2, op, out. Actions `CallAffineAdd`, `CallJacAdd`, `CallMixedAdd`, `CallDbl` |
| `EcMul` | `ecc::mul` | vars p, k, c, r, i, pc. Actions `ReduceScalar` (one iteration of the reduction loop), `StartLoop`, `MulStep` (dbl, then add on a set bit), `MulReturn` |
| `EcMsm` | `ecc::msm` | vars u, p, v, q, h, r, i, pc. Actions `MsmStart` (return at bit width 0, or precompute h = p + q), `MsmStep`, `MsmReturn` |
| `Secp256r1Verify` | `secp256r1::verify` | vars z, r, s, qx, qy, u1, u2, t1, t2, jr, result, pc. Actions `CheckSignature`, `CheckPublicKey`, `ComputeScalars`, `MulG`, `MulQ`, `AddPoints`, `Compare` |
| `EcProj` | ecc.hpp: the affine add without A, `ProjAdd` (algorithm 7), `ProjMixedAdd` (algorithm 8), `ProjDbl` (algorithm 9) sharing `CompleteTail` (steps 19-33), `ProjToAffine`, mul | vars op, a1, a2, j1, j2, k, c, i, out, pc. Actions `CallAffineAdd`, `CallAdd`, `CallMixedAdd`, `CallDbl`, `CallMul`, then mul's `ReduceScalar`, `StartLoop`, `MulStep`, `MulReturn` |
| `Bn254` | bn254.cpp `validate`, `mul` | extends `EcMsm` with caller, pt, cs, res, mpc. Actions `MulEarlyReturn` (pt == 0, c == 0), `MulCallMsm` (decompose, the msm arguments), `MulReturn` (to_affine), and the steps of msm. `MulPlain` is the earlier revision's mul (secp256r1.hpp 61-65): `ToAffine(Mul(pt, c))` with part_010's mul, no early return. `Decompose` is from the spec: any signed halves with k1 + k2·λ ≡ c (mod N) |
| `CodeAnalysis` | baseline.hpp `BitsetSpan` (`GetRef`, `Set`, `Test`), `CheckJumpdest`, the constructor; `analyze` from spec section 4.6 | vars code, bitset, i, pc, pos, result. Actions `AnalyzeStep` (one iteration of the scan), `Construct`, `CallCheckJumpdest`. Reference `InstructionStart` (RECURSIVE) |
| `ModExpRevisions` | the three fixed-size revisions of modexp.cpp: "arith" (lines 1-172: `ModArith` mul, bit-serial `modinv_pow2`, no zero-exponent case), "mont" (648-865: CIOS `mul_mont`, Newton `modinv_pow2` on UIntT), "amm" (867-1157: `mul_amm` and one final reduction) | extends `ModExp` with `rev`, chosen in `RevInit`; "dynamic" takes ModExp's steps (`DynamicStep`). The others: `FixedZeroExponent`, `StartOddArith`, `StartOddMont`, `StartPow2Fixed`, `FixedOddIteration`, `FixedOddFinish`, `FixedPow2Iteration`, `FixedPow2Finish` (mask and CRT), `FixedStore` (trunc). All arithmetic is on one integer of `FixedWords` words, the size dispatch of modexp |
| `ModExpAbstract` | spec section 4.2 | The output is computed in one step `Compute`. ModExp refines it through `output <- IF pc = "done" THEN output ELSE <<>>`. |

`ModExp` and `AMM` extend `ModExpArith`, which instantiates `ModArith` (W ← the
word size, S ← 1) for `compute_mont_mod_inv`. `MontMul` and `ModInv` extend
`ModArith`.

## 4. Runs

| Run | Cfg | Bounds | Checks | Result |
|---|---|---|---|---|
| montmul | `MontMul.cfg` | W = 2, S = 3 (R = 64); every odd mod < R, every x < R, every y < mod | `TypeOK`, `CIOSInvariant` (t·2^(Wi) = x·(y mod 2^(Wi)) + M·mod with 0 ≤ M < 2^(Wi)), `MulCorrect` | pass, 327,680 states |
| modinv | `ModInv.cfg` | W = 4, S = 2 (R = 256); every odd mod in 3..255, every x < mod | `TypeOK` (a, b within 0..mod, b odd), `BezoutInvariant` (u·x ≡ a·R², v·x ≡ b·R²), `CoefficientsReduced` (u, v < mod), `InvCorrect`, `Termination` | pass, 195,817 states |
| amm | `AMM.cfg` | W = 2, S = 3; every odd mod, every x, y < R | `AMMCarryExclusive` (the assert at line 415, and t + t_carry·R < R + mod), `AMMCorrect` | pass, 655,360 states |
| amm_range | `AMMRange.cfg` | W = 2, S = 2 | `AMMBelowTwoMod`: the documented [0, 2·mod) range | violation (finding) |
| modexp | `ModExpRevisions.cfg` (module `ModExpRevisions`) | 2-bit bytes, 1 byte per word; base and mod of 0..3 and 1..3 bytes, exponent of 0..2 bytes (leading zero bytes included); every revision | `OddLoopInvariant` (dynamic), `OddResultReduced` (the asserts at lines 450 and 1034, and the odd result of every revision), `ModinvPow2Inverse` (each revision's `modinv_pow2` inverts mod_odd modulo 2^k when its CRT runs), `RevisionsRefinement` (`ModExpAbstract!SafetySpec`, for all four revisions) | pass, 4,136,355 states |
| ecadd | `EcAdd.cfg` | a = −3, P = 13: all 19×19 point pairs, all representations | `AffineAddGroupLaw` (closure, commutativity, associativity, inverse), `JacobianRefinesAffine` | pass, 741,125 states |
| ecmul | `EcMul.cfg` | a = −3, P = 13; every point, every 5-bit scalar (ORDER = 19 > 2^4, as ORDER > 2^255) | `MulLoopInvariant`, `MulNoDoubling` (the comment at line 446), `MulCorrect` | pass, 3,780 states |
| ecproj | `EcProj.cfg` | a = 0, P = 7, 13 points; every projective representation (every z ≠ 0, and every (0 : l : 0) at infinity) of every pair; mul on every point and every 6-bit k (up to 4·ORDER, so the reduction loop runs up to 4 times) | `AffineAddA0GroupLaw`, `CompleteAddition` (to_affine of the result is the sum and the result is a representation of it: z = 0 exactly at infinity), `ProjMulCorrect` | pass, 13,833 states |
| bn254 | `Bn254.cfg` | a = 0, P = 7, ORDER = 13, β = 2, λ = 3; msm on every pair of points with 4-bit u, v; mul (both revisions) on every validated point and c in 0..31 (past 2·ORDER), every decomposition with 4-bit halves | `MsmLoopInvariant`, `Bn254MulCorrect` (also for the earlier mul, which reaches pt = 0 in the mixed add and c ≥ N in the reduction loop, both marked untestable in part_010) | pass, 471,512 states |
| codeanalysis | `CodeAnalysis.cfg` | 4-bit words; every code of up to 6 bytes over STOP, JUMPDEST, PUSH1, PUSH2, PUSH32; every position 0..9 | `CheckJumpdestCorrect` (against the recursive definition of an instruction boundary) | pass, 287,437 states |
| verify | `Secp256r1Verify.cfg` | a = −3, P = 11, ORDER = 7; 3-bit hash, r, s, qx, qy in 0..11 | `VerifyMatchesSpec` (accepts exactly what the spec's P256VERIFY accepts), `T2NotInfinity` (the assert at line 56) | pass, 381,888 states |
| verify_assert | `VerifyAssert.cfg` | as verify | `VerifyJacAddAssertion`: the assert at part_010 line 303 | violation (finding) |

**Why these bounds are enough.** With W = 2 and S = 3, a multiplication has
three outer iterations, so there is a first, a middle and a last one. Every
odd modulus below R occurs, the dense ones included (those with a full top
word, where the CIOS carry `d` and the AMM carries are 1). TLC confirms these
carries fire: the mutants that drop them are caught. The modexp bounds reach
every dispatch path. They give mod.size() of 1, 2 and 3 words, so both fixed
sizes N = 2 and N = 4 occur, including N larger than the modulus. They give
exponents whose top byte is not full, exponents with leading zero bytes,
power-of-two moduli with k both a multiple of the word size and not, and
even moduli whose odd part is 1. For the fixed-size revisions the same
inputs give Size of 2 and 4 words, and even moduli up to 48 = 3·2^4 whose k
(up to 4) exceeds the 2 bits of `modinv(x[0])`, so the Newton loop of "mont"
takes a step and the bit-serial loop of "arith" wraps b - x below zero. The curves are small, but each has every
case the formulas distinguish: points at infinity, opposite points,
coincident points, and distinct points with the same y (the cubic in x has
several roots). Their orders are prime, as the real ones are, so there are
no points of order 2, which the affine tangent could not handle. Each
scalar range passes the order, so `mul` takes the reduction loop. In
`codeanalysis` the 4-bit words put a word boundary inside every code longer
than 4 bytes, positions up to 9 go past every code, and PUSH1/PUSH2 data can
hold a 0x5B byte while PUSH32 at any position runs past the end.

The a = 0 curve runs replace an earlier run of the Jacobian formulas on that
curve alone: its `Dbl2009l` and mixed add are exercised by `bn254` through
msm, and the a = −3 formulas by `ecadd`.

**Fairness.** The code is sequential. A step that is enabled is taken, so weak
fairness on `Next` is justified. It is used where termination is checked
(`ModInv`). The modexp and mul loops count a bounded counter down or up, so
their termination is immediate. Those runs check safety only, and their final
state is a deliberate stop (`CHECK_DEADLOCK FALSE`, as in every run here: each
models a function that returns).

## 5. Findings

* **The AMM range (spec_code_divergence).** The comment of `mul_amm`
  (modexp.cpp:384) and spec section 4.1 say the AMM result lies in [0, 2·mod).
  It does not. For inputs below 2·mod and mod > R/4 the result can be ≥ 2·mod:
  with R = 16, mod = 7, x = 12 and y = 13, the result is 15. The code does not
  depend on the claim. Results stay below R (`AMMCorrect`), and one subtraction
  after `mul_amm(ret, 1)` suffices (`OddResultReduced`).

* **The Jacobian add assertion (code_bug).** `add(ProjPoint, ProjPoint)`
  asserts `r != 0 || h == 0` (part_010:303): points with equal y would have
  equal x. Valid distinct points with the same y violate it, and
  `secp256r1::verify` reaches such a pair. On y² = x³ − 3x + 10 over F₁₁
  with G = (2, 1), the input z = r = s = 1, Q = (10, 1) gives T1 = (2, 1)
  and T2 = (10, 1). The caller chooses Q, so a P256VERIFY input that does
  this can be built on secp256r1 too. The sum is still right (`VerifyMatchesSpec`
  and `JacobianRefinesAffine` hold), so a release build answers correctly
  and a build with assertions enabled aborts. The TODO at lines 300-302
  predicts the failure.

* **The mixed add of ecc.hpp and `AffinePoint{}` (hazard, not a finding).**
  Algorithm 8 reads its affine argument as (x : y : 1) and has no case for
  `AffinePoint{}` = (0, 0): `add(r, AffinePoint{})` is not r for a finite r,
  and at infinity gives (0 : 0 : 0), which all later steps keep.
  `CompleteAddition` excludes this input; `ProjMulCorrect` shows that
  `mul(AffinePoint{}, k)` still returns (0, 0), because to_affine maps
  (0 : 0 : 0) there. No caller in `src/` passes (0, 0) to the mixed add
  otherwise.
* **The affine add of ecc.hpp has no A term**, unlike part_010's, while
  `secp256r1.hpp` (A = P − 3) includes this header. No code in `src/` calls
  it with A ≠ 0; `AffineAddA0GroupLaw` checks it for a = 0.

## 6. Plan

The modules are built in order of importance. Items 1-5 are done, and the
fixed-size revisions of modexp.cpp are composed with item 2 in `ModExpRevisions`.

1. `ModArith`, `MontMul`, `ModInv`: the arithmetic everything rests on. (done)
2. `ModExpArith`, `AMM`, `ModExp`, and `ModExpAbstract` with the refinement.
   (done)
3. `ECC` (part_010): affine add, Jacobian add (the assert at line 303 for
   equal y and different x), mixed add, dbl for a = 0 and a = −3, mul and msm,
   on toy curves over a small prime field with field arithmetic from
   `ModArith`. It is checked against an affine reference group law, and the
   Jacobian `add` refines the affine one through `to_affine`. (done)
4. `Secp256r1Verify`: ECDSA verify on a toy curve: range checks, on-curve
   check, u1, u2 through `inv`/`mul`, the `x1 mod n` comparison. Expected: it
   accepts exactly the signatures the reference accepts. (done)
5. `CodeAnalysis`, `EcProj` (ecc.hpp) and `Bn254` (validate, the GLV mul).
   (done)
6. `Requests`: `collect_deposit_requests` over logs with abstract layouts.
   `CostTables`: `build_cost_tables`.
7. Open questions for the modelled parts:
   * The Montgomery form of the curve field is abstracted. It could be
     composed with `ModArith` at a small word size.

## 6a. Comment and code disagree

`Exponent::operator[]` (modexp.cpp:42-52) is documented, by its comment and
by spec section 4.2, as counting bits from the most significant one ("e[0]
is the top bit"). The code reads `data_[exp_size - 1 - index / 8] >> (index
% 8)`, so it counts from the least significant bit. `ExpBit` in
`ModExpArith` models the code, byte index and shift included. Its callers walk the indices from
`bit_width() - 1` down to 0, so the code order is the one they need:
`RevisionsRefinement` and `OddLoopInvariant` pass under that order. The
comment is wrong and the code is right. No violation run states the
comment, because no caller depends on the documented order.

The `Store` of `ModExpRevisions` holds one byte per word, so words never
split across byte boundaries. The partial top word at modexp.cpp:645 is
therefore not checked (see hazards).

## 7. Not modelled

`part_013` (two more revisions of `modexp.cpp`, the same functions as those
modelled in `ModExp` and `ModExpRevisions`) is not modelled. Neither are the extension-field arithmetic of
pairings (`part_012`), which is pure algebra over the base field, the code
of `ecc::decompose` (not under `src/`; `Bn254` takes any decomposition the
spec allows), `analyze` and `execute` of baseline (declared only; the scan
of `analyze` is modelled from the spec), and the 256-bit curve constants of
`bn254.hpp`, `secp256r1.hpp` and `secp256k1.hpp` (the toy a = 0 curve keeps bn254's A = 0 and B = 3). Also not modelled: the byte conversions of
points, `ProjPoint::operator==`, and the `JacPoint` template, which nothing
calls. Enumerations
and constant tables (precompile ids, blob parameters), the libsecp256k1
wrapper, tests and build files have no state changes to check.

The lines of the implementation files that no definition maps are of three
kinds. Some are declarations with no body here: `analyze` and `execute` in
`baseline.hpp`, and `field_sqrt`, `calculate_y` and `ecrecover` in
`secp256k1.hpp`. Some are data: the 256-bit constants of the curve headers,
and the byte conversions `from_bytes`/`to_bytes`. The rest are copies, within
`modexp.cpp`, of code already modelled once. The "arith" and "amm"
`Exponent`, and the "amm" `mul_amm` and span `modinv_pow2`, are the same text
as in the dynamic version, which `ModExpArith` models; `ModExpRevisions`
uses those operators for them. The "amm" `modexp_pow2` is the same text as the
"mont" one. The "arith" `load` reads the same value into one UIntT that the
dynamic `load` reads into words. The "amm" `mul` differs from the dynamic one
in one line: it asserts `x.size() >= y.size()` where the dynamic one swaps
x and y. Its only callers, in `modinv_pow2`, pass n = min(2i, size) >= i
words before i words, so the product is the same.
