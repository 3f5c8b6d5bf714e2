-------------------------- MODULE ModExpRevisions --------------------------
(***************************************************************************)
(* The three earlier revisions of the MODEXP precompile kept in            *)
(* src/lib/evmone_precompiles/modexp.cpp, beside the dynamic-span one of   *)
(* ModExp.  Each computes on one fixed-size intx::uint<Size * 8>, Size     *)
(* chosen by modexp from max(mod.size(), base.size()):                     *)
(*   "arith" (lines 1-172): modexp_odd with evmmax::ModArith, modinv_pow2  *)
(*           bit by bit, no special case for a zero exponent;              *)
(*   "mont"  (lines 648-865): its own CIOS mul_mont, modinv_pow2 by        *)
(*           Newton steps on the whole integer;                            *)
(*   "amm"   (lines 867-1157): mul_amm with one final reduction, and the   *)
(*           word-span modinv_pow2 of the dynamic version.                 *)
(* rev names the revision a call goes to; "dynamic" runs ModExp's steps.   *)
(* A fixed-size call runs as steps like ModExp: its two loops one          *)
(* iteration per step, and the truncation of the result into the output.   *)
(*                                                                         *)
(* Sizes are in words as in ModExp: Size bytes of 8-byte words is          *)
(* ImplWords of the words of the longer input, so the fixed integer has    *)
(* FixedWords words and wraps modulo Radix(FixedWords).                    *)
(***************************************************************************)
EXTENDS ModExp

VARIABLE rev

revVars == <<vars, rev>>

Revisions == {"dynamic", "arith", "mont", "amm"}

\* ModArith<UIntT> for the n words of a fixed size.
MAn(n) == INSTANCE ModArith WITH W <- WordBits, S <- n

\* The size dispatch of modexp: size <= 16 bytes, <= 32, ..., else
\* MAX_INPUT_SIZE; in words, ImplWords of the longer input.
FixedWords == ImplWords(Wn)

\* trunc(dst, x): the last dst.size() bytes of to_big_endian(x).
TruncBE(v, len) == [j \in 1..len |-> (v \div ByteBase^(len - j)) % ByteBase]

\* The product of a loop step: ModArith::mul ("arith"),
\* mul_mont ("mont"), mul_amm ("amm"), or the product truncated to UIntT
\* of modexp_pow2 ("trunc").
Prod(kind, x, y, mod, n) ==
    CASE kind = "arith" -> MAn(n)!Mul(x, y, mod)
      [] kind = "mont"  -> MAn(n)!MulFinal(MAn(n)!MulRounds([lo |-> 0, hi |-> 0], 0, x, y, mod,
                                                           MAn(n)!ComputeMontModInv(mod)), mod)
      [] kind = "amm"   -> MulAMM(x, y, mod, n)
      [] kind = "trunc" -> (x * y) % Radix(n)

\* modinv_pow2 of "arith": b = 1; res = 0; for i < k: t = b & 1;
\* b = (b - x * t) >> 1 on the wrapped UIntT; res |= t << i.
ModinvPow2Bits(x, k, n) ==
    LET RECURSIVE Step(_, _, _)
        Step(b, res, j) ==
            IF j = k THEN res
            ELSE LET t == b % 2
                 IN  Step(((b - x * t) % Radix(n)) \div 2, res + t * 2^j, j + 1)
    IN  Step(1, 0, 0)

\* Mutant: the count of correct bits starts at 2 * 64.
ModinvPow2NewtonLate(x, k, n) ==
    LET RECURSIVE Step(_, _)
        Step(inv, iterations) ==
            IF iterations >= k THEN inv
            ELSE Step((inv * ((2 - x * inv) % Radix(n))) % Radix(n), iterations * 2)
    IN  Step(MA!InvMod(Word(x, 0)), 2 * WordBits)

\* modinv_pow2 of "mont": inv = modinv(x[0]), correct to 64 bits; then
\* for (iterations = 64; iterations < k; iterations *= 2) inv *= 2 - x * inv.
ModinvPow2Newton(x, k, n) ==
    LET RECURSIVE Step(_, _)
        Step(inv, iterations) ==
            IF iterations >= k THEN inv
            ELSE Step((inv * ((2 - x * inv) % Radix(n))) % Radix(n), iterations * 2)
    IN  Step(MA!InvMod(Word(x, 0)), WordBits)

\* mod_odd_inv as each revision's modexp_impl or modexp_even computes it;
\* "amm" fills the low num_pow2_words words of a zero UIntT.
FixedModinv(x, k) ==
    CASE rev = "arith" -> ModinvPow2Bits(x, k, FixedWords)
      [] rev = "mont"  -> ModinvPow2Newton(x, k, FixedWords)
      [] rev = "amm"   -> ModinvPow2(x, WordsFor(k))

\* The CRT of an even modulus:
\* x1 + (((x2 - x1) * mod_odd_inv) & ((1 << k) - 1)) * mod_odd, on UIntT.
CrtCombine(y1, y2, inv, modOdd, k, n) ==
    LET y == ((((y2 - y1) % Radix(n)) * inv) % Radix(n)) % 2^k
    IN  (y1 + y * modOdd) % Radix(n)

\* base_mont: arith.to_mont(base) ("arith"), else the remainder of
\* (base << num_bits) by mod.
FixedBaseMont ==
    IF rev = "arith" THEN MAn(FixedWords)!ToMont(Base, ModOdd)
    ELSE BaseMont(Base, ModOdd, FixedWords)

\* The conversion out of Montgomery form at the end of modexp_odd:
\* arith.from_mont(ret), mul_mont(ret_mont, 1), or mul_amm(ret_mont, 1)
\* followed by if (ret >= mod) ret -= mod.
FixedOddResult(r) ==
    CASE rev = "arith" -> MAn(FixedWords)!FromMont(r, ModOdd)
      [] rev = "mont"  -> Prod("mont", r, 1, ModOdd, FixedWords)
      [] rev = "amm"   -> ReduceOnce(MulAMM(r, 1, ModOdd, FixedWords), ModOdd)

-----------------------------------------------------------------------------
(* The steps of a call.  pc runs "dispatch", "fodd" (the loop of           *)
(* modexp_odd), "fpow2" (the loop of modexp_pow2), "fstore", "done".       *)

RevInit == Init /\ rev \in Revisions

\* A call of the dynamic-span modexp: ModExp's steps.
DynamicStep == rev = "dynamic" /\ Next /\ UNCHANGED rev

\* "mont" and "amm": exp.bit_width() == 0 gives result = mod != 1.
FixedZeroExponent ==
    /\ rev \in {"mont", "amm"} /\ pc = "dispatch" /\ Bw = 0
    /\ result' = IF Mod # 1 THEN 1 ELSE 0
    /\ pc' = "fstore"
    /\ UNCHANGED <<baseB, expB, modB, ret, r2, x1, i, output, rev>>

\* "arith", mod odd or even but not a power of two: modexp_odd (on
\* mod_odd) starts with ret = to_mont(1) and the loop from bit_width(),
\* also for a zero exponent.
StartOddArith ==
    /\ rev = "arith" /\ pc = "dispatch"
    /\ K = 0 \/ ModOdd # 1
    /\ ret' = MAn(FixedWords)!ToMont(1, ModOdd)
    /\ i' = Bw
    /\ pc' = "fodd"
    /\ UNCHANGED <<baseB, expB, modB, r2, x1, result, output, rev>>

\* Mutant: the loop of "mont" starts from bit_width() over ret = base_mont.
StartOddMontAllBits ==
    /\ rev \in {"mont", "amm"} /\ pc = "dispatch" /\ Bw # 0
    /\ K = 0 \/ ModOdd # 1
    /\ ret' = FixedBaseMont
    /\ i' = Bw
    /\ pc' = "fodd"
    /\ UNCHANGED <<baseB, expB, modB, r2, x1, result, output, rev>>

\* "mont" and "amm": ret_mont = base_mont, the top bit of the exponent,
\* and the loop from bit_width() - 1.
StartOddMont ==
    /\ rev \in {"mont", "amm"} /\ pc = "dispatch" /\ Bw # 0
    /\ K = 0 \/ ModOdd # 1
    /\ ret' = FixedBaseMont
    /\ i' = Bw - 1
    /\ pc' = "fodd"
    /\ UNCHANGED <<baseB, expB, modB, r2, x1, result, output, rev>>

\* mod a power of two: modexp_pow2 starts with ret = 1 and the loop from
\* bit_width() (for "arith" also when the exponent is zero).
StartPow2Fixed ==
    /\ rev # "dynamic" /\ pc = "dispatch"
    /\ rev = "arith" \/ Bw # 0
    /\ K # 0 /\ ModOdd = 1
    /\ r2' = 1
    /\ i' = Bw
    /\ pc' = "fpow2"
    /\ UNCHANGED <<baseB, expB, modB, ret, x1, result, output, rev>>

\* ret = mul(ret, ret); if (exp[i - 1]) ret = mul(ret, base_mont).
FixedOddIteration ==
    /\ rev # "dynamic" /\ pc = "fodd" /\ i # 0
    /\ LET sq == Prod(rev, ret, ret, ModOdd, FixedWords)
       IN  ret' = IF ExpBit(expB, i - 1) = 1
                  THEN Prod(rev, sq, FixedBaseMont, ModOdd, FixedWords) ELSE sq
    /\ i' = i - 1
    /\ UNCHANGED <<baseB, expB, modB, r2, x1, result, output, pc, rev>>

\* The end of modexp_odd: its result for an odd modulus, or x1 of the
\* CRT, after which modexp_pow2 starts.
FixedOddFinish ==
    /\ rev # "dynamic" /\ pc = "fodd" /\ i = 0
    /\ x1' = FixedOddResult(ret)
    /\ \/ K = 0 /\ result' = x1' /\ pc' = "fstore" /\ UNCHANGED <<r2, i>>
       \/ K # 0 /\ r2' = 1 /\ i' = Bw /\ pc' = "fpow2" /\ UNCHANGED result
    /\ UNCHANGED <<baseB, expB, modB, ret, output, rev>>

\* ret *= ret; if (exp[i - 1]) ret *= base: products wrapped to UIntT.
FixedPow2Iteration ==
    /\ rev # "dynamic" /\ pc = "fpow2" /\ i # 0
    /\ LET sq == Prod("trunc", r2, r2, 0, FixedWords)
       IN  r2' = IF ExpBit(expB, i - 1) = 1 THEN Prod("trunc", sq, Base, 0, FixedWords) ELSE sq
    /\ i' = i - 1
    /\ UNCHANGED <<baseB, expB, modB, ret, x1, result, output, pc, rev>>

\* ret &= (1 << k) - 1: the result for a power of two, else x2 and the CRT.
FixedPow2Finish ==
    /\ rev # "dynamic" /\ pc = "fpow2" /\ i = 0
    /\ LET x2 == r2 % 2^K
       IN  result' = IF ModOdd = 1 THEN x2
                     ELSE CrtCombine(x1, x2, FixedModinv(ModOdd, K), ModOdd, K, FixedWords)
    /\ pc' = "fstore"
    /\ UNCHANGED <<baseB, expB, modB, ret, r2, x1, i, output, rev>>

\* trunc(std::span{output, mod_bytes.size()}, result)
FixedStore ==
    /\ pc = "fstore"
    /\ output' = TruncBE(result, Len(modB))
    /\ pc' = "done"
    /\ UNCHANGED <<baseB, expB, modB, ret, r2, x1, i, result, rev>>

RevNext ==
    \/ DynamicStep
    \/ FixedZeroExponent \/ StartOddArith \/ StartOddMont \/ StartPow2Fixed
    \/ FixedOddIteration \/ FixedOddFinish
    \/ FixedPow2Iteration \/ FixedPow2Finish \/ FixedStore

RevSpec == RevInit /\ [][RevNext]_revVars

-----------------------------------------------------------------------------
(* Properties.                                                             *)

\* The modular inverse of the odd part of an even modulus, as each
\* revision's modinv_pow2 computes it for the CRT: bit by bit with a
\* wrapping shift ("arith"), by Newton steps counted from the 64 bits of
\* modinv(x[0]) up to k ("mont"), by Newton steps on doubling word counts
\* ("amm").  mod_odd * mod_odd_inv is 1 modulo 2^k whenever the CRT runs.
ModinvPow2Inverse ==
    (pc = "fpow2" /\ i = 0 /\ ModOdd # 1) =>
        (ModOdd * FixedModinv(ModOdd, K)) % 2^K = 1

\* Every revision implements the abstract MODEXP: once stored, the output
\* is base^exp mod mod in big-endian bytes of the length of mod.
RevAbs == INSTANCE ModExpAbstract
    WITH output <- IF pc = "done" THEN output ELSE NoOutput

RevisionsRefinement == RevAbs!SafetySpec

=============================================================================
