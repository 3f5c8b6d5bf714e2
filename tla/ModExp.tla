------------------------------ MODULE ModExp ------------------------------
(***************************************************************************)
(* evmone::crypto::modexp (src/lib/evmone_precompiles/modexp.cpp, lines    *)
(* 425-647) as a sequential state machine: the dispatch on the exponent    *)
(* and the modulus, the square-and-multiply loops of modexp_odd (AMM in    *)
(* Montgomery form) and modexp_pow2 (truncated products), the CRT          *)
(* recombination of modexp_even, and the final store.  One step is one    *)
(* iteration of a loop or one straight-line stretch of the code; pc names  *)
(* the loop the program is in.                                              *)
(***************************************************************************)
EXTENDS ModExpArith

CONSTANTS
    MaxLen,       \* longest base and mod, in bytes
    MaxExpLen     \* longest exponent, in bytes

VARIABLES
    baseB, expB, modB,   \* the input byte strings
    ret,      \* ret_mont of modexp_odd_fixed_size
    r2,       \* r_k of modexp_pow2, then x2 of modexp_even
    x1,       \* the odd part's result (the result itself when mod is odd)
    i,        \* the exponent bit loop counter of either loop
    result,   \* the w result words
    output,   \* the output bytes
    pc

vars == <<baseB, expB, modB, ret, r2, x1, i, result, output, pc>>

NoOutput == <<>>   \* the output has Len(mod) >= 1 bytes

-----------------------------------------------------------------------------
(* Values the code derives from the inputs.                                *)

Base == Load(baseB)
Mod == Load(modB)
ExpVal == BytesValue(expB)
Bw == ExpBitWidth(expB)                  \* exp.bit_width()
MaxInputLen == IF Len(modB) > Len(baseB) THEN Len(modB) ELSE Len(baseB)
\* w = (max(mod_bytes.size(), base_bytes.size()) + 7) / 8
Wn == (MaxInputLen + WordBytes - 1) \div WordBytes
K == Ctz(Mod)                            \* mod_tz
ModOdd == Shr(Mod, K)                    \* mod itself when K = 0
N == ImplWords(Wn)                       \* the fixed size of modexp_odd
NPow2 == WordsFor(K)                     \* num_pow2_words

\* The multiplier of an iteration: base_mont for the odd loop, base_k for
\* the power-of-two loop.
BaseM == BaseMont(Base, ModOdd, N)
BaseK == Base % Radix(NPow2)

-----------------------------------------------------------------------------

Init ==
    /\ baseB \in ByteStrings(MaxLen)
    /\ expB \in ByteStrings(MaxExpLen)
    /\ modB \in {s \in ByteStrings(MaxLen) : BytesValue(s) # 0}
    /\ ret = 0 /\ r2 = 0 /\ x1 = 0 /\ i = 0
    /\ result = 0                        \* std::ranges::fill(result, 0)
    /\ output = NoOutput
    /\ pc = "dispatch"

\* exp.bit_width() == 0: the result is 1 except when mod is 1.
ZeroExponent ==
    /\ pc = "dispatch" /\ Bw = 0
    /\ result' = IF Mod # 1 THEN 1 ELSE 0
    /\ pc' = "store"
    /\ UNCHANGED <<baseB, expB, modB, ret, r2, x1, i, output>>

\* mod odd (mod_tz == 0), or even and not a power of two (shr by mod_tz,
\* then modexp_even starts with modexp_odd on mod_odd): base_mont and the
\* loop from bit_width - 1.
StartOdd ==
    /\ pc = "dispatch" /\ Bw # 0
    /\ K = 0 \/ ~IsPow2(Mod)
    /\ ret' = BaseM
    /\ i' = Bw - 1
    /\ pc' = "odd"
    /\ UNCHANGED <<baseB, expB, modB, r2, x1, result, output>>

\* mod a power of two: modexp_pow2 on the low words of the base.
StartPow2 ==
    /\ pc = "dispatch" /\ Bw # 0
    /\ K # 0 /\ IsPow2(Mod)
    /\ r2' = BaseK
    /\ i' = Bw - 1
    /\ pc' = "pow2"
    /\ UNCHANGED <<baseB, expB, modB, ret, x1, result, output>>

\* ret_mont = mul_amm(ret_mont, ret_mont); if (exp[i - 1]) multiply by base_mont.
OddIteration ==
    /\ pc = "odd" /\ i # 0
    /\ LET sq == MulAMM(ret, ret, ModOdd, N)
       IN  ret' = IF ExpBit(expB, i - 1) = 1 THEN MulAMM(sq, BaseM, ModOdd, N) ELSE sq
    /\ i' = i - 1
    /\ UNCHANGED <<baseB, expB, modB, r2, x1, result, output, pc>>

\* Mutant: the final reduction compares with > instead of >=.
ReduceOnceStrict(r, mod) == IF r > mod THEN r - mod ELSE r

\* if (ret >= mod) ret -= mod;
ReduceOnce(r, mod) == IF r >= mod THEN r - mod ELSE r

\* ret = mul_amm(ret_mont, 1), one reduction, and the copy of its low w
\* words into the result (modexp_odd) or into x1 (modexp_even), which then
\* goes on with modexp_pow2 into the low words of the result.
OddFinish ==
    /\ pc = "odd" /\ i = 0
    /\ x1' = ReduceOnce(MulAMM(ret, 1, ModOdd, N), ModOdd) % Radix(Wn)
    /\ \/ K = 0 /\ result' = x1' /\ pc' = "store" /\ UNCHANGED <<r2, i>>
       \/ K # 0 /\ r2' = BaseK /\ i' = Bw - 1 /\ pc' = "pow2" /\ UNCHANGED result
    /\ UNCHANGED <<baseB, expB, modB, ret, output>>

\* mul(tmp, r_k, r_k); if (exp[i - 1]) mul(tmp, r_k, base_k): truncated to
\* the num_pow2_words words.
Pow2Iteration ==
    /\ pc = "pow2" /\ i # 0
    /\ LET sq == MulTrunc(r2, r2, NPow2)
       IN  r2' = IF ExpBit(expB, i - 1) = 1 THEN MulTrunc(sq, BaseK, NPow2) ELSE sq
    /\ i' = i - 1
    /\ UNCHANGED <<baseB, expB, modB, ret, x1, result, output, pc>>

\* mask_pow2(r_k, k) and the copy into the low words of the result; for
\* an even modulus that is x2, and modexp_even continues.
Pow2Finish ==
    /\ pc = "pow2" /\ i = 0
    /\ \/ IsPow2(Mod) /\ result' = MaskPow2(r2, K, NPow2) /\ pc' = "store"
          /\ UNCHANGED r2
       \/ ~IsPow2(Mod) /\ r2' = MaskPow2(r2, K, NPow2) /\ pc' = "even"
          /\ UNCHANGED result
    /\ UNCHANGED <<baseB, expB, modB, ret, x1, i, output>>

\* The rest of modexp_even: mod_odd_inv = modinv_pow2(mod_odd);
\* sub(x2, x1); y = x2 * mod_odd_inv masked to k bits; r = y * mod_odd; add(r, x1).
EvenCombine ==
    /\ pc = "even"
    /\ LET inv == ModinvPow2(ModOdd, NPow2)
           x2  == SubTrunc(r2, x1 % Radix(NPow2), NPow2)
           y   == MaskPow2(MulTrunc(x2, inv, NPow2), K, NPow2)
       IN  result' = AddTrunc(MulTrunc(y, ModOdd, Wn), x1, Wn)
    /\ pc' = "store"
    /\ UNCHANGED <<baseB, expB, modB, ret, r2, x1, i, output>>

\* store(std::span{output, mod_bytes.size()}, result)
StoreOutput ==
    /\ pc = "store"
    /\ output' = Store(result, Len(modB), Wn)
    /\ pc' = "done"
    /\ UNCHANGED <<baseB, expB, modB, ret, r2, x1, i, result>>

Next ==
    \/ ZeroExponent \/ StartOdd \/ StartPow2
    \/ OddIteration \/ OddFinish
    \/ Pow2Iteration \/ Pow2Finish
    \/ EvenCombine \/ StoreOutput

\* modexp is a sequential call; its loops count i down to 0, so it
\* returns, and only safety is checked here.
Spec == Init /\ [][Next]_vars

-----------------------------------------------------------------------------
(* Properties.                                                             *)

\* The square-and-multiply invariant of modexp_odd_fixed_size: with i bits
\* of the exponent left, ret_mont is an N-word value congruent to
\* base^(exp >> i) * R (R = 2^(W*N)) modulo mod_odd.  It holds only if
\* Exponent::operator[] reads bit i - 1 counting from the least
\* significant bit of the trimmed big-endian bytes, and bit_width() counts
\* the bits of the first non-zero byte.
OddLoopInvariant ==
    pc = "odd" =>
        /\ ret < Radix(N)
        /\ ret % ModOdd = (PowMod(Base, ExpVal \div 2^i, ModOdd) * Radix(N)) % ModOdd

\* assert(ret < mod) at line 450: one conditional subtraction after the
\* conversion mul_amm(ret_mont, 1) leaves the odd result reduced, although
\* ret_mont itself may be any N-word value.
OddResultReduced == x1 < ModOdd

\* modexp implements its abstract specification: the output, once stored,
\* is base^exp mod mod in big-endian bytes of the length of mod, for every
\* path (zero exponent, odd, power of two, even via CRT).
Abs == INSTANCE ModExpAbstract
    WITH output <- IF pc = "done" THEN output ELSE NoOutput

ModExpRefinement == Abs!SafetySpec

=============================================================================
