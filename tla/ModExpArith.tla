---------------------------- MODULE ModExpArith ----------------------------
(***************************************************************************)
(* The word-array helpers of the MODEXP precompile                         *)
(* (src/lib/evmone_precompiles/modexp.cpp, lines 175-602: the dynamic-span *)
(* version).  A byte has ByteBits bits and a word WordBytes bytes (8 and 8 *)
(* in the code); a word array of n words is a natural below 2^(WordBits*n) *)
(* and every truncation to the size of the destination span is a %.        *)
(***************************************************************************)
EXTENDS Integers, Sequences

CONSTANTS
    ByteBits,    \* bits per byte (8)
    WordBytes    \* bytes per word (8: uint64_t)

WordBits == ByteBits * WordBytes
WordBase == 2^WordBits
ByteBase == 2^ByteBits

\* The Montgomery inverse of the low word, evmmax::compute_mont_mod_inv.
MA == INSTANCE ModArith WITH W <- WordBits, S <- 1

\* The value of an n-word array.
Radix(n) == 2^(WordBits * n)
Word(v, j) == (v \div Radix(j)) % WordBase

RECURSIVE BitWidth(_)
BitWidth(v) == IF v = 0 THEN 0 ELSE 1 + BitWidth(v \div 2)   \* std::bit_width

-----------------------------------------------------------------------------
(* load and store: big-endian bytes to and from little-endian words.       *)

RECURSIVE BytesValue(_)
BytesValue(s) ==
    IF s = <<>> THEN 0 ELSE BytesValue(SubSeq(s, 1, Len(s) - 1)) * ByteBase + s[Len(s)]

\* load(r, data): the bytes right-aligned in the words, leading padding zero.
Load(data) == BytesValue(data)

\* store(r, words): the low Len(r) bytes of the words, big-endian, the
\* leading bytes not covered by the words zero-filled.
Store(v, len, nwords) ==
    LET covered == v % Radix(nwords)
    IN  [j \in 1..len |-> (covered \div ByteBase^(len - j)) % ByteBase]

-----------------------------------------------------------------------------
(* class Exponent: a view of the big-endian exponent bytes with the leading *)
(* zero bytes trimmed; bit index 0 is the least significant bit.           *)

RECURSIVE TrimLeadingZeros(_)
TrimLeadingZeros(s) == IF s = <<>> \/ s[1] # 0 THEN s ELSE TrimLeadingZeros(Tail(s))

ExpBitWidth(bytes) ==
    LET t == TrimLeadingZeros(bytes)
    IN  IF t = <<>> THEN 0 ELSE BitWidth(t[1]) + (Len(t) - 1) * ByteBits

\* Mutant: the bit read from the first byte of the view instead of the last.
ExpBitFromFront(bytes, index) ==
    LET t == TrimLeadingZeros(bytes)
    IN  (t[1 + index \div ByteBits] \div 2^(index % ByteBits)) % 2

\* Exponent::operator[]: data_[exp_size - 1 - index / 8] >> (index % 8) & 1
ExpBit(bytes, index) ==
    LET t == TrimLeadingZeros(bytes)
        expSize == (ExpBitWidth(bytes) + ByteBits - 1) \div ByteBits
    IN  (t[expSize - index \div ByteBits] \div 2^(index % ByteBits)) % 2

-----------------------------------------------------------------------------
(* Word-array arithmetic, truncated to the size of the destination.        *)

\* mul(r, x, y): r[] = x[] * y[] truncated to n = r.size() words.
MulTrunc(x, y, n) == (x * y) % Radix(n)
\* add, sub: x[] +/- y[] truncated to the n words of x.
AddTrunc(x, y, n) == (x + y) % Radix(n)
SubTrunc(x, y, n) == (x - y) % Radix(n)
\* neg_add2: x[] = 2 - x[].
NegAdd2(x, n) == (2 - x) % Radix(n)

\* Mutant: the mask taken one bit too wide.
MaskPow2Wide(x, k, n) ==
    LET rem == k % WordBits
    IN  IF rem = 0 THEN x
        ELSE (x % Radix(n - 1)) + (Word(x, n - 1) % 2^(rem + 1)) * Radix(n - 1)

\* mask_pow2(x, k): x.back() &= (1 << k % 64) - 1, for the n words of x.
MaskPow2(x, k, n) ==
    LET rem == k % WordBits
    IN  IF rem = 0 THEN x
        ELSE (x % Radix(n - 1)) + (Word(x, n - 1) % 2^rem) * Radix(n - 1)

\* ctz of a non-zero array, and is_pow2.
RECURSIVE Ctz(_)
Ctz(v) == IF v % 2 = 1 THEN 0 ELSE 1 + Ctz(v \div 2)
IsPow2(v) == v = 2^Ctz(v)

\* shr(r, x, k): x >> k on n words (word shift, then bit shift).
Shr(v, k) == v \div 2^k

\* The number of words covering k bits: (k + 63) / 64.
WordsFor(k) == (k + WordBits - 1) \div WordBits

-----------------------------------------------------------------------------
(* mul_amm (lines 393-423): Almost Montgomery Multiplication over n words. *)
(* The state of the loop is [t |-> t_value, tc |-> t_carry] plus the two   *)
(* carries d1, d2 of the last iteration, which the code asserts are never  *)
(* both set.                                                               *)

AMMInit == [t |-> 0, tc |-> FALSE, d1 |-> FALSE, d2 |-> FALSE]

\* Mutant: t_carry = d2, the carry of t[S-1] + c1 dropped.
AMMRoundDropD1(st, x, yi, mod, mInv, n) ==
    LET a  == st.t + x * yi
        s1 == a \div Radix(n) + (IF st.tc THEN 1 ELSE 0)
        m  == (((a % Radix(n)) % WordBase) * mInv) % WordBase
        z  == (a % Radix(n)) + m * mod
        s2 == (s1 % WordBase) + z \div Radix(n)
    IN  [t  |-> ((z \div WordBase) % Radix(n - 1)) + (s2 % WordBase) * Radix(n - 1),
         tc |-> s2 >= WordBase, d1 |-> s1 >= WordBase, d2 |-> s2 >= WordBase]

\* Mutant: t_carry |= d1 || d2, the carry never cleared between iterations.
AMMRoundStickyCarry(st, x, yi, mod, mInv, n) ==
    LET a  == st.t + x * yi
        s1 == a \div Radix(n) + (IF st.tc THEN 1 ELSE 0)
        m  == (((a % Radix(n)) % WordBase) * mInv) % WordBase
        z  == (a % Radix(n)) + m * mod
        s2 == (s1 % WordBase) + z \div Radix(n)
    IN  [t  |-> ((z \div WordBase) % Radix(n - 1)) + (s2 % WordBase) * Radix(n - 1),
         tc |-> st.tc \/ s1 >= WordBase \/ s2 >= WordBase,
         d1 |-> s1 >= WordBase, d2 |-> s2 >= WordBase]

\* One iteration i, for yi = y[i] and mInv = mod_inv.
AMMRound(st, x, yi, mod, mInv, n) ==
    LET a  == st.t + x * yi                          \* c1 = addmul(t, t, x, y[i])
        s1 == a \div Radix(n) + (IF st.tc THEN 1 ELSE 0)   \* addc(c1, t_carry)
        m  == (((a % Radix(n)) % WordBase) * mInv) % WordBase  \* t[0] * mod_inv
        z  == (a % Radix(n)) + m * mod                \* c2, then c3 = addmul(..)
        s2 == (s1 % WordBase) + z \div Radix(n)      \* addc(sum1, c3)
    IN  [t  |-> ((z \div WordBase) % Radix(n - 1)) + (s2 % WordBase) * Radix(n - 1),
         tc |-> s1 >= WordBase \/ s2 >= WordBase,   \* t_carry = d1 || d2
         d1 |-> s1 >= WordBase, d2 |-> s2 >= WordBase]

\* if (t_carry) t_value -= mod;
AMMFinal(st, mod, n) == IF st.tc THEN (st.t - mod) % Radix(n) ELSE st.t

RECURSIVE AMMRounds(_, _, _, _, _, _, _)
AMMRounds(st, i, x, y, mod, mInv, n) ==
    IF i = n THEN st
    ELSE AMMRounds(AMMRound(st, x, Word(y, i), mod, mInv, n), i + 1, x, y, mod, mInv, n)

MulAMM(x, y, mod, n) ==
    AMMFinal(AMMRounds(AMMInit, 0, x, y, mod, MA!ComputeMontModInv(mod), n), mod, n)

-----------------------------------------------------------------------------
(* modexp_odd: the fixed size chosen for mod.size() words, and the         *)
(* conversion of the base to Montgomery form.                               *)

ImplWords(w) ==
    CASE w <= 2 -> 2 [] w <= 4 -> 4 [] w <= 8 -> 8 [] w <= 16 -> 16 [] w <= 32 -> 32
      [] OTHER -> 1024 \div 8     \* MAX_INPUT_SIZE

\* udivrem(uint<2N>{base} << num_bits, mod).rem
BaseMont(base, mod, n) == (base * Radix(n)) % mod

\* modinv_pow2(r, x): r[0] = modinv(x[0]); then Newton steps over doubling
\* word counts i, each on n = min(2i, size) words.
RECURSIVE NewtonPow2(_, _, _, _)
NewtonPow2(r, i, x, size) ==
    IF i >= size THEN r
    ELSE LET n  == IF 2 * i < size THEN 2 * i ELSE size
             ri == r % Radix(i)
             t1 == NegAdd2(MulTrunc(x % Radix(n), ri, n), n)
         IN  NewtonPow2(MulTrunc(t1, ri, n), 2 * i, x, size)

ModinvPow2(x, size) == NewtonPow2(MA!InvMod(Word(x, 0)), 1, x, size)

-----------------------------------------------------------------------------
(* Reference definitions.                                                  *)

RECURSIVE PowMod(_, _, _)
PowMod(b, e, m) == IF e = 0 THEN 1 % m ELSE (PowMod(b, e - 1, m) * b) % m

\* Byte strings of length 0..n.
ByteStrings(n) == UNION {[1..k -> 0..ByteBase - 1] : k \in 0..n}

=============================================================================
