------------------------------ MODULE ModArith ------------------------------
(***************************************************************************)
(* evmmax::ModArith<UintT> and inv_mod (src/unnamed/part_000): Montgomery  *)
(* arithmetic on an S-word unsigned integer with W-bit words.  The code    *)
(* has W = 64 (uint64_t words) and S = UintT::num_words; the model keeps   *)
(* the word structure and shrinks W.  A value is a natural below           *)
(* R = 2^(W*S); every C++ unsigned wrap-around is a % by a power of two.   *)
(*                                                                         *)
(* The word loops of the code are multiply-accumulate chains whose carries *)
(* are exact (umul(a,b) + t + c never exceeds two words), so each chain is *)
(* one addition of naturals here; what is kept is where the chain's final  *)
(* carry goes, which is where a bug would lose a bit.                      *)
(***************************************************************************)
EXTENDS Integers

CONSTANTS
    W,   \* bits per word (64 in the code)
    S    \* words per UintT (UintT::num_words)

ASSUME W \in {2, 4, 8, 16, 32, 64} /\ S \in Nat \ {0}

WordBase == 2^W
NumBits == W * S          \* UintT::num_bits
R == 2^NumBits            \* the Montgomery radix

\* The j-th word (little-endian) of a value: x[j] in intx.
Word(v, j) == (v \div 2^(W * j)) % WordBase

RECURSIVE Log2(_)
Log2(k) == IF k <= 1 THEN 0 ELSE 1 + Log2(k \div 2)

-----------------------------------------------------------------------------
(* inv_mod: inverse of an odd word modulo 2^W by Newton-Raphson from       *)
(* inv = 1, iterated countr_zero(W) = log2(W) times.                       *)

RECURSIVE NewtonInv(_, _, _)
NewtonInv(a, inv, k) ==
    IF k = 0 THEN inv
    ELSE NewtonInv(a, (inv * ((2 - a * inv) % WordBase)) % WordBase, k - 1)

InvMod(a) == NewtonInv(a, 1, Log2(W))

\* Mutant: the inverse not negated, N' = mod[0]^-1 instead of -mod[0]^-1.
MontModInvNotNegated(mod) == InvMod(Word(mod, 0))

\* compute_mont_mod_inv: N' = -mod[0]^-1 mod 2^W, so that mod * N' = -1.
ComputeMontModInv(mod) == (0 - InvMod(Word(mod, 0))) % WordBase

\* compute_r_squared: R^2 % mod by udivrem of 2^(2*num_bits).
ComputeRSquared(mod) == (R * R) % mod

-----------------------------------------------------------------------------
(* ModArith::mul, Coarsely Integrated Operand Scanning.  The accumulator t *)
(* is intx::uint<num_bits + 64>, S+1 words: lo holds t[0..S-1] as one      *)
(* natural, hi the top word t[S].                                          *)

\* Mutant: the carry d of the first half dropped from t[S].
MontRoundDropCarry(t, x, yi, mod, mInv) ==
    LET a  == t.lo + x * yi
        s1 == t.hi + a \div R
        m  == (((a % R) % WordBase) * mInv) % WordBase
        z  == (a % R) + m * mod
        s2 == (s1 % WordBase) + z \div R
    IN  [lo |-> ((z \div WordBase) % 2^(NumBits - W)) + (s2 % WordBase) * 2^(NumBits - W),
         hi |-> s2 \div WordBase]

\* Mutant: the sum t[S] + c stored whole in t[S-1], its carry not split off.
MontRoundCarryNotSplit(t, x, yi, mod, mInv) ==
    LET a  == t.lo + x * yi
        s1 == t.hi + a \div R
        m  == (((a % R) % WordBase) * mInv) % WordBase
        z  == (a % R) + m * mod
        s2 == (s1 % WordBase) + z \div R
    IN  [lo |-> ((z \div WordBase) % 2^(NumBits - W)) + s2 * 2^(NumBits - W),
         hi |-> s1 \div WordBase]

\* One iteration i of the outer loop, for the word yi = y[i] and the
\* precomputed mInv = mod_inv_.
MontRound(t, x, yi, mod, mInv) ==
    LET a  == t.lo + x * yi                        \* t[j] += x[j] * y[i] + c
        s1 == t.hi + a \div R                      \* addc(t[S], c)
        d  == s1 \div WordBase                     \* its carry
        m  == (((a % R) % WordBase) * mInv) % WordBase   \* t[0] * mod_inv_
        z  == (a % R) + m * mod                      \* t[j] + m * mod[j] + c
        s2 == (s1 % WordBase) + z \div R             \* addc(t[S], c)
    IN  \* t[0..S-2] := the words 1..S-1 of z, t[S-1] := s2, t[S] := d + carry
        [lo |-> ((z \div WordBase) % 2^(NumBits - W)) + (s2 % WordBase) * 2^(NumBits - W),
         hi |-> d + s2 \div WordBase]

TValue(t) == t.lo + t.hi * R

\* Mutant: the final conditional subtraction left out.
MulFinalNoSub(t, mod) == TValue(t) % R

\* if (t >= mod_) t -= mod_; return static_cast<UintT>(t);
MulFinal(t, mod) ==
    (IF TValue(t) >= mod THEN TValue(t) - mod ELSE TValue(t)) % R

RECURSIVE MulRounds(_, _, _, _, _, _)
MulRounds(t, i, x, y, mod, mInv) ==
    IF i = S THEN t
    ELSE MulRounds(MontRound(t, x, Word(y, i), mod, mInv), i + 1, x, y, mod, mInv)

Mul(x, y, mod) ==
    MulFinal(MulRounds([lo |-> 0, hi |-> 0], 0, x, y, mod, ComputeMontModInv(mod)), mod)

ToMont(x, mod) == Mul(x, ComputeRSquared(mod), mod)
FromMont(x, mod) == Mul(x, 1, mod)

\* ModArith::add: s = addc(x, y); d = subc(s, mod); (!s.carry && d.carry) ? s : d
Add(x, y, mod) ==
    IF x + y < R /\ x + y < mod THEN (x + y) % R ELSE (((x + y) % R) - mod) % R

\* Mutant: the borrow ignored, the wrapped difference returned.
SubNoAddMod(x, y, mod) == (x - y) % R

\* ModArith::sub: d = subc(x, y); d.carry ? d + mod : d
Sub(x, y, mod) ==
    IF x < y THEN (((x - y) % R) + mod) % R ELSE x - y

-----------------------------------------------------------------------------
(* ModArith::inv: the binary extended Euclidean algorithm on the record    *)
(* [a, b, u, v] of its four locals, u starting at R^2 % mod.               *)

InvInit(x, mod) == [a |-> x, b |-> mod, u |-> ComputeRSquared(mod), v |-> 0]

\* Mutant: the swap forgets to exchange u and v.
OddStepNoSwapUV(st, mod) ==
    LET d == (st.a - st.b) % R
        s == IF st.a < st.b THEN [st EXCEPT !.a = (0 - d) % R, !.b = st.a]
                            ELSE [st EXCEPT !.a = d]
    IN  [s EXCEPT !.u = Sub(s.u, s.v, mod)]

\* Mutant: on a borrow, a := d instead of a := -d.
OddStepNoNegate(st, mod) ==
    LET d == (st.a - st.b) % R
        s == IF st.a < st.b THEN [a |-> d, b |-> st.a, u |-> st.v, v |-> st.u]
                            ELSE [st EXCEPT !.a = d]
    IN  [s EXCEPT !.u = Sub(s.u, s.v, mod)]

\* Mutant: on a borrow, b keeps its value instead of b := a.
OddStepKeepB(st, mod) ==
    LET d == (st.a - st.b) % R
        s == IF st.a < st.b THEN [a |-> (0 - d) % R, b |-> st.b, u |-> st.v, v |-> st.u]
                            ELSE [st EXCEPT !.a = d]
    IN  [s EXCEPT !.u = Sub(s.u, s.v, mod)]

\* a odd: d = a - b; if it borrows, b := a, a := -d and swap(u, v);
\* then u := sub(u, v).
OddStep(st, mod) ==
    LET d == (st.a - st.b) % R
        s == IF st.a < st.b
               THEN [a |-> (0 - d) % R, b |-> st.a, u |-> st.v, v |-> st.u]
               ELSE [st EXCEPT !.a = d]
    IN  [s EXCEPT !.u = Sub(s.u, s.v, mod)]

\* a >>= 1, and u := u / 2 % mod: u >>= 1, adding inv2 = mod/2 + 1 if u was odd.
Halve(st, mod) ==
    [st EXCEPT !.a = @ \div 2,
               !.u = ((@ \div 2) + (IF @ % 2 = 1 THEN (mod \div 2) + 1 ELSE 0)) % R]

\* One iteration of while (a != 0).
InvStep(st, mod) == Halve(IF st.a % 2 = 1 THEN OddStep(st, mod) ELSE st, mod)

\* Mutant: the check b != 1 for a non-invertible x left out.
InvResultNoCheck(st) == st.v

\* After the loop: if (b != 1) v = 0; return v;
InvResult(st) == IF st.b # 1 THEN 0 ELSE st.v

RECURSIVE InvLoop(_, _)
InvLoop(st, mod) == IF st.a = 0 THEN st ELSE InvLoop(InvStep(st, mod), mod)

Inv(x, mod) == InvResult(InvLoop(InvInit(x, mod), mod))

-----------------------------------------------------------------------------
(* Reference definitions the code is checked against.                     *)

RECURSIVE GCD(_, _)
GCD(p, q) == IF q = 0 THEN p ELSE GCD(q, p % q)

OddModuli == {m \in 1..R - 1 : m % 2 = 1}

=============================================================================
