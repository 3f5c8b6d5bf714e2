-------------------------------- MODULE AMM --------------------------------
(***************************************************************************)
(* mul_amm (src/lib/evmone_precompiles/modexp.cpp, lines 393-423) as a     *)
(* state machine over a fixed size of S words: one step per iteration i of *)
(* the CIOS loop, then the conditional t_value -= mod on t_carry.          *)
(*                                                                         *)
(* modexp_odd_fixed_size calls it with x, y each either an earlier AMM     *)
(* result (any S-word value), base_mont (< mod) or 1, and with any odd     *)
(* modulus of up to S words (mod.size() may be smaller than the size N     *)
(* chosen for it), so every x, y < 2^(W*S) and odd mod are inputs.        *)
(***************************************************************************)
EXTENDS ModExpArith

CONSTANT S   \* UintT::num_words

VARIABLES
    mod, x, y,
    st,      \* [t |-> t_value, tc |-> t_carry, d1, d2 |-> the last carries]
    i,       \* the loop counter
    out,     \* the returned value, once pc = "done"
    pc

vars == <<mod, x, y, st, i, out, pc>>

RS == Radix(S)
None == RS

Init ==
    /\ mod \in {m \in 1..RS - 1 : m % 2 = 1}
    /\ x \in 0..RS - 1
    /\ y \in 0..RS - 1
    /\ st = AMMInit
    /\ i = 0
    /\ out = None
    /\ pc = "loop"

\* for (size_t i = 0; i != S; ++i) { ... }
Round ==
    /\ pc = "loop" /\ i # S
    /\ st' = AMMRound(st, x, Word(y, i), mod, MA!ComputeMontModInv(mod), S)
    /\ i' = i + 1
    /\ UNCHANGED <<mod, x, y, out, pc>>

\* if (t_carry) t_value -= mod; return t_value;
Finish ==
    /\ pc = "loop" /\ i = S
    /\ out' = AMMFinal(st, mod, S)
    /\ pc' = "done"
    /\ UNCHANGED <<mod, x, y, st, i>>

Next == Round \/ Finish

Spec == Init /\ [][Next]_vars /\ WF_vars(Next)

-----------------------------------------------------------------------------
(* Properties.                                                             *)

\* assert(!(d1 && d2)) at line 415: in no iteration do both the carry of
\* c1 + t_carry and the carry of sum1 + c3 occur, so t_carry = d1 || d2
\* loses nothing and the accumulator t + t_carry * R stays below R + mod.
AMMCarryExclusive == ~(st.d1 /\ st.d2) /\ st.t + (IF st.tc THEN RS ELSE 0) < RS + mod

\* mul_amm returns an S-word value congruent to x * y * R^-1 modulo mod,
\* where R = 2^(W*S): a single conditional subtraction on t_carry is
\* enough to bring the result below R.
AMMCorrect ==
    pc = "done" => out < RS /\ (out * RS) % mod = (x * y) % mod

\* The comment of mul_amm (line 384) and spec section 4.1: the AMM of two
\* inputs in Montgomery form below 2*mod "produces a result ... in range
\* [0, 2*mod)", so that values may be fed back into it without reduction.
AMMBelowTwoMod == (pc = "done" /\ x < 2 * mod /\ y < 2 * mod) => out < 2 * mod

=============================================================================
