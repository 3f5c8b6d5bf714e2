------------------------------ MODULE MontMul ------------------------------
(***************************************************************************)
(* ModArith::mul (src/unnamed/part_000, lines 93-127) as a state machine:  *)
(* one step per iteration i of the outer CIOS loop, then the final         *)
(* conditional subtraction.  The state is the accumulator t (S+1 words)    *)
(* and the loop counter i; the inner word loops of an iteration are one    *)
(* step (ModArith!MontRound), as nothing else runs between them.           *)
(*                                                                         *)
(* The operands are those the callers pass: y < mod always (a Montgomery   *)
(* value, r_squared_ or 1), x any S-word value, since to_mont is applied   *)
(* to the unreduced message hash in secp256r1 verify.                      *)
(***************************************************************************)
EXTENDS ModArith

VARIABLES
    mod,   \* mod_
    x, y,  \* the operands
    t,     \* the accumulator, [lo |-> t[0..S-1], hi |-> t[S]]
    i,     \* the outer loop counter
    out,   \* the returned value, once pc = "done"
    pc

vars == <<mod, x, y, t, i, out, pc>>

None == R   \* no value yet: outside 0..R-1

TypeOK ==
    /\ mod \in OddModuli
    /\ x \in 0..R - 1 /\ y \in 0..mod - 1
    /\ t \in [lo : 0..R - 1, hi : 0..WordBase - 1]
    /\ i \in 0..S
    /\ out \in 0..R - 1 \cup {None}
    /\ pc \in {"loop", "done"}

Init ==
    /\ mod \in OddModuli
    /\ x \in 0..R - 1
    /\ y \in 0..mod - 1
    /\ t = [lo |-> 0, hi |-> 0]
    /\ i = 0
    /\ out = None
    /\ pc = "loop"

\* for (size_t i = 0; i != S; ++i) { ... }
Round ==
    /\ pc = "loop" /\ i # S
    /\ t' = MontRound(t, x, Word(y, i), mod, ComputeMontModInv(mod))
    /\ i' = i + 1
    /\ UNCHANGED <<mod, x, y, out, pc>>

\* if (t >= mod_) t -= mod_; return static_cast<UintT>(t);
Finish ==
    /\ pc = "loop" /\ i = S
    /\ out' = MulFinal(t, mod)
    /\ pc' = "done"
    /\ UNCHANGED <<mod, x, y, t, i>>

Next == Round \/ Finish

Spec == Init /\ [][Next]_vars /\ WF_vars(Next)

-----------------------------------------------------------------------------
(* Properties.                                                             *)

\* The CIOS loop invariant: after i iterations, with P = 2^(W*i), the
\* accumulator t satisfies t * P = x * (y mod P) + M * mod for some
\* 0 <= M < P.  It is what makes the word-by-word reduction (the product
\* m = t[0] * mod_inv_, the shift by one word, the carries d and
\* tmp.carry kept in t[S]) a Montgomery reduction, and it bounds t below
\* x + mod, so t[S] never overflows.
CIOSInvariant ==
    LET P == 2^(W * i)
        T == TValue(t)
        e == T * P - x * (y % P)
    IN  e >= 0 /\ e % mod = 0 /\ e < P * mod

\* mul returns x * y * R^-1 mod mod, fully reduced, after one conditional
\* subtraction, for every x < R (not only x < mod) and y < mod.
MulCorrect ==
    pc = "done" => out < mod /\ (out * R) % mod = (x * y) % mod

=============================================================================
