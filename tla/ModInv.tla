------------------------------ MODULE ModInv ------------------------------
(***************************************************************************)
(* ModArith::inv (src/unnamed/part_000, lines 149-211) as a state machine: *)
(* one step per iteration of while (a != 0), then the return.  The locals  *)
(* a, b, u, v of the code are the variables; the input x is a Montgomery   *)
(* value (x < mod) and mod is odd and at least 3 (the two asserts).        *)
(***************************************************************************)
EXTENDS ModArith

VARIABLES
    mod, x,        \* mod_ and the argument
    a, b, u, v,    \* the locals of inv
    out, pc        \* the returned value, once pc = "done"

vars == <<mod, x, a, b, u, v, out, pc>>

None == R

Locals == [a |-> a, b |-> b, u |-> u, v |-> v]

RR == ComputeRSquared(mod)

\* a and b stay within 0..mod (neither subtraction nor shift can push them
\* past the modulus), b stays odd and positive, u and v are S-word values.
TypeOK ==
    /\ mod \in OddModuli /\ mod >= 3 /\ x \in 0..mod - 1
    /\ a \in 0..mod /\ b \in 1..mod /\ b % 2 = 1
    /\ u \in 0..R - 1 /\ v \in 0..R - 1
    /\ out \in 0..R - 1 \cup {None}
    /\ pc \in {"loop", "done"}

Init ==
    /\ mod \in {m \in OddModuli : m >= 3}
    /\ x \in 0..mod - 1
    /\ LET st == InvInit(x, mod)
       IN  a = st.a /\ b = st.b /\ u = st.u /\ v = st.v
    /\ out = None
    /\ pc = "loop"

\* One iteration of the loop body: the odd-a subtraction (with the swap on
\* a borrow) and u := sub(u, v), then the halving of a and of u.
Iterate ==
    /\ pc = "loop" /\ a # 0
    /\ LET st == InvStep(Locals, mod)
       IN  a' = st.a /\ b' = st.b /\ u' = st.u /\ v' = st.v
    /\ UNCHANGED <<mod, x, out, pc>>

\* if (b != 1) v = 0; return v;
Return ==
    /\ pc = "loop" /\ a = 0
    /\ out' = InvResult(Locals)
    /\ pc' = "done"
    /\ UNCHANGED <<mod, x, a, b, u, v>>

Next == Iterate \/ Return

\* inv is a sequential loop: weak fairness only says it keeps stepping.
Spec == Init /\ [][Next]_vars /\ WF_vars(Next)

-----------------------------------------------------------------------------
(* Properties.                                                             *)

\* The Bezout relations of the extended binary GCD, scaled by R^2 because u
\* starts at r_squared_: u * x = a * R^2 and v * x = b * R^2 (mod mod).
\* They survive the swap of (a, b) together with (u, v), the modular
\* subtraction u := sub(u, v) and the halving u := u/2 % mod with the
\* inv2 = mod/2 + 1 correction.
BezoutInvariant ==
    /\ (u * x - a * RR) % mod = 0
    /\ (v * x - b * RR) % mod = 0

\* u and v stay reduced (< mod) on every iteration: sub requires its
\* arguments below mod, and u >> 1 plus inv2 must not reach mod.
CoefficientsReduced == u < mod /\ v < mod

\* inv returns x^-1 in Montgomery form (out * x = R^2 mod mod) when
\* gcd(x, mod) = 1, and 0 when x is not invertible (including x = 0).
InvCorrect ==
    pc = "done" =>
        IF GCD(x, mod) = 1 THEN out < mod /\ (out * x) % mod = RR % mod
                           ELSE out = 0

\* The loop ends for every input: a reaches 0.
Termination == <>(pc = "done")

=============================================================================
