--------------------------- MODULE ModExpAbstract ---------------------------
(***************************************************************************)
(* What the MODEXP precompile promises (evmone::crypto::modexp): for       *)
(* big-endian byte strings base, exp and a non-zero mod, the output is     *)
(* base^exp mod mod as big-endian bytes of the length of mod, in one step. *)
(* An exponent of zero gives 1, or 0 when mod = 1.                        *)
(***************************************************************************)
EXTENDS Integers, Sequences

CONSTANTS
    ByteBits,     \* bits per byte
    MaxLen,       \* longest base and mod, in bytes
    MaxExpLen     \* longest exponent, in bytes

VARIABLES baseB, expB, modB, output

vars == <<baseB, expB, modB, output>>

ByteVals == 0..2^ByteBits - 1
Strings(n) == UNION {[1..k -> ByteVals] : k \in 0..n}

RECURSIVE ValueBE(_)
ValueBE(s) == IF s = <<>> THEN 0 ELSE ValueBE(Tail(s)) + s[1] * 2^(ByteBits * (Len(s) - 1))

EncodeBE(v, len) == [j \in 1..len |-> (v \div 2^(ByteBits * (len - j))) % 2^ByteBits]

\* b^e mod m by square and multiply over the bits of e, from the bottom.
RECURSIVE PowerMod(_, _, _)
PowerMod(b, e, m) ==
    IF e = 0 THEN 1 % m
    ELSE LET h == PowerMod((b * b) % m, e \div 2, m)
         IN  IF e % 2 = 1 THEN (h * b) % m ELSE h

NoOutput == <<>>   \* the output has Len(mod) >= 1 bytes

Init ==
    /\ baseB \in Strings(MaxLen)
    /\ expB \in Strings(MaxExpLen)
    /\ modB \in {s \in Strings(MaxLen) : ValueBE(s) # 0}   \* mod = 0 is rejected before
    /\ output = NoOutput

Compute ==
    /\ output = NoOutput
    /\ output' = EncodeBE(PowerMod(ValueBE(baseB), ValueBE(expB), ValueBE(modB)), Len(modB))
    /\ UNCHANGED <<baseB, expB, modB>>

\* The safety part: the output, when there is one, is the right one.
SafetySpec == Init /\ [][Compute]_vars

Spec == SafetySpec /\ WF_vars(Compute)

=============================================================================
