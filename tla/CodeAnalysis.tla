---------------------------- MODULE CodeAnalysis ----------------------------
(***************************************************************************)
(* The JUMPDEST analysis of legacy code: BitsetSpan and                    *)
(* baseline::CodeAnalysis (src/lib/evmone/baseline.hpp), and the scan of  *)
(* baseline::analyze that fills them.  analyze is only declared in this   *)
(* source tree (line 98); its scan and the padding of the executable code *)
(* are modelled from the specification (section 4.6): a linear pass that *)
(* sets the bit of every 0x5B byte and skips the n immediate bytes after  *)
(* each PUSHn, and a copy of the code followed by 33 zero bytes.          *)
(*                                                                         *)
(* One step is one iteration of the scan, the construction of the         *)
(* CodeAnalysis, or one call of check_jumpdest on the finished analysis.  *)
(* Bytes are numbers; the codes are all sequences over a small set of     *)
(* opcodes.                                                                *)
(***************************************************************************)
EXTENDS Integers, SequencesExt, Bitwise

CONSTANTS
    WordBits,      \* BitsetSpan::WORD_BITS (64)
    MaxCodeSize,   \* the longest code analysed
    Opcodes,       \* the bytes codes are made of
    MaxPosition    \* check_jumpdest is asked about 0..MaxPosition

OP_STOP == 0
OP_JUMPDEST == 91     \* 0x5b
OP_PUSH1 == 96        \* 0x60
OP_PUSH32 == 127      \* 0x7f

ASSUME WordBits \in Nat \ {0} /\ Opcodes \subseteq 0..255 /\ MaxPosition >= MaxCodeSize

VARIABLES
    code,     \* the raw code
    bitset,   \* the words of the JUMPDEST bitset, by word index
    i,        \* the position of the scan
    pc,
    pos,      \* the position of the last check_jumpdest call (-1: none yet)
    result    \* what it returned

vars == <<code, bitset, i, pc, pos, result>>

-----------------------------------------------------------------------------
(* From the specification: analyze.                                        *)

\* PUSH1..PUSH32 have n = op - 0x5f immediate bytes; all others none.
ImmediateSize(op) == IF op \in OP_PUSH1..OP_PUSH32 THEN op - (OP_PUSH1 - 1) ELSE 0

\* One bit per code byte, in whole words, all zero.
NumWords(cd) == (Len(cd) + WordBits - 1) \div WordBits

-----------------------------------------------------------------------------
(* BitsetSpan, lines 17-52.                                                *)

\* get_ref(index): word index / WORD_BITS, mask 1 << index % WORD_BITS.
GetRef(index) == [word |-> index \div WordBits, mask |-> 2^(index % WordBits)]

\* set(index): word |= bit_mask.
Set(words, index) ==
    LET ref == GetRef(index)
    IN  [words EXCEPT ![ref.word] = @ | ref.mask]

\* test(index): (word & bit_mask) != 0.  A word past the allocation is
\* other memory, so the bit read there may be either value.
Test(words, index) ==
    LET ref == GetRef(index)
    IN  IF ref.word \in DOMAIN words THEN {(words[ref.word] & ref.mask) # 0}
        ELSE BOOLEAN

-----------------------------------------------------------------------------
(* CodeAnalysis, lines 56-91.                                              *)

\* Mutant: the position not checked against the code size.
CheckJumpdestNoBound(words, size, position) == Test(words, position)

\* check_jumpdest(position): false past the raw code, else the bit.
CheckJumpdest(words, size, position) ==
    IF position >= size THEN {FALSE} ELSE Test(words, position)

Init ==
    /\ code \in BoundedSeq(Opcodes, MaxCodeSize)
    /\ bitset = [w \in 0..NumWords(code) - 1 |-> 0]
    /\ i = 0
    /\ pc = "analyze"
    /\ pos = -1 /\ result = FALSE

\* One iteration of the scan: mark a JUMPDEST, skip a PUSH's data, or
\* step over any other instruction.
AnalyzeStep ==
    /\ pc = "analyze" /\ i < Len(code)
    /\ LET op == code[i + 1]
       IN  \/ op = OP_JUMPDEST /\ bitset' = Set(bitset, i) /\ i' = i + 1
           \/ op # OP_JUMPDEST /\ i' = i + 1 + ImmediateSize(op) /\ UNCHANGED bitset
    /\ UNCHANGED <<code, pc, pos, result>>

\* CodeAnalysis(padded_code, code_size, map) once the scan passed the end.
Construct ==
    /\ pc = "analyze" /\ i >= Len(code)
    /\ pc' = "ready"
    /\ UNCHANGED <<code, bitset, i, pos, result>>

\* A JUMP or JUMPI to position: check_jumpdest(position).
CallCheckJumpdest ==
    /\ pc = "ready"
    /\ \E position \in 0..MaxPosition :
          /\ pos' = position
          /\ result' \in CheckJumpdest(bitset, Len(code), position)
    /\ UNCHANGED <<code, bitset, i, pc>>

Next == AnalyzeStep \/ Construct \/ CallCheckJumpdest

Spec == Init /\ [][Next]_vars

-----------------------------------------------------------------------------
(* Properties.                                                             *)

\* The instruction boundaries by their definition: 0, and the position
\* after each instruction, a PUSHn taking its n data bytes with it.
RECURSIVE InstructionStart(_, _)
InstructionStart(cd, p) ==
    \/ p = 0
    \/ \E s \in 0..p - 1 : InstructionStart(cd, s) /\ s + 1 + ImmediateSize(cd[s + 1]) = p

\* check_jumpdest accepts exactly the positions inside the code that hold
\* 0x5b at an instruction boundary, not in PUSH data: every JUMP target
\* the interpreter is asked about, before the end of the code, past it,
\* and on either side of a bitset word boundary.
CheckJumpdestCorrect ==
    (pc = "ready" /\ pos >= 0) =>
        (result <=> pos < Len(code) /\ code[pos + 1] = OP_JUMPDEST
                    /\ InstructionStart(code, pos))

=============================================================================
