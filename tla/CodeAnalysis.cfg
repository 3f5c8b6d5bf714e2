\* 4-bit bitset words, so that codes of up to 6 bytes span two words and
\* positions up to 9 fall past the code and past the allocation; the
\* opcodes are STOP, JUMPDEST, PUSH1, PUSH2 and PUSH32.
CONSTANTS
    WordBits = 4
    MaxCodeSize = 6
    Opcodes = {0, 91, 96, 97, 127}
    MaxPosition = 9
SPECIFICATION Spec
INVARIANTS
    CheckJumpdestCorrect
