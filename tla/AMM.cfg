\* Three 2-bit words (W = 2, S = 3, R = 64): every odd modulus, every x, y < R.
CONSTANTS
    ByteBits = 2
    WordBytes = 1
    S = 3
SPECIFICATION Spec
INVARIANTS
    AMMCarryExclusive
    AMMCorrect
\* mul_amm terminates: the final state has no successor.
CHECK_DEADLOCK FALSE
