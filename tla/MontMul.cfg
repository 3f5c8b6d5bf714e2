\* Three 2-bit words: R = 64, every odd modulus below R, every x < R, y < mod.
CONSTANTS
    W = 2
    S = 3
SPECIFICATION Spec
INVARIANTS
    TypeOK
    CIOSInvariant
    MulCorrect
\* mul terminates: the final state has no successor.
CHECK_DEADLOCK FALSE
