\* secp256r1-like toy curve (a = -3) with 5-bit scalars: as for
\* secp256r1, ORDER > 2^(bits - 1), so at most one reduction.
CONSTANTS
    P = 13
    A = 10
    B = 1
    Order = 19
    ScalarBits = 5
SPECIFICATION Spec
INVARIANTS
    MulLoopInvariant
    MulNoDoubling
    MulCorrect
CHECK_DEADLOCK FALSE
