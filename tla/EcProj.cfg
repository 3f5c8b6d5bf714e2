\* bn254- and secp256k1-like toy curve: a = 0, b = 3, prime order 13,
\* with 6-bit scalars: as for bn254, c may exceed ORDER several times.
CONSTANTS
    P = 7
    A = 0
    B = 3
    Order = 13
    ScalarBits = 6
SPECIFICATION Spec
INVARIANTS
    AffineAddA0GroupLaw
    CompleteAddition
    ProjMulCorrect
CHECK_DEADLOCK FALSE
