\* bn254-like toy curve: a = 0, b = 3, prime order 13, with the
\* endomorphism (x, y) -> (2 x, y) = 3 * (x, y).  msm's arguments have 4
\* bits, so u, v reach and pass the order; mul's c has 5 bits, so it
\* passes the order twice.
CONSTANTS
    P = 7
    A = 0
    B = 3
    Order = 13
    ScalarBits = 4
    Beta = 2
    Lambda = 3
    MaxScalar = 31
SPECIFICATION MulSpec
INVARIANTS
    MsmLoopInvariant
    Bn254MulCorrect
CHECK_DEADLOCK FALSE
