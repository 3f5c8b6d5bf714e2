\* secp256r1-like toy curve: y^2 = x^3 - 3x + 10 over F_11, prime order
\* 7 < 11 < 2 * 7 (so x1 needs at most one subtraction of ORDER, as for
\* secp256r1), 3-bit hashes (ORDER > 2^(HashBits - 1)), and r, s, qx, qy
\* up to 11, past both ORDER and FIELD_PRIME.
CONSTANTS
    P = 11
    A = 8
    B = 10
    Order = 7
    Gx = 2
    Gy = 1
    HashBits = 3
    InputMax = 11
SPECIFICATION Spec
INVARIANTS
    VerifyMatchesSpec
    T2NotInfinity
CHECK_DEADLOCK FALSE
