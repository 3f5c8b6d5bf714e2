\* The modexp run over the four revisions: 2-bit bytes in 2-bit words,
\* base and mod of up to 3 bytes (fixed sizes of 2 and 4 words), exponents
\* of up to 2 bytes with leading zero bytes.
CONSTANTS
    ByteBits = 2
    WordBytes = 1
    MaxLen = 3
    MaxExpLen = 2
SPECIFICATION RevSpec
INVARIANTS
    OddLoopInvariant
    OddResultReduced
    ModinvPow2Inverse
PROPERTIES
    RevisionsRefinement
\* modexp returns: the final state has no successor.
CHECK_DEADLOCK FALSE
