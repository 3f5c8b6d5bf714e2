\* Two 2-bit words (R = 16): the claimed [0, 2*mod) range of the AMM result.
CONSTANTS
    ByteBits = 2
    WordBytes = 1
    S = 2
SPECIFICATION Spec
INVARIANT
    AMMBelowTwoMod
CHECK_DEADLOCK FALSE
