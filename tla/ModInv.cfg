\* Two 4-bit words: R = 256, every odd modulus 3..255 (prime or not), every x < mod.
CONSTANTS
    W = 4
    S = 2
SPECIFICATION Spec
INVARIANTS
    TypeOK
    BezoutInvariant
    CoefficientsReduced
    InvCorrect
PROPERTIES
    Termination
\* inv terminates: the final state has no successor.
CHECK_DEADLOCK FALSE
