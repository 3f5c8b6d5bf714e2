\* secp256r1-like toy curve: a = -3, prime order.
CONSTANTS
    P = 13
    A = 10
    B = 1
    Order = 19
SPECIFICATION Spec
INVARIANTS
    AffineAddGroupLaw
    JacobianRefinesAffine
CHECK_DEADLOCK FALSE
