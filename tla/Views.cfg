CONSTANTS
    Conns = {c1, c2}
    MaxUid = 2
    MaxSelects = 2
    MaxOps = 2
SPECIFICATION Spec
SYMMETRY MCSymmetry
CHECK_DEADLOCK FALSE
INVARIANTS   IdleAwake
