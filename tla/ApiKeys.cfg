CONSTANTS
    Key = {k1, k2, k3}
    Admin = {a1, a2}
    Grace = {0, 1}
    None = None
    MaxTime = 2
SPECIFICATION FairSpec
INVARIANTS ActiveIsGranted
PROPERTIES RotatedKeyEnds
CHECK_DEADLOCK FALSE
