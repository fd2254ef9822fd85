CONSTANTS
    Name = {p, q}
    Model = {m1, m2}
    Alias = {x1}
    Dep = {1}
    Admin = {a1, a2}
    Call = {c1, c2}
    None = None
    Limit = 1
    MaxTime = 1
SPECIFICATION Spec
INVARIANTS LimitHolds AccountedOnce CallableIsListed NothingDangles
CONSTRAINT OverlapFirst
SYMMETRY Symmetry
CHECK_DEADLOCK FALSE
