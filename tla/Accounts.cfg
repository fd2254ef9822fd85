CONSTANTS
    Person = {p1, p2}
    Redirect = {p2}
    Name = {root, b}
    Root = root
    Id = {i1, i2}
    Role = {super, dev}
    Super = super
    Default = {dev}
    Groups <- TwoGroups
    Session = {s1, s2}
    Link = {l1}
    None = None
SPECIFICATION Spec
INVARIANTS OneAccountForLife SignsInAsSelf DisabledStays SuperIsAppointed
SYMMETRY Symmetry
CHECK_DEADLOCK FALSE
