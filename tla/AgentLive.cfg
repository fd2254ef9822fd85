CONSTANTS
    Sess = {s1, s2}
    Tool = {t1}
    First = t1
    None = None
    MaxVersion = 2
    MaxIter = 1
    MaxCalls = 2
    Ops = {"retrieve", "edit", "delete"}
SPECIFICATION FairSpec
INVARIANTS VersionsNumbered GrantsAreAlive
PROPERTIES SessionsEnd
CHECK_DEADLOCK FALSE
