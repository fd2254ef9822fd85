CONSTANTS
    Sess = {s1, s2, s3}
    Tool = {t1, t2}
    First = t1
    None = None
    MaxVersion = 2
    MaxIter = 2
    MaxCalls = 2
    Ops = {"tools", "delete"}
SPECIFICATION Spec
INVARIANTS TraceGapless EffectAtMostOnce WaitingIsAnswerable EndIsLast
CONSTRAINT ServersOffer
SYMMETRY Symmetry
CHECK_DEADLOCK FALSE
