CONSTANTS
    Sock = {s1, s2}
    Turn = {t1, t2}
    Nil = Nil
SPECIFICATION FairVoiceSpec
INVARIANTS MessagesNumbered
PROPERTIES NobodyHangs
CHECK_DEADLOCK FALSE
