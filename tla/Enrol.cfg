CONSTANTS
    Tok = {t1, t2}
    Name = {a}
    NodeId = {n1, n2}
    Req = {r1, r2}
    None = None
    MaxAttempts = 1
SPECIFICATION FairSpec
INVARIANTS OnePerName SpentHasNode OpenHasAttemptsLeft
PROPERTIES ImplementsTickets RequestsEnd
CHECK_DEADLOCK FALSE
