CONSTANTS
    Doc = {d1, d2}
    Sha = {h1}
    Worker = {w1, w2}
    Req = {r1}
    None = None
    Batches = 2
    MaxTries = 1
    Faults = {"storage", "vectors", "crash"}
SPECIFICATION FairSpec
INVARIANTS IndexedIsSearchable VectorsAccounted OriginalStored
PROPERTIES QueueDrains
CHECK_DEADLOCK FALSE
