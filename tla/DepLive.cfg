CONSTANTS
    Dep = {d1, d2}
    Node = {n1, n2}
    Gpu = {g1, g2}
    Client = {c1}
    None = None
    HostOf <- EachHost
    Ops = {"deploy", "mock", "external", "delete", "reconcile", "deleteNode"}
    Faults = {"agent_error", "unhealthy", "worker_exception"}
SPECIFICATION FairSpec
INVARIANTS ActiveHoldsGpus
PROPERTIES PendingSettles
CHECK_DEADLOCK FALSE
