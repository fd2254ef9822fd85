CONSTANTS
    Dep = {d1, d2}
    Node = {n1}
    Gpu = {g1, g2}
    Client = {c1}
    None = None
    HostOf <- OneHost
    Ops = {"deploy", "external", "stop", "restart", "delete", "reconcile", "deleteNode"}
    Faults = {"agent_error", "unhealthy", "worker_exception", "crash"}
SPECIFICATION Spec
INVARIANTS ClaimBacksRow
PROPERTIES ImplementsClaims
SYMMETRY Symmetry
CHECK_DEADLOCK FALSE
