CONSTANTS
    Dep = {d1, d2}
    Node = {n1}
    Gpu = {g1, g2}
    Client = {c1, c2}
    None = None
    HostOf <- OneHost
    Ops = {"deploy", "stop", "delete", "deleteNode"}
    Faults = {"agent_error", "unhealthy"}
SPECIFICATION Spec
INVARIANTS GpusExclusive NoStrandedClaim RoutableIsServing
SYMMETRY Symmetry
CHECK_DEADLOCK FALSE
