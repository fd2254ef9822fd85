CONSTANTS
    Node = {n1, n2}
    Card = {g1, g2}
    Slot = {0}
    None = None
    Check = {c1}
    Checked = {n1}
    New = {g1}
    Box = {b1, b2}
    HostOf <- OneHost
    Managed = {b1}
    Operator = {o1}
    Command = {"start", "stop", "restart", "remove", "remove, forced"}
    Sweep = Sweep
    Changes = 1
    Hiccups = 0
SPECIFICATION FairSpec
PROPERTIES ComesBack SilentGoesOffline InventoryConverges
CHECK_DEADLOCK FALSE
