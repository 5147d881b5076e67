\* Two callers attach to one session in turn.
CONSTANTS
    None = None
    Names = {n1}
    Users = {u1}
    Clients = {c1, c2}
    Roaming = {}
    Incarnations = {s1}
    Commands = {}
    MaxExec = 1
    WorkerCap = 1
    ViewerCap = 1
    InputCap = 1
SPECIFICATION Spec
CHECK_DEADLOCK FALSE
INVARIANTS
    OneConnection
