\* The only viewer stops reading while the terminal still writes: its host may vanish,
\* but need not.
CONSTANTS
    None = None
    Names = {n1}
    Users = {u1}
    Clients = {c1}
    Roaming = {c1}
    Incarnations = {s1}
    Commands = {}
    MaxExec = 1
    WorkerCap = 1
    ViewerCap = 1
    InputCap = 1
SPECIFICATION Spec
CHECK_DEADLOCK FALSE
PROPERTIES
    LossEndsNoProcess
