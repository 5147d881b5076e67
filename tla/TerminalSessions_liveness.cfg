\* One session object, two callers whose hosts may vanish, and a command that
\* competes for the only permit.
CONSTANTS
    None = None
    Names = {n1}
    Users = {u1}
    Clients = {c1, c2}
    Roaming = {c1, c2}
    Incarnations = {s1}
    Commands = {k1}
    MaxExec = 1
    WorkerCap = 1
    ViewerCap = 1
    InputCap = 1
SPECIFICATION FairSpec
PROPERTIES
    SessionsEnd
    ViewersReleased
