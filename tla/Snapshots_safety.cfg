SPECIFICATION Spec
CONSTANTS
    Commands = {p1, p2}
    Copies = {c1}
    Clones = {k1}
    MaxCaptures = 2
    MaxFaults = 2
    None = None
INVARIANTS
    ReadyCopyPrepared
    SourceRestored
    CloneRecoverable
PROPERTIES
    PreparationRemoved
CHECK_DEADLOCK FALSE
