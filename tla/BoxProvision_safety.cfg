SPECIFICATION Spec
CONSTANTS
    Boxes = {b1, b2}
    Commands = {p1, p2}
    Vmids = {1, 2}
    Relayed = {TRUE, FALSE}
    MaxFaults = 1
    None = None
SYMMETRY Symmetry
INVARIANTS
    TypeOK
    InterruptedRepairable
    TemplateSafe
    NoDuplicateBox
    CleanupFollowsDeletion
CHECK_DEADLOCK FALSE
