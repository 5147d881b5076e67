SPECIFICATION Spec
CONSTANTS
    Boxes = {b1, b2}
    Commands = {p1}
    Vmids = {1, 2}
    Relayed = {TRUE, FALSE}
    MaxFaults = 2
    None = None
PROPERTY PendingResolved
CHECK_DEADLOCK FALSE
