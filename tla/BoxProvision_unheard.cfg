SPECIFICATION Spec
CONSTANTS
    Boxes = {b1}
    Commands = {p1}
    Vmids = {1}
    Relayed = {FALSE}
    MaxFaults = 1
    None = None
INVARIANT ProvisioningRetained
CHECK_DEADLOCK FALSE
