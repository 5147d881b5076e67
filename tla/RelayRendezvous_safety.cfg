\* One relay, two boxes and two clients, with one slot fewer than needed.
SPECIFICATION Spec
CONSTANTS
    Boxes = {b1, b2}
    Clients = {c1, c2}
    Generations = {g1, g2, g3}
    MaxConnections = 2
    AgentSlots = 2
    MaxFaults = 1
    None = None
SYMMETRY Symmetry
INVARIANTS
    PermitsAccounted
    WaitersServed
    OneClientPerSocket
PROPERTIES
    EntryTakenOrEnded
