\* One box and one client, with one session and one waiting connection, and
\* two faults: a connection may die while the relay restarts.
SPECIFICATION FairSpec
CONSTANTS
    Boxes = {b1}
    Clients = {c1}
    Generations = {g1, g2, g3}
    MaxConnections = 2
    AgentSlots = 2
    MaxFaults = 2
    None = None
PROPERTIES
    AvailabilityRestored
    OfferResolved
