\* Two callers and two session objects that use one name in turn: the second
\* object is listed while the owner of the first still ends.  No host vanishes;
\* nothing happens any more once both objects are used up.
CONSTANTS
    None = None
    Names = {n1}
    Users = {u1}
    Clients = {c1, c2}
    Roaming = {}
    Incarnations = {s1, s2}
    Commands = {}
    MaxExec = 2
    WorkerCap = 1
    ViewerCap = 1
    InputCap = 1
SPECIFICATION Spec
CHECK_DEADLOCK FALSE
SYMMETRY Symmetry
INVARIANTS
    TypeOK
    SlotAccounting
    RegistryMatchesOwners
    OneProcessPerName
    FinishedMeansReaped
    WorkerHasOwner
PROPERTIES
    ImplementsLifecycle
