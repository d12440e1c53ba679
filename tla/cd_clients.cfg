CONSTANTS
    t1 = t1
    t2 = t2
    u1 = u1
    u2 = u2
    id1 = id1
    id2 = id2
    Threads = {t1, t2}
    Users = {u1, u2}
    Identifiers = {id1, id2}
    Filters <- MCFilters
    NoHandle = NoHandle
    Nobody = Nobody
    NoMessage = NoMessage
    MaxSize = 1
    MaxMessages = 3
    MaxRegister = 3
    MaxSetFilter = 1
    MaxClear = 1
SYMMETRY Symmetry
SPECIFICATION Spec
INVARIANTS TypeOK HandlesStable ClientsSeeTheBus
