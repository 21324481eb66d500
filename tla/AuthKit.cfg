CONSTANTS
    c1 = c1
    p1 = p1
    e1 = e1
    e2 = e2
    d1 = d1
    d2 = d2
    Clients = {c1}
    Providers = {p1}
    Events = {e1}
    Deleters = {d1, d2}
    Retries = 2
    MaxLives = 3
    MaxCalls = 2
    MaxHandles = 1
SPECIFICATION Spec
INVARIANTS KitServed DeletedGone QuietAfterDelete
CHECK_DEADLOCK FALSE
SYMMETRY AnyDeleter
