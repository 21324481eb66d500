CONSTANTS
    p1 = p1
    p2 = p2
    s1 = s1
    s2 = s2
    a1 = a1
    e1 = e1
    e2 = e2
    e3 = e3
    Events = {e1, e2, e3}
    Faults = {"load","stop"}
    Processes = {p1, p2}
    Subscribers = {s1, s2}
    KitOf <- TwoKits
    EventOf <- BothE1
    Apps = {a1}
    CanStart = {e1, e2}
    Local = {e3}
    Retries = 1
    MaxDeaths = 2
    MaxCalls = 3
    SaMayFail = TRUE
    None = None
SPECIFICATION Spec
INVARIANTS RefExact Served KitAgrees
CHECK_DEADLOCK FALSE
