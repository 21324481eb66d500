CONSTANTS
    c1 = c1
    c2 = c2
    s1 = s1
    e1 = e1
    e2 = e2
    e3 = e3
    f1 = f1
    f2 = f2
    t1 = t1
    t2 = t2
    t3 = t3
    Nil = Nil
    Clients = {c1, c2, s1}
    SdkClients = {s1}
    Threads = {t1}
    Events = {e1, e2, e3}
    Filters = {}
    EventOf <- NoEventOf
    Kind <- ScStickySg
    CollectOnStart = {e2}
    PidOf <- OneProcess
    GroupOf <- OneGroup
    MaxSession = 3
    MaxSessionOneProcess = 1
    Serial = TRUE
    MaxCount = 3
    Faults = {"load", "scSubscribe", "scUnsubscribe"}
SPECIFICATION Spec
INVARIANTS StickyOnce ClientViewAgrees
SYMMETRY ThreadSymmetry
