CONSTANTS
    c1 = c1
    c2 = c2
    s1 = s1
    e1 = e1
    e2 = e2
    e3 = e3
    f1 = f1
    f2 = f2
    t1 = t1
    t2 = t2
    t3 = t3
    Nil = Nil
    Clients = {c1, s1}
    SdkClients = {s1}
    Threads = {t1, t2}
    Events = {e1, e2, e3}
    Filters = {f1}
    EventOf <- AllOfE2
    Kind <- ScSgUnknown
    CollectOnStart = {}
    PidOf <- OneProcess
    GroupOf <- OneGroup
    MaxSession = 3
    MaxSessionOneProcess = 2
    Serial = TRUE
    MaxCount = 3
    Faults = {}
SPECIFICATION FairSpec
INVARIANTS TypeOK NoOrphanCollector HeldServed FilterApplied
PROPERTIES LeaseSpec CollectorReleased CallReturns
