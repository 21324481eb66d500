CONSTANTS
    p1 = p1
    p2 = p2
    batchKind = batchKind
    urgentKind = urgentKind
    badKind = badKind
    Producers = {p1, p2}
    Kinds = {batchKind, urgentKind, badKind}
    Batched = {batchKind}
    FileKinds = {batchKind}
    Forgettable = {urgentKind}
    Malformed = {badKind}
    Reported = {urgentKind, badKind}
    MaxEvents = 3
    NotifyBatch = 2
    StoreBatch = 2
    MaxTasks = 1
    Modulus = 4
    TokenStep = 1
    TokenMax = 1
    RequestStep = 1
    RequestMax = 1
SPECIFICATION FairSpec
INVARIANTS NothingLost CountersExact BucketFloor
PROPERTIES EventSettles
CHECK_DEADLOCK FALSE
