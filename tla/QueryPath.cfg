CONSTANTS
    e1 = e1
    e2 = e2
    e3 = e3
    e4 = e4
    u1 = u1
    q1 = q1
    q2 = q2
    q3 = q3
    q4 = q4
    q5 = q5
    q6 = q6
    v1 = v1
    Native = Native
    Events = {e1, e2, e3, e4, u1}
    Kind <- KindDef
    Rom <- RomDef
    Faults = {"open", "begin", "create", "count", "read", "delete", "insert", "commit", "lib", "query", "load", "send"}
    Queries = {q1, q2, q3, q4, q5, q6}
    Api <- ApiDef
    EnvOf <- EnvDef
    Rulers <- RulersDef
    Window <- WindowDef
    Group <- GroupDef
    InGroup = {e1, e2, e3, e4}
    ById = {e2, e4, u1}
    LibOf <- LibDef
    Yield <- YieldDef
    Chunk = 2
    MaxReply = 3
    Malformed = {u1}
    NoEvent = u1
    Plans <- PlansDef
SPECIFICATION FairSpec
INVARIANTS WithinQuota Durable AllDelivered
PROPERTIES QueryAnswered
CHECK_DEADLOCK FALSE
