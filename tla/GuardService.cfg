CONSTANTS
    None = None
    Zero = Zero
    o1 = o1
    o2 = o2
    o3 = o3
    o4 = o4
    e1 = e1
    e2 = e2
    e3 = e3
    m1 = m1
    m2 = m2
    m3 = m3
    t1 = t1
    t2 = t2
    t3 = t3
    t4 = t4
    t5 = t5
    t6 = t6
    t7 = t7
    t8 = t8
    c1 = c1
    c2 = c2
    c3 = c3
    c4 = c4
    c5 = c5
    c6 = c6
    c7 = c7
    c8 = c8
    c9 = c9
    c10 = c10
    c11 = c11
    c12 = c12
    i1 = i1
    i2 = i2
    i3 = i3
    i4 = i4
    i5 = i5
    r1 = r1
    r2 = r2
    r3 = r3
    r4 = r4
    r5 = r5
    r6 = r6
    r7 = r7
    r8 = r8
    p1 = p1
    p2 = p2
    p3 = p3
    d1 = d1
    d2 = d2
    Names <- NamesDef
    Trusted = {"event", "model", o1, o2, o3}
    Dst <- DstDef
    Text <- TextDef
    Torn = Torn
    Old <- OldDef
    Updates = {c1, c2, c3, c4, c5, c6, c7, c8, c9, c10, c11, c12}
    UFile <- UFileDef
    UText <- UTextDef
    UApi <- UApiDef
    BadArgs = {c10, c11, r8}
    PlainRom = 2
    AuditRom = 7
    Faults = {"denied", "receive", "short", "lib", "open", "full", "rename", "load", "subscribe", "dlopen", "request"}
    Plans <- PlansDef
    Models = {m1, m2, m3}
    Supported = {m1, m2}
    Named = {m1, m2}
    Audit = None
    Requests = {r1, r2, r3, r4, r5, r6, r7, r8}
    Api <- ApiDef
    Model <- ModelDef
    Proc <- ProcDef
    MaxPlugins = 20
    Libraries = {d1, d2}
    Special = None
SPECIFICATION FairSpec
INVARIANTS ConfigInstalled ModelKept
PROPERTIES RequestEnds PluginHears
CHECK_DEADLOCK FALSE
