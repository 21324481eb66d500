CONSTANTS
    c1 = c1
    e1 = e1
    f1 = f1
    u1 = u1
    u2 = u2
    u3 = u3
    u4 = u4
    e2 = e2
    r1 = r1
    r2 = r2
    Clients = {c1}
    Events = {e1, e2}
    Filters = {f1}
    Subscribers = {u1, u2, u3, u4}
    EventOf <- ThreeE1
    JsSubscribers = {u1, u2}
    CallbackOf <- OwnCallback
    Tasks = {r1, r2}
    Retries = 2
    MaxDeaths = 2
    MaxCalls = 5
    None = None
SPECIFICATION FairSpec
 
PROPERTIES SessionKept SessionGoes
CHECK_DEADLOCK FALSE
CONSTRAINT OneKit
