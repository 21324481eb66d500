CONSTANTS
    c1 = c1
    c2 = c2
    p1 = p1
    e1 = e1
    r1 = r1
    r2 = r2
    n1 = n1
    n2 = n2
    Nil = Nil
    Providers = {p1}
    Clients = {c1, c2}
    Events = {e1}
    Service <- OneService
    ServiceOf <- AllOfOneService
    ProcessOf <- OwnProcess
    MaxProviders = 1
    MaxProviderOneProcess = 1
    MaxClients = 2
    MaxClientOneProcess = 1
    MaxSubscribe = 1
    Notifiers = {}
    Requests = {r1}
    RequestOf <- AllOfP
    Strategy <- BDenies
    MaxRequests = 1
    MaxResults = 1
SPECIFICATION FairSpec
INVARIANTS StrictPolicy
PROPERTIES RequestAnswered
CHECK_DEADLOCK FALSE
