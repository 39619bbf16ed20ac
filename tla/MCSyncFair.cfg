SPECIFICATION MCSpec
CONSTANTS
    i1 = i1  i2 = i2  r1 = r1  r2 = r2
    NoOne = NoOne
    Tasks = {1, 2}
    Scheduled = {1, 2}
    Instances = {i1}
    Requests = {r1}
    MaxAttempts = 2
    BatchSize = 2
    a1 = a1  a2 = a2
    None = None
    Callers = {a1, a2}
    CalledClients = {"photonpay", "airwallex", "everflow"}
    Interruptions = {"timeout", "forbidden"}
    Lives = {45}
    RowsAtStart = 1
    MaxRows = 2
    RowsPerPage = 1
    PageLimit = 2
    MaxTokens = 3
    MaxRevoked = 1
    MaxCalls = 2
    MaxClock = 60
INVARIANTS CallsInv
PROPERTIES ScheduledTaskSettles CallsEnd
CHECK_DEADLOCK FALSE
