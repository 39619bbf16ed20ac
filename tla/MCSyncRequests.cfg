SPECIFICATION Spec
CONSTANTS
    i1 = i1  i2 = i2  r1 = r1  r2 = r2
    NoOne = NoOne
    Tasks = {1, 2}
    Scheduled = {1}
    Instances = {i1, i2}
    Requests = {r1, r2}
    MaxAttempts = 2
    BatchSize = 2
SYMMETRY Interchangeable
INVARIANTS TypeOK RetryHasAttempt ManualRunIsAlone
PROPERTIES LiveLeaseIsKept TerminalIsFinal
