SPECIFICATION Spec
CONSTANTS
    r1 = r1  r2 = r2  e1 = e1
    NoRow = NoRow  Unread = Unread
    LastMonth = 2
    Employees = {e1}
    Profits <- Losses
    Ids <- ImportedOne
    Movable <- Rolled
    Requests = {r1, r2}
    MaxActive = 2
    MaxWrites = 1
    Ops = {"generate", "confirm", "lock", "import", "update"}
SYMMETRY Interchangeable
INVARIANTS CarryOnlyAfterLock
PROPERTIES SealedIsFinal LockedOnlyFromConfirmed
CHECK_DEADLOCK FALSE
