SPECIFICATION Spec
CONSTANTS
    r1 = r1  r2 = r2  e1 = e1
    NoRow = NoRow  Unread = Unread
    LastMonth = 1
    Employees = {e1}
    Profits <- Losses
    Ids <- ImportedOnly
    Movable <- NoIds
    Requests = {r1, r2}
    MaxActive = 2
    MaxWrites = 1
    Ops = {"generate", "confirm", "lock", "import"}
INVARIANTS CarryUnique
CHECK_DEADLOCK FALSE
