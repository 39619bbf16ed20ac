SPECIFICATION Spec
CONSTANTS
    r1 = r1  r2 = r2  e1 = e1
    NoRow = NoRow  Unread = Unread
    LastMonth = 2
    Employees = {e1}
    Profits <- LossOrProfit
    Ids <- EnteredOnly
    Movable <- Everything
    Requests = {r1}
    MaxActive = 1
    MaxWrites = 1
    Ops = {"generate", "confirm", "lock", "create", "update"}
INVARIANTS SettlementInv
PROPERTIES LockedMonthIsFrozen RolledAsLocked
CHECK_DEADLOCK FALSE
