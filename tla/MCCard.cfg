SPECIFICATION Spec
CONSTANTS
    c1 = c1
    e1 = e1
    e2 = e2
    w1 = w1
    w2 = w2
    d1 = d1
    d2 = d2
    None = None
    Cards = {c1}
    Emails = {"m"}
    Employees = {e1, e2}
    AliasIds = {1, 2}
    ExclusionIds = {1, 2}
    Admins = {d1, d2}
    Workers = {w1, w2}
    MaxDate = 2
    MaxOperations = 3
    Transactions <- OneTransaction
    Amounts = {"10", "20"}
    TargetCount = 1
    Crashes = TRUE
SYMMETRY Interchangeable
INVARIANTS CardsInv 
PROPERTIES UndisturbedInventoryFindsOwners BookedSpendIsKept
CHECK_DEADLOCK FALSE
