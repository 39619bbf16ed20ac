SPECIFICATION Spec
CONSTANTS
    Months = {1, 2}
    ImportMonth = 2
    Subs = {"s1"}
    Blank = "blank"
    e1 = e1
    e2 = e2
    Employees = {e1, e2}
    Revenues = {0, 1, 2}
    None = None
    MaxEdits = 2
    MaxImports = 2
SYMMETRY Interchangeable
INVARIANTS IncomeInv 
CHECK_DEADLOCK FALSE
