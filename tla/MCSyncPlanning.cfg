SPECIFICATION Spec
CONSTANTS
    everflow1 = everflow1  airwallex = airwallex
    k1 = k1  k2 = k2  d1 = d1
    None = None
    Accounts = {everflow1}
    Providers = {airwallex}
    Checks = {k1, k2}
    Administrators = {d1}
    LastMonth = 2
    Stale = 1
    MaxFaults = 1
    MaxEdits = 1
INVARIANTS PlanningInv
PROPERTIES MonthGetsPlanned
CHECK_DEADLOCK FALSE
