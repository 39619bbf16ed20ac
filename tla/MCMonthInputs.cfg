SPECIFICATION Spec
CONSTANTS
    Months = {1, 2}
    e1 = e1  e2 = e2  e3 = e3
    Employees = {e1, e2, e3}
    Requests = {r1, r2}
    i1 = i1  i2 = i2  i3 = i3  c1 = c1  s1 = s1  h1 = h1  x1 = x1  x2 = x2  f1 = f1
    Ids = {i1, i2, i3, c1, s1, h1, x1, x2, f1}
    Kind <- MCKind
    g1 = g1
    Groups = {g1, g2}
    k1 = k1
    Configs = {k1, k2}
    Rosters <- MCRosters
    Fine = 10
    One = 10
    Amounts = {2000, 16000}
    Rates = {0, 2}
    Facts <- MCFacts
    InitialRows <- MCRows
    InitialConfigs <- MCConfigs
    InitialGroups <- MCGroups
    InitialMembers <- MCMembers
    LockedSets <- MCLocked
    MaxOperations = 2
    None = None
SYMMETRY MCSymmetry
INVARIANTS  CalculationInv
PROPERTIES LockedMonthIsKept
CHECK_DEADLOCK FALSE
