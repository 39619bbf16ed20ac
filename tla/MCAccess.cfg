SPECIFICATION Spec
CONSTANTS
    a1 = a1
    a2 = a2
    s1 = s1
    s2 = s2
    c1 = c1
    c2 = c2
    None = None
    Admins = {a1, a2}
    Founders = {a1}
    Roles = {"super_admin", "finance"}
    SuperAdmin = "super_admin"
    Permissions <- AllPermissions
    Core <- CorePermissions
    Sessions = {s1, s2}
    Clients = {c1, c2}
    MaxFailures = 1
    MaxPassword = 1
    MaxOperations = 3
SYMMETRY Interchangeable
 
PROPERTIES SomebodyCanAdminister
CHECK_DEADLOCK FALSE
