--------------------------- MODULE MCAccessControl ---------------------------
(* Constants of AccessControl for TLC. *)
EXTENDS AccessControl, TLC
CONSTANTS a1, a2, s1, s2, c1, c2
AllPermissions == {"admin_users.manage", "role.manage", "other"}
CorePermissions == {"admin_users.manage", "role.manage"}
Interchangeable == Permutations(Founders) \cup Permutations(Sessions) \cup Permutations(Clients)
=============================================================================
