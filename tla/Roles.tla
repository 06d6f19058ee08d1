------------------------------- MODULE Roles -------------------------------
(***************************************************************************)
(* The permission levels of backend/roles.go.  A stored role may be blank  *)
(* (an account written before roles existed); every check goes through     *)
(* normalizeRole, which reads a blank as an administrator.                 *)
(***************************************************************************)

RoleAdmin     == "admin"
RoleReadWrite == "readwrite"
RoleRead      == "read"
RoleWrite     == "write"
RoleBlank     == ""

Role       == {RoleAdmin, RoleReadWrite, RoleRead, RoleWrite}  \* validateRole
StoredRole == Role \cup {RoleBlank}

normalizeRole(r) == IF r \in Role THEN r ELSE RoleAdmin

canRead(r)        == normalizeRole(r) \in {RoleAdmin, RoleReadWrite, RoleRead}
canWrite(r)       == normalizeRole(r) \in {RoleAdmin, RoleReadWrite, RoleWrite}
canReadSecrets(r) == normalizeRole(r) \in {RoleAdmin, RoleReadWrite}
isAdmin(r)        == normalizeRole(r) = RoleAdmin
=============================================================================
