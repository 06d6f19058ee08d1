CONSTANTS
  h1 = h1
  h2 = h2
  u1 = u1
  u2 = u2
  t1 = t1
  t2 = t2
  Handlers = {h1, h2}
  UserIds = {u1, u2}
  Tokens = {t1, t2}
  Names = {"ann", "bob"}
  Passwords = {"p", "q"}
  GrantedRoles = {"admin", "read"}
  Installs <- MCInstalls
  AdminName = "ann"
  LegacyPassword = "p"
  WritesFail = TRUE
  NoUser = NoUser
  NoSession = NoSession
  NoRequest = NoRequest
SPECIFICATION Spec
SYMMETRY MCSymmetry
INVARIANTS
  UniqueNames
  SessionsMatchAccounts
PROPERTIES
  KeepsAnAccount
  ImplementsAccounts
