CONSTANTS
  h1 = h1
  h2 = h2
  u1 = u1
  u2 = u2
  t1 = t1
  t2 = t2
  Handlers = {h1}
  UserIds = {u1, u2}
  Tokens = {t1, t2}
  Names = {"ann", "bob"}
  Passwords = {"p", "q"}
  GrantedRoles = {"admin", "read"}
  Installs <- MCTwoAccounts
  AdminName = "ann"
  LegacyPassword = "p"
  WritesFail = FALSE
  NoUser = NoUser
  NoSession = NoSession
  NoRequest = NoRequest
SPECIFICATION Spec
INVARIANT SomebodyIsAdmin
CHECK_DEADLOCK FALSE
