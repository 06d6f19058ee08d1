------------------------------ MODULE Accounts ------------------------------
(***************************************************************************)
(* What backend/auth.go promises of accounts and sessions: a server that   *)
(* does every request at once.  A change of an account and the end of the  *)
(* sessions it contradicts are one step here, a login reads the accounts   *)
(* as they are when its session opens, and ids and tokens never come back. *)
(*                                                                         *)
(* `lost` says that the promise is off: somebody saved or logged in from a *)
(* list that had changed since, or a write emptied the file.               *)
(***************************************************************************)
EXTENDS Roles

CONSTANTS UserIds, Names, Passwords, Tokens, NoUser, NoSession

VARIABLES
  accounts, open,   \* the accounts by id, the sessions by token
  ids, tokens,      \* those ever given out
  lost

vars == <<accounts, open, ids, tokens, lost>>

Account == [name : Names, role : StoredRole, pw : Passwords]

Exists(u)      == accounts[u] # NoUser
Taken(n)       == \E u \in UserIds : Exists(u) /\ accounts[u].name = n
Administers(u) == Exists(u) /\ isAdmin(accounts[u].role)
Belongs(t, u)  == open[t] # NoSession /\ open[t].user = u

Init ==
  /\ accounts \in [UserIds -> Account \cup {NoUser}]
  /\ \A u, v \in UserIds :
       Exists(u) /\ Exists(v) /\ accounts[u].name = accounts[v].name => u = v
  /\ open = [t \in Tokens |-> NoSession]
  /\ ids = {u \in UserIds : Exists(u)}
  /\ tokens = {}
  /\ lost = FALSE

(* The setup, the migration of a legacy password, and CreateUser.  "The    *)
(* founding account is necessarily an admin."                              *)
Add(u, account) ==
  /\ ~Taken(account.name)
  /\ (\E v \in UserIds : Exists(v)) \/ account.role = RoleAdmin
  /\ accounts' = [accounts EXCEPT ![u] = account]
  /\ ids' = ids \cup {u}
  /\ UNCHANGED <<open, tokens>>

EndSessionsOf(u) ==
  open' = [t \in Tokens |-> IF Belongs(t, u) THEN NoSession ELSE open[t]]

SetRole(u, role) ==
  /\ Exists(u)
  /\ Administers(u) /\ role # RoleAdmin => \E v \in UserIds \ {u} : Administers(v)
  /\ accounts' = [accounts EXCEPT ![u].role = role]
  /\ EndSessionsOf(u)
  /\ UNCHANGED <<ids, tokens>>

Delete(u) ==
  /\ Exists(u) /\ \E v \in UserIds \ {u} : Exists(v)
  /\ accounts' = [accounts EXCEPT ![u] = NoUser]
  /\ EndSessionsOf(u)
  /\ UNCHANGED <<ids, tokens>>

(* The caller's session, if it is still open, goes on under the new        *)
(* password.                                                               *)
ChangePassword(u, pw, keep) ==
  /\ Exists(u) /\ accounts[u].pw # pw
  /\ open[keep] # NoSession => Belongs(keep, u)
  /\ accounts' = [accounts EXCEPT ![u].pw = pw]
  /\ open' = [t \in Tokens |->
       IF ~Belongs(t, u) THEN open[t]
       ELSE IF t = keep THEN [open[t] EXCEPT !.pw = pw] ELSE NoSession]
  /\ UNCHANGED <<ids, tokens>>

SessionOf(u) ==
  [user |-> u, role |-> normalizeRole(accounts[u].role), pw |-> accounts[u].pw]

(* The session opens, unless a change of the account that is being done    *)
(* ends it at once.                                                        *)
Login(t, u) ==
  /\ Exists(u)
  /\ open' \in {open, [open EXCEPT ![t] = SessionOf(u)]}
  /\ tokens' = tokens \cup {t}
  /\ UNCHANGED <<accounts, ids>>

End(t) ==
  /\ open' = [open EXCEPT ![t] = NoSession]
  /\ UNCHANGED <<accounts, ids, tokens>>

EndAll ==
  /\ open' = [t \in Tokens |-> NoSession]
  /\ UNCHANGED <<accounts, ids, tokens>>

Request ==
  \/ \E u \in UserIds \ ids, account \in Account : Add(u, account)
  \/ \E u \in UserIds :
       \/ \E role \in Role : SetRole(u, role)
       \/ Delete(u)
       \/ \E pw \in Passwords, keep \in Tokens : ChangePassword(u, pw, keep)
       \/ \E t \in Tokens \ tokens : Login(t, u)
  \/ \E t \in Tokens : End(t)
  \/ EndAll

Next == lost' \/ (lost' = lost /\ Request)

Spec == Init /\ [][Next]_vars
=============================================================================
