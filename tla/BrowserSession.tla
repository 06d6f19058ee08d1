---------------------------- MODULE BrowserSession ----------------------------
(***************************************************************************)
(* Signing in and out in the tabs of one browser (AuthContext.tsx,         *)
(* LoginScreen.tsx, Header.tsx) and what the account screens of a tab do   *)
(* (UsersTab.tsx, ChangePasswordDialog.tsx), against an unsealed server.   *)
(* The tabs share localStorage and nothing else; each keeps in memory the  *)
(* token its requests carry and the account they are for.  Every call is   *)
(* sent, handled, and answered, in that order and with anything between;   *)
(* an answer changes the tab that asked if it is still the same page.      *)
(*                                                                         *)
(* A request of the server is one step here (AuthManager has its parts),   *)
(* and passwords are left out: a login may fail or not.                    *)
(***************************************************************************)
EXTENDS Roles, Naturals, FiniteSets

CONSTANTS Pages, People, Roster, Grants,
          MaxCalls, MaxTokens, MaxEdits,    \* bounds
          NoCall, NoToken, NoOne, Removed

ASSUME SessionAssumption ==
  /\ Roster \subseteq [People -> StoredRole \cup {Removed}]
  /\ Grants \subseteq Role /\ Removed \notin StoredRole
  /\ {MaxCalls, MaxTokens, MaxEdits} \subseteq Nat
  /\ NoToken \notin 1..MaxTokens

VARIABLES
  accounts, tickets, issued,      \* the server
  stored,                          \* localStorage, dcc_session_token
  stage, authToken, currentUser,   \* of each page; "error" is the LoginScreen's matter
  calls,                           \* under way
  edits                            \* bound: what the account screens did

backend     == <<accounts, tickets, issued>>
pagesOf     == <<stage, authToken, currentUser>>
sessionVars == <<backend, stored, pagesOf, calls, edits>>

Live(k) == k # NoToken /\ tickets[k] # NoOne
enrolled == {u \in People : accounts[u] # Removed}

SessionInit ==
  /\ accounts \in Roster
  /\ tickets = [k \in 1..MaxTokens |-> NoOne] /\ issued = 0
  /\ stored = NoToken
  /\ stage = [t \in Pages |-> "closed"] /\ authToken = [t \in Pages |-> NoToken]
  /\ currentUser = [t \in Pages |-> NoOne]
  /\ calls = [n \in 1..MaxCalls |-> NoCall]
  /\ edits = 0

Underway(t) == {n \in 1..MaxCalls : calls[n] # NoCall /\ calls[n].page = t}
Call(t, op, arg) ==
  [page |-> t, op |-> op, arg |-> arg, handled |-> FALSE, answer |-> NoOne]
Send(n, t, op, arg) == calls' = [calls EXCEPT ![n] = Call(t, op, arg)]
(* The first slot that is free, if one is.                                 *)
Free == {n \in 1..MaxCalls : calls[n] = NoCall /\ \A m \in 1..(n - 1) : calls[m] # NoCall}
Over(n) == calls' = [calls EXCEPT ![n] = NoCall]

(* What a page knows of who it acts for, and the screen it is on.          *)
Become(t, k, u, s) == /\ authToken' = [authToken EXCEPT ![t] = k]
                      /\ currentUser' = [currentUser EXCEPT ![t] = u]
                      /\ stage' = [stage EXCEPT ![t] = s]

----------------------------------------------------------------------------
(* The page is opened or loaded again, and forgets what it asked for.      *)
Open(t) ==
  /\ \E n \in Free \cup Underway(t) :
       calls' = [m \in 1..MaxCalls |->
                   IF m = n THEN Call(t, "status", NoToken)
                   ELSE IF m \in Underway(t) THEN NoCall ELSE calls[m]]
  /\ Become(t, NoToken, NoOne, "loading")
  /\ UNCHANGED <<backend, stored, edits>>

(* handleSubmit; "submitting" keeps the screen to one at a time.           *)
SubmitLogin(t, u) ==
  /\ stage[t] \in {"locked", "needs-setup"}
  /\ \A n \in Underway(t) : calls[n].op = "logout"
  /\ \E n \in Free : Send(n, t, IF stage[t] = "locked" THEN "login" ELSE "setup", u)
  /\ UNCHANGED <<backend, stored, pagesOf, edits>>

(* Lock.  What is revoked is the token in localStorage, which another tab  *)
(* may have put there; with none there is nothing to ask.                  *)
Lock(t) ==
  /\ stage[t] = "ready"
  /\ IF stored # NoToken
     THEN /\ \E n \in Free : Send(n, t, "logout", stored)
          /\ UNCHANGED <<stored, pagesOf>>
     ELSE Become(t, NoToken, NoOne, "locked") /\ UNCHANGED <<stored, calls>>
  /\ UNCHANGED <<backend, edits>>

----------------------------------------------------------------------------
(* The server.                                                             *)

Asked(n, op) == calls[n] # NoCall /\ ~calls[n].handled /\ calls[n].op = op
Answered(n, op) == calls[n] # NoCall /\ calls[n].handled /\ calls[n].op = op
Answer(n, a) == calls' = [calls EXCEPT ![n].handled = TRUE, ![n].answer = a]

(* GET status, and POST validate, which answers the session's account.     *)
Look(n) ==
  /\ \/ Asked(n, "status") /\ Answer(n, enrolled # {})
     \/ Asked(n, "validate") /\ Answer(n, tickets[calls[n].arg])
  /\ UNCHANGED <<backend, stored, pagesOf, edits>>

Setup(n) ==
  /\ Asked(n, "setup") /\ enrolled = {}
  /\ accounts' = [accounts EXCEPT ![calls[n].arg] = RoleAdmin]
  /\ Answer(n, TRUE)
  /\ UNCHANGED <<tickets, issued, stored, pagesOf, edits>>

Login(n) ==
  /\ Asked(n, "login") /\ calls[n].arg \in enrolled /\ issued < MaxTokens
  /\ issued' = issued + 1
  /\ LET u == [id |-> calls[n].arg, role |-> normalizeRole(accounts[calls[n].arg])]
     IN  /\ tickets' = [tickets EXCEPT ![issued'] = u]
         /\ Answer(n, [token |-> issued', user |-> u])
  /\ UNCHANGED <<accounts, stored, pagesOf, edits>>

Logout(n) ==
  /\ Asked(n, "logout")
  /\ tickets' = [tickets EXCEPT ![calls[n].arg] = NoOne]
  /\ Answer(n, TRUE)
  /\ UNCHANGED <<accounts, issued, stored, pagesOf, edits>>

(* By its age, or with a restart of the server.                            *)
Expire(k) ==
  /\ k \in 1..issued /\ tickets[k] # NoOne
  /\ tickets' = [tickets EXCEPT ![k] = NoOne]
  /\ UNCHANGED <<accounts, issued, stored, pagesOf, calls, edits>>

----------------------------------------------------------------------------
(* The answers, in the page.                                               *)

(* evaluate.  localStorage is read when the status has answered, and       *)
(* cleared of whatever is in it when that token turns out not to be valid. *)
StatusAnswered(n) ==
  /\ Answered(n, "status")
  /\ LET t == calls[n].page IN
       IF calls[n].answer /\ stored # NoToken
       THEN Send(n, t, "validate", stored) /\ UNCHANGED stage
       ELSE /\ Over(n)
            /\ stage' = [stage EXCEPT ![t] = IF calls[n].answer THEN "locked"
                                             ELSE "needs-setup"]
  /\ UNCHANGED <<backend, stored, authToken, currentUser, edits>>

ValidateAnswered(n) ==
  /\ Answered(n, "validate")
  /\ IF calls[n].answer # NoOne
     THEN Become(calls[n].page, calls[n].arg, calls[n].answer, "ready") /\ UNCHANGED stored
     ELSE Become(calls[n].page, NoToken, NoOne, "locked") /\ stored' = NoToken
  /\ Over(n)
  /\ UNCHANGED <<backend, edits>>

SetupAnswered(n) ==
  /\ Answered(n, "setup")
  /\ Send(n, calls[n].page, "login", calls[n].arg)
  /\ UNCHANGED <<backend, stored, pagesOf, edits>>

LoginAnswered(n) ==
  /\ Answered(n, "login")
  /\ stored' = calls[n].answer.token
  /\ Become(calls[n].page, calls[n].answer.token, calls[n].answer.user, "ready")
  /\ Over(n)
  /\ UNCHANGED <<backend, edits>>

(* The end of logout, whatever became of its call: also when the page has  *)
(* signed in again since.                                                  *)
LogoutOver(n) ==
  /\ calls[n] # NoCall /\ calls[n].op = "logout"
  /\ stored' = NoToken
  /\ Become(calls[n].page, NoToken, NoOne, "locked")
  /\ Over(n)
  /\ UNCHANGED <<backend, edits>>

(* Any other call that fails, refused or lost, leaves the page as it is:   *)
(* a page that was loading stays so.                                       *)
CallFails(n) ==
  /\ calls[n] # NoCall /\ calls[n].op # "logout"
  /\ Over(n)
  /\ UNCHANGED <<backend, stored, pagesOf, edits>>

----------------------------------------------------------------------------
(* What a page that is ready offers, and what it does to the accounts.     *)

role(t) == IF currentUser[t] = NoOne THEN RoleAdmin ELSE currentUser[t].role
offers(t) == [write   |-> role(t) \in {RoleAdmin, RoleReadWrite, RoleWrite},
              secrets |-> role(t) \in {RoleAdmin, RoleReadWrite},
              admin   |-> role(t) = RoleAdmin]
allows(r) == [write |-> canWrite(r), secrets |-> canReadSecrets(r), admin |-> isAdmin(r)]

Admins == {r \in Role : isAdmin(r)}
Readers == {r \in Role : canRead(r)}

(* A request of the page reaches the server, and is let through.           *)
Admitted(t, permitted) ==
  /\ stage[t] = "ready" /\ Live(authToken[t])
  /\ tickets[authToken[t]].role \in permitted
  /\ edits < MaxEdits /\ edits' = edits + 1

EndSessions(of) ==
  tickets' = [k \in 1..MaxTokens |-> IF k \in of THEN NoOne ELSE tickets[k]]
SessionsOf(u) == {k \in 1..issued : tickets[k] # NoOne /\ tickets[k].id = u}

(* The form is there for everybody, the server has the say.                *)
AddUser(t, u, r) ==
  /\ Admitted(t, Admins) /\ accounts[u] = Removed
  /\ accounts' = [accounts EXCEPT ![u] = r]
  /\ UNCHANGED <<tickets, issued, stored, pagesOf, calls>>

chiefs == {u \in enrolled : isAdmin(accounts[u])}

SetRoleOnly(t, u, r) ==                                        \* mutant
  /\ Admitted(t, Admins) /\ offers(t).admin
  /\ u \in enrolled /\ (isAdmin(accounts[u]) /\ r # RoleAdmin => chiefs # {u})
  /\ accounts' = [accounts EXCEPT ![u] = r]
  /\ tickets' = [k \in 1..MaxTokens |-> IF k \in SessionsOf(u)
                    THEN [tickets[k] EXCEPT !.role = r] ELSE tickets[k]]
  /\ UNCHANGED <<issued, stored, pagesOf, calls>>

(* handleRoleChange: "signs this user out immediately".                    *)
SetRole(t, u, r) ==
  /\ Admitted(t, Admins) /\ offers(t).admin
  /\ u \in enrolled /\ (isAdmin(accounts[u]) /\ r # RoleAdmin => chiefs # {u})
  /\ accounts' = [accounts EXCEPT ![u] = r]
  /\ EndSessions(SessionsOf(u))
  /\ UNCHANGED <<issued, stored, pagesOf, calls>>

RemoveUser(t, u) ==
  /\ Admitted(t, Admins) /\ offers(t).admin
  /\ u \in enrolled /\ Cardinality(enrolled) > 1
  /\ accounts' = [accounts EXCEPT ![u] = Removed]
  /\ EndSessions(SessionsOf(u))
  /\ UNCHANGED <<issued, stored, pagesOf, calls>>

(* ChangePasswordDialog, which the menu has for every role.                *)
ChangePassword(t) ==
  /\ Admitted(t, Readers) /\ tickets[authToken[t]].id \in enrolled
  /\ EndSessions(SessionsOf(tickets[authToken[t]].id) \ {authToken[t]})
  /\ UNCHANGED <<accounts, issued, stored, pagesOf, calls>>

SessionNext ==
  \/ \E t \in Pages : \/ Open(t) \/ Lock(t) \/ ChangePassword(t)
                      \/ \E u \in People : \/ SubmitLogin(t, u) \/ RemoveUser(t, u)
                                           \/ \E r \in Grants : AddUser(t, u, r) \/ SetRole(t, u, r)
  \/ \E n \in 1..MaxCalls :
       \/ Look(n) \/ Setup(n) \/ Login(n) \/ Logout(n) \/ CallFails(n)
       \/ StatusAnswered(n) \/ ValidateAnswered(n) \/ SetupAnswered(n) \/ LoginAnswered(n)
       \/ LogoutOver(n)
  \/ \E k \in 1..MaxTokens : Expire(k)

SessionSpec == SessionInit /\ [][SessionNext]_sessionVars
----------------------------------------------------------------------------
SessionTypeOK ==
  /\ \A u \in People : accounts[u] \in StoredRole \cup {Removed}
  /\ stored \in 0..issued \cup {NoToken}
  /\ \A t \in Pages : /\ stage[t] \in {"closed", "loading", "needs-setup", "locked", "ready"}
                      /\ authToken[t] \in 1..issued \cup {NoToken}

(* "Mirrors the server's role gating so the UI doesn't offer 403s"         *)
(* (AuthContext): a page whose session is live is signed in as that        *)
(* session's account and offers exactly what the server allows it, however *)
(* roles, logins and logouts of several tabs interleave.                   *)
OffersMatchServer ==
  \A t \in Pages : stage[t] = "ready" /\ Live(authToken[t]) =>
    /\ currentUser[t] = tickets[authToken[t]]
    /\ offers(t) = allows(tickets[authToken[t]].role)
=============================================================================
