---------------------------- MODULE BrowserProofs ----------------------------
(***************************************************************************)
(* Proofs about three parts of the browser: about BrowserSession, for any  *)
(* pages and people, and any number of calls under way, of sessions, and   *)
(* of changes to the accounts; about ProjectTransfer, for any items and    *)
(* references between them, and any number of edits, imports and lists     *)
(* under way; and about ResourceForms, for any records, bindings and       *)
(* number of submissions, keystrokes and switches.                         *)
(***************************************************************************)
EXTENDS BrowserSession, ProjectTransfer, ResourceForms, TLAPS

Stages == {"closed", "loading", "needs-setup", "locked", "ready"}
Account == [id : People, role : Role]

ServerOK == /\ accounts \in [People -> StoredRole \cup {Removed}]
            /\ tickets \in [1..MaxTokens -> Account \cup {NoOne}]
            /\ issued \in 0..MaxTokens

(* What a page or a call knows of a session, given the server's tickets:   *)
(* it has been opened, and is that account's unless it has ended.          *)
Known(k, u, tick, n) == k \in 1..n /\ tick[k] \in {u, NoOne}

(* A call, and what its answer says.                                       *)
CallOK(c, tick, n) ==
  /\ c = [page |-> c.page, op |-> c.op, arg |-> c.arg, handled |-> c.handled,
          answer |-> c.answer]
  /\ c.page \in Pages
  /\ c.op \in {"login", "setup"} => c.arg \in People
  /\ c.op \in {"validate", "logout"} => c.arg \in 1..n
  /\ c.op = "validate" /\ c.handled => Known(c.arg, c.answer, tick, n)
  /\ c.op = "login" /\ c.handled => Known(c.answer.token, c.answer.user, tick, n)

CallsOK == /\ calls = [m \in 1..MaxCalls |-> calls[m]]
           /\ \A m \in 1..MaxCalls : calls[m] # NoCall => CallOK(calls[m], tickets, issued)

PagesOK ==
  /\ stage \in [Pages -> Stages]
  /\ authToken = [t \in Pages |-> authToken[t]]
  /\ currentUser = [t \in Pages |-> currentUser[t]]
  /\ \A t \in Pages : authToken[t] # NoToken => Known(authToken[t], currentUser[t], tickets, issued)

StoredOK == stored \in 1..issued \cup {NoToken}

Inv == ServerOK /\ CallsOK /\ PagesOK /\ StoredOK

(* What a step may do to the sessions: open some, and end some.            *)
Later == /\ ServerOK' /\ issued <= issued'
         /\ \A k \in 1..issued : tickets'[k] \in {tickets[k], NoOne}

LEMMA KnownLater ==
  ASSUME Inv, Later, NEW k, NEW u, Known(k, u, tickets, issued)
  PROVE  Known(k, u, tickets', issued')
  BY SessionAssumption DEF Known, Later, Inv, ServerOK

LEMMA CallLater ==
  ASSUME Inv, Later, NEW c, CallOK(c, tickets, issued)
  PROVE  CallOK(c, tickets', issued')
<1>1. c.op \in {"validate", "logout"} => c.arg \in 1..issued'
  BY SessionAssumption DEF CallOK, Later, Inv, ServerOK
<1>2. c.op = "validate" /\ c.handled => Known(c.arg, c.answer, tickets', issued')
  BY KnownLater DEF CallOK
<1>3. c.op = "login" /\ c.handled => Known(c.answer.token, c.answer.user, tickets', issued')
  BY KnownLater DEF CallOK
<1> QED BY <1>1, <1>2, <1>3 DEF CallOK

(* Calls that go on, of which one is sent, answered or over.               *)
LEMMA CallsLater ==
  ASSUME Inv, Later, UNCHANGED calls
  PROVE  CallsOK'
  BY CallLater DEF Inv, CallsOK

LEMMA OneCall ==
  ASSUME Inv, Later, NEW n \in 1..MaxCalls, NEW c,
         c # NoCall => CallOK(c, tickets', issued'), calls' = [calls EXCEPT ![n] = c]
  PROVE  CallsOK'
<1>1. calls' = [m \in 1..MaxCalls |-> IF m = n THEN c ELSE calls[m]]
  BY DEF Inv, CallsOK
<1>2. ASSUME NEW m \in 1..MaxCalls, calls'[m] # NoCall
      PROVE  CallOK(calls'[m], tickets', issued')
  <2>1. CASE m = n
    BY <1>1, <1>2, <2>1
  <2>2. CASE m # n
    BY <1>1, <1>2, <2>2, CallLater DEF Inv, CallsOK
  <2> QED BY <2>1, <2>2
<1> QED BY <1>1, <1>2 DEF CallsOK

LEMMA PagesLater ==
  ASSUME Inv, Later, UNCHANGED pagesOf
  PROVE  PagesOK'
  BY KnownLater DEF Inv, PagesOK, pagesOf

LEMMA BecomeLater ==
  ASSUME Inv, Later, NEW t \in Pages, NEW k, NEW u, NEW s \in Stages,
         k # NoToken => Known(k, u, tickets', issued'), Become(t, k, u, s)
  PROVE  PagesOK'
<1>1. /\ stage' \in [Pages -> Stages]
      /\ authToken' = [v \in Pages |-> IF v = t THEN k ELSE authToken[v]]
      /\ currentUser' = [v \in Pages |-> IF v = t THEN u ELSE currentUser[v]]
  BY DEF Become, Inv, PagesOK
<1>2. ASSUME NEW v \in Pages, authToken'[v] # NoToken
      PROVE  Known(authToken'[v], currentUser'[v], tickets', issued')
  <2>1. CASE v = t
    BY <1>1, <1>2, <2>1
  <2>2. CASE v # t
    BY <1>1, <1>2, <2>2, KnownLater DEF Inv, PagesOK
  <2> QED BY <2>1, <2>2
<1> QED BY <1>1, <1>2 DEF PagesOK

(* A step of a page leaves the server alone; so does a call that is sent.  *)
LEMMA StillLater ==
  ASSUME Inv, UNCHANGED backend
  PROVE  Later
  BY DEF Inv, ServerOK, Later, backend

LEMMA StoredLater ==
  ASSUME Inv, Later, UNCHANGED stored
  PROVE  StoredOK'
  BY SessionAssumption DEF Inv, ServerOK, Later, StoredOK

LEMMA FreshCall ==
  ASSUME NEW t \in Pages, NEW op, NEW arg, NEW tick, NEW n,
         op \in {"login", "setup"} => arg \in People,
         op \in {"validate", "logout"} => arg \in 1..n
  PROVE  CallOK(Call(t, op, arg), tick, n)
  BY DEF CallOK, Call

LEMMA CallChanged ==
  ASSUME NEW c, NEW b, NEW a,
         c = [page |-> c.page, op |-> c.op, arg |-> c.arg, handled |-> c.handled,
              answer |-> c.answer]
  PROVE  [c EXCEPT !.handled = b, !.answer = a]
           = [page |-> c.page, op |-> c.op, arg |-> c.arg, handled |-> b, answer |-> a]
<1> DEFINE e == [c EXCEPT !.handled = b, !.answer = a]
<1>1. DOMAIN c = {"page", "op", "arg", "handled", "answer"}
  OBVIOUS
<1>2. e = [f \in DOMAIN c |-> IF f = "answer" THEN a ELSE IF f = "handled" THEN b ELSE c[f]]
  OBVIOUS
<1>3. e.page = c.page /\ e.op = c.op /\ e.arg = c.arg /\ e.handled = b /\ e.answer = a
  BY <1>1
<1> QED BY <1>1, <1>2, <1>3

(* A call that is handled.                                                 *)
LEMMA AnswerOK ==
  ASSUME Inv, Later, NEW n \in 1..MaxCalls, NEW a, calls[n] # NoCall, Answer(n, a),
         calls[n].op = "validate" => Known(calls[n].arg, a, tickets', issued'),
         calls[n].op = "login" => Known(a.token, a.user, tickets', issued')
  PROVE  CallsOK'
<1> DEFINE c == calls[n]
           d == [page |-> c.page, op |-> c.op, arg |-> c.arg, handled |-> TRUE, answer |-> a]
<1>1. CallOK(c, tickets', issued')
  BY CallLater DEF Inv, CallsOK
<1>2. calls' = [calls EXCEPT ![n] = d]
  <2>1. calls' = [calls EXCEPT ![n] = [c EXCEPT !.handled = TRUE, !.answer = a]]
    BY DEF Answer, Inv, CallsOK
  <2>2. [c EXCEPT !.handled = TRUE, !.answer = a] = d
    BY <1>1, CallChanged DEF CallOK
  <2> QED BY <2>1, <2>2
<1>3. CallOK(d, tickets', issued')
  BY <1>1 DEF CallOK
<1> QED BY <1>2, <1>3, OneCall

LEMMA InitInv == ASSUME SessionInit PROVE Inv
<1>1. ServerOK
  BY SessionAssumption DEF SessionInit, ServerOK
<1> QED BY <1>1 DEF SessionInit, Inv, CallsOK, PagesOK, StoredOK, Stages

(* What pages send.                                                        *)
LEMMA OpenInv == ASSUME Inv, NEW t \in Pages, Open(t) PROVE Inv'
<1>1. Later
  BY StillLater DEF Open
<1>2. PICK n \in Free \cup Underway(t) :
        calls' = [m \in 1..MaxCalls |->
                    IF m = n THEN Call(t, "status", NoToken)
                    ELSE IF m \in Underway(t) THEN NoCall ELSE calls[m]]
  BY DEF Open
<1>3. ASSUME NEW m \in 1..MaxCalls, calls'[m] # NoCall
      PROVE  CallOK(calls'[m], tickets', issued')
  <2>1. CASE m = n
    BY <1>2, <2>1, FreshCall
  <2>2. CASE m # n
    <3>1. calls'[m] = calls[m]
      BY <1>2, <1>3, <2>2
    <3> QED BY <1>1, <1>3, <3>1, CallLater DEF Inv, CallsOK
  <2> QED BY <2>1, <2>2
<1>4. CallsOK'
  BY <1>2, <1>3 DEF CallsOK
<1>5. PagesOK'
  BY <1>1, BecomeLater DEF Open, Stages
<1> QED BY <1>1, <1>4, <1>5, StoredLater DEF Open, Inv, Later

LEMMA SendInv ==
  ASSUME Inv, NEW t \in Pages, (\E u \in People : SubmitLogin(t, u)) \/ Lock(t)
  PROVE  Inv'
<1>1. Later /\ UNCHANGED stored
  BY StillLater DEF SubmitLogin, Lock
<1>2. Free \subseteq 1..MaxCalls
  BY DEF Free
<1>3. CASE \E u \in People : SubmitLogin(t, u)
  <2>1. PICK u \in People, n \in Free :
          Send(n, t, IF stage[t] = "locked" THEN "login" ELSE "setup", u)
    BY <1>3 DEF SubmitLogin
  <2>2. CallsOK'
    BY <1>1, <1>2, <2>1, FreshCall, OneCall DEF Send
  <2>3. PagesOK'
    BY <1>1, <1>3, PagesLater DEF SubmitLogin
  <2> QED BY <1>1, <2>2, <2>3, StoredLater DEF Inv, Later
<1>4. CASE Lock(t) /\ stored # NoToken
  <2>1. PICK n \in Free : Send(n, t, "logout", stored)
    BY <1>4 DEF Lock
  <2>2. stored \in 1..issued'
    BY <1>1, <1>4, SessionAssumption DEF Inv, StoredOK, ServerOK, Later
  <2>3. CallsOK'
    BY <1>1, <1>2, <2>1, <2>2, FreshCall, OneCall DEF Send
  <2>4. PagesOK'
    BY <1>1, <1>4, PagesLater DEF Lock
  <2> QED BY <1>1, <2>3, <2>4, StoredLater DEF Inv, Later
<1>5. CASE Lock(t) /\ stored = NoToken
  <2>1. PagesOK'
    BY <1>1, <1>5, BecomeLater DEF Lock, Stages
  <2>2. CallsOK'
    BY <1>1, <1>5, CallsLater DEF Lock
  <2> QED BY <1>1, <2>1, <2>2, StoredLater DEF Inv, Later
<1> QED BY <1>3, <1>4, <1>5

(* What the server does with a call.                                       *)
LEMMA HandleInv ==
  ASSUME Inv, NEW n \in 1..MaxCalls, Look(n) \/ Setup(n) \/ Login(n) \/ Logout(n)
  PROVE  Inv'
<1>1. calls[n] # NoCall /\ UNCHANGED stored /\ UNCHANGED pagesOf
  BY DEF Look, Setup, Login, Logout, Asked
<1>2. CallOK(calls[n], tickets, issued)
  BY <1>1 DEF Inv, CallsOK
<1>3. SUFFICES Later /\ CallsOK'
  BY <1>1, PagesLater, StoredLater DEF Inv, Later
<1>4. CASE Look(n)
  <2>1. Later /\ UNCHANGED <<tickets, issued>>
    BY <1>4, StillLater DEF Look, backend
  <2>2. CASE Asked(n, "status")
    BY <1>1, <1>4, <2>1, <2>2, AnswerOK DEF Look, Asked
  <2>3. CASE Asked(n, "validate")
    <3>1. Known(calls[n].arg, tickets[calls[n].arg], tickets', issued')
      BY <1>2, <2>1, <2>3 DEF CallOK, Asked, Known
    <3>2. Answer(n, tickets[calls[n].arg])
      BY <1>4, <2>3 DEF Look, Asked
    <3> QED BY <1>1, <2>1, <2>3, <3>1, <3>2, AnswerOK DEF Asked
  <2> QED BY <1>4, <2>2, <2>3 DEF Look
<1>5. CASE Setup(n)
  <2>1. calls[n].arg \in People
    BY <1>2, <1>5 DEF Setup, Asked, CallOK
  <2>2. accounts' \in [People -> StoredRole \cup {Removed}]
    BY <1>5, <2>1 DEF Setup, Inv, ServerOK, StoredRole, Role
  <2>3. Later
    BY <1>5, <2>2 DEF Setup, Inv, ServerOK, Later
  <2> QED BY <1>1, <1>5, <2>3, AnswerOK DEF Setup, Asked
<1>6. CASE Login(n)
  <2> DEFINE u == [id |-> calls[n].arg, role |-> normalizeRole(accounts[calls[n].arg])]
  <2>1. u \in Account
    BY <1>6 DEF Login, enrolled, normalizeRole, Role, Account
  <2>2. /\ issued' = issued + 1 /\ issued' \in 1..MaxTokens
        /\ tickets' = [tickets EXCEPT ![issued'] = u]
        /\ Answer(n, [token |-> issued', user |-> u])
    BY <1>6, SessionAssumption DEF Login, Inv, ServerOK
  <2> HIDE DEF u
  <2>3. Later
    <3>1. ServerOK'
      BY <1>6, <2>1, <2>2, SessionAssumption DEF Login, Inv, ServerOK
    <3>2. \A k \in 1..issued : k # issued' /\ tickets'[k] = tickets[k]
      BY <2>2, SessionAssumption DEF Inv, ServerOK
    <3>3. issued <= issued'
      BY <2>2, SessionAssumption DEF Inv, ServerOK
    <3> QED BY <3>1, <3>2, <3>3 DEF Later
  <2>4. Known(issued', u, tickets', issued')
    BY <2>1, <2>2, SessionAssumption DEF Known, Inv, ServerOK
  <2>5. calls[n].op = "login"
    BY <1>6 DEF Login, Asked
  <2> QED BY <1>1, <2>2, <2>3, <2>4, <2>5, AnswerOK
<1>7. CASE Logout(n)
  <2>1. /\ tickets' = [tickets EXCEPT ![calls[n].arg] = NoOne]
        /\ UNCHANGED <<accounts, issued>>
    BY <1>7 DEF Logout
  <2>2. ServerOK'
    BY <2>1 DEF Inv, ServerOK
  <2>3. Later
    BY <2>1, <2>2, SessionAssumption DEF Inv, ServerOK, Later
  <2> QED BY <1>1, <1>7, <2>3, AnswerOK DEF Logout, Asked
<1> QED BY <1>4, <1>5, <1>6, <1>7

(* What a page makes of an answer.                                         *)
LEMMA AnsweredInv ==
  ASSUME Inv, NEW n \in 1..MaxCalls,
         \/ StatusAnswered(n) \/ ValidateAnswered(n) \/ SetupAnswered(n)
         \/ LoginAnswered(n) \/ LogoutOver(n) \/ CallFails(n)
  PROVE  Inv'
<1>1. Later /\ UNCHANGED <<tickets, issued>> /\ calls[n] # NoCall
  BY StillLater DEF StatusAnswered, ValidateAnswered, SetupAnswered, LoginAnswered,
                    LogoutOver, CallFails, Answered, backend
<1>2. CallOK(calls[n], tickets', issued') /\ calls[n].page \in Pages
  BY <1>1, CallLater DEF Inv, CallsOK, CallOK
<1>3. Over(n) => CallsOK'
  BY <1>1, OneCall DEF Over
<1>4. CASE StatusAnswered(n)
  <2>1. CASE calls[n].answer /\ stored # NoToken
    <3>1. Send(n, calls[n].page, "validate", stored) /\ UNCHANGED pagesOf
      BY <1>4, <2>1 DEF StatusAnswered, pagesOf
    <3>2. stored \in 1..issued'
      BY <1>1, <2>1 DEF Inv, StoredOK
    <3>3. CallsOK'
      BY <1>1, <1>2, <3>1, <3>2, FreshCall, OneCall DEF Send
    <3> QED BY <1>1, <1>4, <3>1, <3>3, PagesLater, StoredLater DEF StatusAnswered, Inv, Later
  <2>2. CASE ~(calls[n].answer /\ stored # NoToken)
    <3>1. /\ Over(n)
          /\ stage' = [stage EXCEPT ![calls[n].page] = IF calls[n].answer THEN "locked"
                                                       ELSE "needs-setup"]
          /\ UNCHANGED <<stored, authToken, currentUser>>
      BY <1>4, <2>2 DEF StatusAnswered
    <3>2. stage' \in [Pages -> Stages]
      BY <1>2, <3>1 DEF Inv, PagesOK, Stages
    <3>3. PagesOK'
      BY <1>1, <3>1, <3>2 DEF Inv, PagesOK
    <3> QED BY <1>1, <1>3, <3>1, <3>3, StoredLater DEF Inv, Later
  <2> QED BY <2>1, <2>2
<1>5. CASE ValidateAnswered(n)
  <2>1. CASE calls[n].answer # NoOne
    <3>1. /\ Become(calls[n].page, calls[n].arg, calls[n].answer, "ready")
          /\ Over(n) /\ UNCHANGED stored
      BY <1>5, <2>1 DEF ValidateAnswered
    <3>2. Known(calls[n].arg, calls[n].answer, tickets', issued')
      BY <1>2, <1>5 DEF ValidateAnswered, Answered, CallOK
    <3>3. PagesOK'
      BY <1>1, <1>2, <3>1, <3>2, BecomeLater DEF Stages
    <3> QED BY <1>1, <1>3, <3>1, <3>3, StoredLater DEF Inv, Later
  <2>2. CASE calls[n].answer = NoOne
    <3>1. /\ Become(calls[n].page, NoToken, NoOne, "locked")
          /\ Over(n) /\ stored' = NoToken
      BY <1>5, <2>2 DEF ValidateAnswered
    <3>2. PagesOK'
      BY <1>1, <1>2, <3>1, BecomeLater DEF Stages
    <3> QED BY <1>1, <1>3, <3>1, <3>2 DEF Inv, Later, StoredOK
  <2> QED BY <2>1, <2>2
<1>6. CASE SetupAnswered(n)
  <2>1. Send(n, calls[n].page, "login", calls[n].arg) /\ calls[n].arg \in People
    BY <1>2, <1>6 DEF SetupAnswered, Answered, CallOK
  <2>2. CallsOK'
    BY <1>1, <1>2, <2>1, FreshCall, OneCall DEF Send
  <2> QED BY <1>1, <1>6, <2>2, PagesLater, StoredLater DEF SetupAnswered, Inv, Later
<1>7. CASE LoginAnswered(n)
  <2>1. Known(calls[n].answer.token, calls[n].answer.user, tickets', issued')
    BY <1>2, <1>7 DEF LoginAnswered, Answered, CallOK
  <2>2. PagesOK'
    BY <1>1, <1>2, <1>7, <2>1, BecomeLater DEF LoginAnswered, Stages
  <2>3. StoredOK'
    BY <1>7, <2>1 DEF LoginAnswered, StoredOK, Known
  <2> QED BY <1>1, <1>3, <1>7, <2>2, <2>3 DEF LoginAnswered, Inv, Later
<1>8. CASE LogoutOver(n)
  <2>1. PagesOK'
    BY <1>1, <1>2, <1>8, BecomeLater DEF LogoutOver, Stages
  <2> QED BY <1>1, <1>3, <1>8, <2>1 DEF LogoutOver, Inv, Later, StoredOK
<1>9. CASE CallFails(n)
  BY <1>1, <1>3, <1>9, PagesLater, StoredLater DEF CallFails, Inv, Later
<1> QED BY <1>4, <1>5, <1>6, <1>7, <1>8, <1>9

(* What ends sessions, and what changes the accounts.                      *)
LEMMA ServerInv ==
  ASSUME Inv,
         \/ \E k \in 1..MaxTokens : Expire(k)
         \/ \E t \in Pages : \/ ChangePassword(t)
                             \/ \E u \in People : \/ RemoveUser(t, u)
                                                  \/ \E r \in Grants : AddUser(t, u, r) \/ SetRole(t, u, r)
  PROVE  Inv'
<1>1. /\ UNCHANGED <<issued, stored>> /\ UNCHANGED pagesOf /\ UNCHANGED calls
      /\ \/ UNCHANGED tickets
         \/ \E k \in 1..MaxTokens : tickets' = [tickets EXCEPT ![k] = NoOne]
         \/ \E ends \in SUBSET (1..issued) : EndSessions(ends)
  BY DEF Expire, ChangePassword, RemoveUser, AddUser, SetRole, SessionsOf
<1>2. accounts' \in [People -> StoredRole \cup {Removed}]
  BY SessionAssumption DEF Expire, ChangePassword, RemoveUser, AddUser, SetRole,
                           Inv, ServerOK, StoredRole
<1>3. tickets' \in [1..MaxTokens -> Account \cup {NoOne}]
  BY <1>1 DEF EndSessions, Inv, ServerOK
<1>4. \A k \in 1..issued : tickets'[k] \in {tickets[k], NoOne}
  BY <1>1, SessionAssumption DEF EndSessions, Inv, ServerOK
<1>5. Later
  BY <1>1, <1>2, <1>3, <1>4, SessionAssumption DEF Later, Inv, ServerOK
<1> QED BY <1>1, <1>5, CallsLater, PagesLater, StoredLater DEF Inv, Later

LEMMA StutterInv == ASSUME Inv, UNCHANGED sessionVars PROVE Inv'
<1>1. UNCHANGED backend /\ UNCHANGED <<stored, calls>> /\ UNCHANGED pagesOf
  BY DEF sessionVars
<1>2. Later
  BY <1>1, StillLater
<1> QED BY <1>1, <1>2, CallsLater, PagesLater, StoredLater DEF Inv, Later

(* The inductive invariant of the tabs: what a page or an answer says of a *)
(* session is true of it as long as the session lasts.                     *)
THEOREM SessionInvariant == SessionSpec => []Inv
<1>1. ASSUME Inv, [SessionNext]_sessionVars PROVE Inv'
  <2>1. ASSUME NEW t \in Pages,
               Open(t) \/ Lock(t) \/ \E u \in People : SubmitLogin(t, u)
        PROVE  Inv'
    BY <1>1, <2>1, OpenInv, SendInv
  <2>2. ASSUME NEW n \in 1..MaxCalls,
               \/ Look(n) \/ Setup(n) \/ Login(n) \/ Logout(n) \/ CallFails(n)
               \/ StatusAnswered(n) \/ ValidateAnswered(n) \/ SetupAnswered(n)
               \/ LoginAnswered(n) \/ LogoutOver(n)
        PROVE  Inv'
    BY <1>1, <2>2, HandleInv, AnsweredInv
  <2> QED BY <1>1, <2>1, <2>2, ServerInv, StutterInv DEF SessionNext
<1> QED BY <1>1, InitInv, PTL DEF SessionSpec

(* The variables of the browser and of the server have their types.        *)
THEOREM SessionTypes == SessionSpec => []SessionTypeOK
<1>1. Inv => SessionTypeOK
  BY SessionAssumption DEF Inv, ServerOK, PagesOK, StoredOK, SessionTypeOK, Stages, Known
<1> QED BY <1>1, SessionInvariant, PTL

(* However tabs, roles and sessions interleave, a page whose session is    *)
(* live offers exactly what the server allows that session.                *)
THEOREM OffersMatch == SessionSpec => []OffersMatchServer
<1>1. Inv => OffersMatchServer
  <2> SUFFICES ASSUME Inv, NEW t \in Pages, Live(authToken[t])
               PROVE  /\ currentUser[t] = tickets[authToken[t]]
                      /\ offers(t) = allows(tickets[authToken[t]].role)
    BY DEF OffersMatchServer
  <2>1. currentUser[t] = tickets[authToken[t]] /\ currentUser[t] # NoOne
    BY DEF Inv, PagesOK, Known, Live
  <2>2. tickets[authToken[t]].role \in Role
    BY SessionAssumption DEF Inv, PagesOK, ServerOK, Known, Live, Account
  <2>3. offers(t) = allows(tickets[authToken[t]].role)
    BY <2>1, <2>2 DEF offers, role, allows, canWrite, canReadSecrets, isAdmin, normalizeRole,
                      Role, RoleAdmin, RoleReadWrite, RoleWrite, RoleRead
  <2> QED BY <2>1, <2>3
<1> QED BY <1>1, SessionInvariant, PTL

----------------------------------------------------------------------------
(* Projects.  The types an import rests on.                                *)

Everywhere == {Home, Unassigned} \cup 1..MaxImports
ListCall   == [state : {"none", "asked", "read", "over"},
               list : (SUBSET ({Home} \cup 1..MaxImports)) \cup {NoList}, then : Everywhere]
Stages4    == DOMAIN after \cup {"none", "over", "failed"}
Import     == [stage : Stages4, from : File \cup {NoFile}, mapped : SUBSET Items]

TransferTypes ==
  /\ alive \subseteq {Home} \cup 1..MaxImports /\ content \subseteq Items
  /\ current \in Everywhere
  /\ projects \in (SUBSET ({Home} \cup 1..MaxImports)) \cup {NoList}
  /\ asked \in [1..MaxLists -> ListCall]
  /\ lists \in [Sorts -> (SUBSET Items) \cup {NoList}]
  /\ file \in File \cup {NoFile}
  /\ imports \in [1..MaxImports -> Import]
  /\ copies \in [Copies -> (SUBSET Copies) \cup {NoFile}]
  /\ extent \in Extents

(* What an import has made, what it is to make, and what of it comes       *)
(* before the kind it is at.                                               *)
made(n) == {i \in Items : copies[<<n, i>>] # NoFile}

before == [project |-> {}, credential |-> {}, vpn |-> {"credential"},
           host |-> {"credential", "vpn"}, service |-> {"credential", "vpn", "host"},
           over |-> Sorts]

(* An import knows the copies of all records of the kinds behind it; what  *)
(* it does not know of is at most the one whose answer was lost.           *)
Faithful(n) ==
  LET r == imports[n]
      f == imports[n].from
  IN  /\ r.stage = "none" <=> f = NoFile
      /\ r.stage \in {"none", "project"} => made(n) = {}
      /\ r.mapped \subseteq made(n)
      /\ r.stage # "failed" => r.mapped = made(n)
      /\ f # NoFile => made(n) \subseteq carried(f)
      /\ r.stage \in DOMAIN before =>
           \A i \in carried(f) : KindOf[i] \in before[r.stage] => i \in r.mapped
      /\ \A i \in made(n) : copies[<<n, i>>] = {<<n, j>> : j \in RefsOf[i] \cap carried(f)}

TransferInv == TransferTypes /\ \A n \in 1..MaxImports : Faithful(n)

LEMMA TransferTyped == TransferInv => TransferTypeOK
  BY DEF TransferInv, TransferTypes, TransferTypeOK, Everywhere, Import, Stages4

LEMMA AllAreCopied == TransferInv => ImportIsFaithful
<1> SUFFICES ASSUME TransferInv, NEW n \in 1..MaxImports, imports[n].from # NoFile
             PROVE  LET all == carried(imports[n].from)
                        done == {i \in Items : copies[<<n, i>>] # NoFile}
                    IN  /\ done \subseteq all /\ (imports[n].stage = "over" => done = all)
                        /\ \A i \in done : copies[<<n, i>>] = {<<n, j>> : j \in RefsOf[i] \cap all}
  BY DEF ImportIsFaithful
<1>1. Faithful(n)
  BY DEF TransferInv
<1>2. ASSUME imports[n].stage = "over" PROVE carried(imports[n].from) \subseteq made(n)
  <2>1. imports[n].from \in File
    BY DEF TransferInv, TransferTypes, Import
  <2>2. \A i \in carried(imports[n].from) : KindOf[i] \in Sorts
    BY <2>1, TransferAssumption DEF carried, File
  <2> QED BY <1>1, <1>2, <2>2 DEF Faithful, before
<1> QED BY <1>1, <1>2 DEF Faithful, made

LEMMA ListCalls ==
  /\ noCall \in ListCall
  /\ \A p \in Everywhere : listCall(p) \in ListCall
  /\ \A d \in ListCall : d.then \in Everywhere
  /\ [noCall EXCEPT !.state = "over"] \in ListCall
<1>1. noCall = [state |-> "none", list |-> NoList, then |-> Unassigned]
  BY DEF noCall
<1>2. Unassigned \in Everywhere
  BY DEF Everywhere
<1>3. [noCall EXCEPT !.state = "over"] = [state |-> "over", list |-> NoList, then |-> Unassigned]
  BY <1>1
<1> QED BY <1>1, <1>2, <1>3 DEF listCall, ListCall

LEMMA TransferInitInv == ASSUME TransferInit PROVE TransferInv
<1> USE TransferAssumption DEF TransferInit
<1>1. TransferTypes
  <2>1. noCall \in ListCall /\ listCall(Unassigned) \in ListCall
    BY ListCalls DEF Everywhere
  <2>2. noImport \in Import
    BY DEF noImport, Import, Stages4
  <2>3. content \subseteq Items
    OBVIOUS
  <2>4. asked \in [1..MaxLists -> ListCall]
    BY <2>1
  <2>5. /\ alive \subseteq {Home} \cup 1..MaxImports /\ current \in Everywhere
        /\ projects \in (SUBSET ({Home} \cup 1..MaxImports)) \cup {NoList}
    BY DEF Everywhere
  <2> QED BY <2>2, <2>3, <2>4, <2>5 DEF TransferTypes
<1>2. ASSUME NEW n \in 1..MaxImports PROVE Faithful(n)
  <2>1. imports[n] = noImport /\ made(n) = {}
    BY DEF made, Copies
  <2> QED BY <2>1 DEF Faithful, noImport, before
<1> QED BY <1>1, <1>2 DEF TransferInv

LEMMA Untouched ==
  ASSUME TransferInv, UNCHANGED <<imports, copies>>
  PROVE  \A n \in 1..MaxImports : Faithful(n)'
  BY DEF TransferInv, Faithful, made

LEMMA AskListTyped ==
  ASSUME TransferTypes, NEW p \in Everywhere, AskList(p)
  PROVE  asked' \in [1..MaxLists -> ListCall]
<1>1. PICK c \in 1..extent.lists : asked' = [asked EXCEPT ![c] = listCall(p)]
  BY DEF AskList
<1>2. c \in 1..MaxLists
  BY TransferAssumption DEF TransferTypes
<1> QED BY <1>1, ListCalls DEF TransferTypes

(* What has to do with the dashboard and the export only.                  *)
LEMMA DashboardInv ==
  ASSUME TransferInv,
         \/ \E c \in 1..MaxLists : ReadList(c) \/ ListArrives(c) \/ ListFails(c)
         \/ \E p \in {Home, Unassigned} \cup 1..MaxImports : ChooseProject(p) \/ DeleteProject(p)
         \/ \E i \in Items : EditHome(i)
         \/ OpenExport \/ CloseImport
         \/ \E kinds \in extent.reads : Gather(kinds)
         \/ \E x \in BOOLEAN : ExportJson(x)
  PROVE  TransferInv'
<1> USE DEF TransferInv
<1>1. ASSUME NEW c \in 1..MaxLists, ReadList(c) PROVE TransferInv'
  <2>1. [asked[c] EXCEPT !.state = "read", !.list = alive] \in ListCall
    BY DEF TransferTypes, ListCall
  <2>2. asked' = [asked EXCEPT ![c] = [asked[c] EXCEPT !.state = "read", !.list = alive]]
    BY <1>1 DEF ReadList, TransferTypes
  <2>3. TransferTypes'
    BY <1>1, <2>1, <2>2 DEF ReadList, TransferTypes
  <2> QED BY <1>1, <2>3, Untouched DEF ReadList
<1>2. ASSUME NEW c \in 1..MaxLists, ListOver(c), UNCHANGED <<alive, content, lists, file,
             imports, copies, extent>>, current' \in Everywhere,
             projects' \in {projects, asked[c].list}
      PROVE  TransferInv'
  <2>1. asked' \in [1..MaxLists -> ListCall]
    BY <1>2, ListCalls DEF ListOver, TransferTypes
  <2>2. projects' \in (SUBSET ({Home} \cup 1..MaxImports)) \cup {NoList}
    BY <1>2 DEF TransferTypes, ListCall
  <2>3. TransferTypes'
    BY <1>2, <2>1, <2>2 DEF TransferTypes
  <2> QED BY <1>2, <2>3, Untouched
<1>3. ASSUME NEW c \in 1..MaxLists, ListArrives(c) \/ ListFails(c) PROVE TransferInv'
  <2>1. asked[c].then \in Everywhere /\ current \in Everywhere /\ Unassigned \in Everywhere
    BY ListCalls DEF TransferTypes, Everywhere
  <2>2. CASE ListArrives(c)
    <3>1. current' \in Everywhere
      BY <2>1, <2>2 DEF ListArrives, fallback
    <3> QED BY <2>2, <3>1, <1>2 DEF ListArrives
  <2>3. CASE ListFails(c)
    BY <2>1, <2>3, <1>2 DEF ListFails
  <2> QED BY <1>3, <2>2, <2>3
<1>4. ASSUME NEW p \in {Home, Unassigned} \cup 1..MaxImports, ChooseProject(p)
      PROVE  TransferInv'
  BY <1>4, Untouched DEF ChooseProject, TransferTypes, Everywhere
<1>5. ASSUME NEW p \in {Home, Unassigned} \cup 1..MaxImports, DeleteProject(p)
      PROVE  TransferInv'
  <2>1. Unassigned \in Everywhere
    BY DEF Everywhere
  <2>2. asked' \in [1..MaxLists -> ListCall]
    BY <1>5, <2>1, AskListTyped DEF DeleteProject, TransferTypes
  <2>3. TransferTypes'
    BY <1>5, <2>2 DEF DeleteProject, TransferTypes
  <2> QED BY <1>5, <2>3, Untouched DEF DeleteProject
<1>6. ASSUME NEW i \in Items, EditHome(i) PROVE TransferInv'
  <2>1. content' \subseteq Items
    BY <1>6 DEF EditHome, TransferTypes
  <2> QED BY <1>6, <2>1, Untouched DEF EditHome, TransferTypes, projectVars
<1>7. CASE OpenExport \/ CloseImport
  BY <1>7, Untouched DEF OpenExport, CloseImport, TransferTypes, projectVars
<1>8. ASSUME NEW kinds, Gather(kinds) PROVE TransferInv'
  <2>1. lists' \in [Sorts -> (SUBSET Items) \cup {NoList}]
    BY <1>8 DEF Gather, OfSort, TransferTypes
  <2> QED BY <1>8, <2>1, Untouched DEF Gather, TransferTypes, projectVars
<1>9. ASSUME NEW x \in BOOLEAN, ExportJson(x) PROVE TransferInv'
  <2>1. \A k \in Sorts : lists[k] \subseteq Items
    BY <1>9 DEF ExportJson, TransferTypes
  <2>2. file' \in File
    BY <1>9, <2>1 DEF ExportJson, File
  <2> QED BY <1>9, <2>2, Untouched DEF ExportJson, TransferTypes, projectVars
<1> QED BY <1>1, <1>3, <1>4, <1>5, <1>6, <1>7, <1>8, <1>9

(* An import that moves on leaves the others alone.                        *)
LEMMA OthersUntouched ==
  ASSUME TransferInv, NEW n \in 1..MaxImports, NEW r \in Import,
         imports' = [imports EXCEPT ![n] = r],
         \A m \in 1..MaxImports : m # n => \A i \in Items : copies'[<<m, i>>] = copies[<<m, i>>]
  PROVE  /\ imports' \in [1..MaxImports -> Import] /\ imports'[n] = r
         /\ \A m \in 1..MaxImports : m # n => Faithful(m)'
<1>1. imports' \in [1..MaxImports -> Import] /\ imports'[n] = r
      /\ \A m \in 1..MaxImports : m # n => imports'[m] = imports[m]
  BY DEF TransferInv, TransferTypes
<1> QED BY <1>1 DEF TransferInv, Faithful, made

LEMMA ClickImportInv ==
  ASSUME TransferInv, NEW n \in 1..MaxImports, ClickImport(n) PROVE TransferInv'
<1> DEFINE r == [stage |-> "project", from |-> file, mapped |-> {}]
<1>1. r \in Import /\ file # NoFile /\ imports[n] = noImport
  BY DEF ClickImport, Import, Stages4, after, TransferInv, TransferTypes
<1>2. imports' = [imports EXCEPT ![n] = r] /\ copies' = copies
  BY DEF ClickImport
<1>3. imports' \in [1..MaxImports -> Import] /\ imports'[n] = r
      /\ \A m \in 1..MaxImports : m # n => Faithful(m)'
  BY <1>1, <1>2, OthersUntouched
<1>4. made(n) = {} /\ made(n)' = {}
  BY <1>1, <1>2 DEF TransferInv, Faithful, noImport, made
<1>5. Faithful(n)'
  BY <1>1, <1>3, <1>4 DEF Faithful, before
<1>6. TransferTypes'
  BY <1>3 DEF ClickImport, TransferInv, TransferTypes, projectVars
<1> QED BY <1>3, <1>5, <1>6 DEF TransferInv

LEMMA StageSet ==
  ASSUME TransferInv, NEW n \in 1..MaxImports, NEW x \in Stages4,
         imports' = [imports EXCEPT ![n].stage = x], UNCHANGED copies
  PROVE  /\ imports' \in [1..MaxImports -> Import]
         /\ imports'[n].stage = x /\ imports'[n].from = imports[n].from
         /\ imports'[n].mapped = imports[n].mapped /\ made(n)' = made(n)
         /\ \A m \in 1..MaxImports : m # n => Faithful(m)'
<1> DEFINE r == [imports[n] EXCEPT !.stage = x]
<1>1. imports[n] \in Import
  BY DEF TransferInv, TransferTypes
<1>2. r \in Import /\ r.stage = x /\ r.from = imports[n].from /\ r.mapped = imports[n].mapped
  BY <1>1 DEF Import
<1>3. imports' = [imports EXCEPT ![n] = r]
  BY DEF TransferInv, TransferTypes
<1> HIDE DEF r
<1>4. imports' \in [1..MaxImports -> Import] /\ imports'[n] = r
      /\ \A m \in 1..MaxImports : m # n => Faithful(m)'
  BY <1>2, <1>3, OthersUntouched
<1> QED BY <1>2, <1>4 DEF made

LEMMA CreateProjectInv ==
  ASSUME TransferInv, NEW n \in 1..MaxImports, CreateProject(n) PROVE TransferInv'
<1>1. PICK x \in {"credential", "failed"} : imports' = [imports EXCEPT ![n].stage = x]
  BY DEF CreateProject
<1>2. x \in Stages4
  BY DEF Stages4, after
<1>3. /\ imports' \in [1..MaxImports -> Import]
      /\ imports'[n].stage = x /\ imports'[n].from = imports[n].from
      /\ imports'[n].mapped = imports[n].mapped /\ made(n)' = made(n)
      /\ \A m \in 1..MaxImports : m # n => Faithful(m)'
  BY <1>1, <1>2, StageSet DEF CreateProject
<1>4. Faithful(n)'
  BY <1>3 DEF CreateProject, TransferInv, Faithful, before, made
<1>5. TransferTypes'
  BY <1>3 DEF CreateProject, TransferInv, TransferTypes, projectVars
<1> QED BY <1>3, <1>4, <1>5 DEF TransferInv

LEMMA ImportFailsInv ==
  ASSUME TransferInv, NEW n \in 1..MaxImports, ImportFails(n) PROVE TransferInv'
<1>1. "failed" \in Stages4
  BY DEF Stages4
<1>2. /\ imports' \in [1..MaxImports -> Import]
      /\ imports'[n].stage = "failed" /\ imports'[n].from = imports[n].from
      /\ imports'[n].mapped = imports[n].mapped /\ made(n)' = made(n)
      /\ \A m \in 1..MaxImports : m # n => Faithful(m)'
  BY <1>1, StageSet DEF ImportFails
<1>3. imports[n].stage # "none"
  BY DEF ImportFails, importing, after
<1>4. Faithful(n)'
  BY <1>2, <1>3 DEF ImportFails, TransferInv, Faithful, before, made
<1>5. TransferTypes'
  BY <1>2 DEF ImportFails, TransferInv, TransferTypes, projectVars
<1> QED BY <1>2, <1>4, <1>5 DEF TransferInv

(* A kind that is done with is copied: what is carried of it was to be     *)
(* created, a service because all hosts of the file were.                  *)
LEMMA KindDone ==
  ASSUME TransferInv, NEW n \in 1..MaxImports, imports[n].stage \in Sorts,
         toCreate(n) \subseteq imports[n].mapped,
         NEW i \in carried(imports[n].from), KindOf[i] = imports[n].stage
  PROVE  i \in imports[n].mapped
<1>1. Faithful(n) /\ i \in imports[n].from.items /\ i \in Items
  BY DEF TransferInv, TransferTypes, Import, File, carried, Faithful, Sorts
<1>2. ASSUME KindOf[i] = "service" PROVE RefsOf[i] \subseteq imports[n].mapped
  <2> SUFFICES ASSUME NEW j \in RefsOf[i] PROVE j \in imports[n].mapped
    OBVIOUS
  <2>1. KindOf[j] = "host" /\ j \in imports[n].from.items
    BY <1>1, <1>2, TransferAssumption DEF carried, RefersToKinds
  <2>2. j \in carried(imports[n].from)
    BY <2>1 DEF carried
  <2> QED BY <1>1, <1>2, <2>1, <2>2 DEF Faithful, before
<1>3. i \in toCreate(n)
  BY <1>1, <1>2 DEF toCreate, OfSort, carried
<1> QED BY <1>3

LEMMA NextKindInv ==
  ASSUME TransferInv, NEW n \in 1..MaxImports, NextKind(n) PROVE TransferInv'
<1> DEFINE x == after[imports[n].stage]
<1>1. x \in Stages4 /\ imports[n].stage \in Sorts
  BY DEF NextKind, Stages4, after, Sorts
<1>2. imports' = [imports EXCEPT ![n].stage = x]
  BY DEF NextKind, TransferInv, TransferTypes
<1>3. before[x] = before[imports[n].stage] \cup {imports[n].stage} /\ x # "none" /\ x # "project"
      /\ x # "failed"
  BY <1>1 DEF before, after, Sorts
<1> HIDE DEF x
<1>4. /\ imports' \in [1..MaxImports -> Import]
      /\ imports'[n].stage = x /\ imports'[n].from = imports[n].from
      /\ imports'[n].mapped = imports[n].mapped /\ made(n)' = made(n)
      /\ \A m \in 1..MaxImports : m # n => Faithful(m)'
  BY <1>1, <1>2, StageSet DEF NextKind
<1>5. ASSUME NEW i \in carried(imports[n].from), KindOf[i] \in before[x]
      PROVE  i \in imports[n].mapped
  <2>1. CASE KindOf[i] \in before[imports[n].stage]
    BY <1>1, <2>1 DEF TransferInv, Faithful, before, Sorts
  <2>2. CASE KindOf[i] = imports[n].stage
    BY <1>1, <2>2, KindDone DEF NextKind
  <2> QED BY <1>3, <1>5, <2>1, <2>2
<1>6. Faithful(n)'
  BY <1>1, <1>3, <1>4, <1>5 DEF NextKind, TransferInv, Faithful, Sorts, made
<1>7. asked' \in [1..MaxLists -> ListCall]
  <2>1. n \in Everywhere
    BY DEF Everywhere
  <2> QED BY <2>1, AskListTyped DEF NextKind, TransferInv, TransferTypes
<1>8. TransferTypes'
  BY <1>4, <1>7 DEF NextKind, TransferInv, TransferTypes
<1> QED BY <1>4, <1>6, <1>8 DEF TransferInv

(* The copy refers to all the import is to make of what it refers to:      *)
(* those are of kinds that are done with.                                  *)
LEMMA CopyRefers ==
  ASSUME TransferInv, NEW n \in 1..MaxImports, NEW i \in Items, CreateCopy(n, i)
  PROVE  /\ i \in carried(imports[n].from) /\ i \notin imports[n].mapped
         /\ refersTo(n, i) = {<<n, j>> : j \in RefsOf[i] \cap carried(imports[n].from)}
         /\ refersTo(n, i) \subseteq Copies
<1>1. /\ Faithful(n) /\ imports[n].stage \in Sorts /\ imports[n].from \in File
      /\ i \in imports[n].from.items /\ KindOf[i] = imports[n].stage
      /\ imports[n].mapped \subseteq carried(imports[n].from)
  BY DEF CreateCopy, toCreate, OfSort, TransferInv, TransferTypes, Import, Faithful, Sorts
<1>2. i \in carried(imports[n].from) /\ i \notin imports[n].mapped
  BY <1>1 DEF CreateCopy, toCreate, carried
<1>3. ASSUME NEW j \in RefsOf[i] \cap carried(imports[n].from) PROVE j \in imports[n].mapped
  <2>1. KindOf[j] \in before[imports[n].stage]
    BY <1>1, TransferAssumption DEF RefersToKinds, before, Sorts
  <2> QED BY <1>1, <2>1 DEF Faithful, before, Sorts
<1>4. RefsOf[i] \cap imports[n].mapped = RefsOf[i] \cap carried(imports[n].from)
  BY <1>1, <1>3
<1>5. RefsOf[i] \subseteq Items
  BY TransferAssumption
<1> QED BY <1>2, <1>4, <1>5 DEF refersTo, Copies

LEMMA CreateCopyInv ==
  ASSUME TransferInv, NEW n \in 1..MaxImports, NEW i \in Items, CreateCopy(n, i)
  PROVE  TransferInv'
<1> DEFINE known == [imports[n] EXCEPT !.mapped = @ \cup {i}]
           lost  == [imports[n] EXCEPT !.stage = "failed"]
<1>1. imports[n] \in Import /\ Faithful(n) /\ imports[n].stage \in Sorts
  BY DEF CreateCopy, TransferInv, TransferTypes
<1>2. /\ known \in Import /\ known.stage = imports[n].stage /\ known.from = imports[n].from
      /\ known.mapped = imports[n].mapped \cup {i}
      /\ lost \in Import /\ lost.stage = "failed" /\ lost.from = imports[n].from
      /\ lost.mapped = imports[n].mapped
  BY <1>1 DEF Import, Stages4
<1>3. imports' \in {[imports EXCEPT ![n] = known], [imports EXCEPT ![n] = lost]}
  BY DEF CreateCopy, TransferInv, TransferTypes
<1> HIDE DEF known, lost
<1>4. PICK r \in {known, lost} : imports' = [imports EXCEPT ![n] = r]
  BY <1>3
<1>5. copies' = [copies EXCEPT ![<<n, i>>] = refersTo(n, i)]
  BY DEF CreateCopy
<1>6. /\ copies' \in [Copies -> (SUBSET Copies) \cup {NoFile}]
      /\ \A m \in 1..MaxImports, k \in Items : copies'[<<m, k>>] =
           IF m = n /\ k = i THEN refersTo(n, i) ELSE copies[<<m, k>>]
  BY <1>5, CopyRefers DEF Copies, TransferInv, TransferTypes
<1>7. imports' \in [1..MaxImports -> Import] /\ imports'[n] = r
      /\ \A m \in 1..MaxImports : m # n => Faithful(m)'
  BY <1>2, <1>4, <1>6, OthersUntouched
<1>8. made(n)' = made(n) \cup {i}
  <2>1. refersTo(n, i) # NoFile
    BY CopyRefers, TransferAssumption
  <2> QED BY <1>6, <2>1 DEF made
<1>9. Faithful(n)'
  <2>1. imports[n].stage \notin {"none", "project", "failed"} /\ imports[n].from # NoFile
        /\ imports[n].mapped = made(n) /\ made(n) \subseteq carried(imports[n].from)
        /\ imports[n].stage \in DOMAIN before /\ "failed" \notin DOMAIN before
    BY <1>1 DEF Faithful, Sorts, before
  <2>2. i \in carried(imports[n].from)
        /\ refersTo(n, i) = {<<n, j>> : j \in RefsOf[i] \cap carried(imports[n].from)}
    BY CopyRefers
  <2>3. \A k \in made(n) \cup {i} :
          copies'[<<n, k>>] = {<<n, j>> : j \in RefsOf[k] \cap carried(imports[n].from)}
    BY <1>1, <1>6, <2>2 DEF Faithful, made
  <2>4. \A k \in carried(imports[n].from) : KindOf[k] \in before[imports[n].stage] =>
          k \in imports[n].mapped
    BY <1>1, <2>1 DEF Faithful
  <2>5. CASE r = known
    BY <1>2, <1>7, <1>8, <2>1, <2>2, <2>3, <2>4, <2>5 DEF Faithful
  <2>6. CASE r = lost
    BY <1>2, <1>7, <1>8, <2>1, <2>2, <2>3, <2>6 DEF Faithful
  <2> QED BY <1>4, <2>5, <2>6
<1>10. TransferTypes'
  BY <1>6, <1>7 DEF CreateCopy, TransferInv, TransferTypes, projectVars
<1> QED BY <1>7, <1>9, <1>10 DEF TransferInv

LEMMA TransferNextInv == ASSUME TransferInv, [TransferNext]_transferVars PROVE TransferInv'
<1>1. CASE UNCHANGED transferVars
  BY <1>1, Untouched DEF transferVars, TransferInv, TransferTypes
<1> QED BY <1>1, DashboardInv, ClickImportInv, CreateProjectInv, NextKindInv, ImportFailsInv,
           CreateCopyInv DEF TransferNext

LEMMA TransferAlways == TransferSpec => []TransferInv
<1>1. TransferInit => TransferInv
  BY TransferInitInv
<1>2. TransferInv /\ [TransferNext]_transferVars => TransferInv'
  BY TransferNextInv
<1> QED BY <1>1, <1>2, PTL DEF TransferSpec

(* The dashboard, the export and the imports keep their types.             *)
THEOREM TransferTypesHold == TransferSpec => []TransferTypeOK
  BY TransferAlways, TransferTyped, PTL

(* Whatever fails or overlaps, an import refers to its own copies of what  *)
(* the file's records refer to, and when it is done it has them all.       *)
THEOREM ImportsAreFaithful == TransferSpec => []ImportIsFaithful
  BY TransferAlways, AllAreCopied, PTL
----------------------------------------------------------------------------
(* What the dashboard and the lists under way know of has been created, or *)
(* was there before.                                                       *)
KnownExist ==
  \A n \in 1..MaxImports : imports[n].stage \in {"none", "project"} =>
    /\ n \notin alive /\ current # n /\ (projects # NoList => n \notin projects)
    /\ \A c \in 1..MaxLists : /\ asked[c].then # n
                              /\ asked[c].state = "read" => n \notin asked[c].list

UnderWay(c) == asked[c].state \in {"asked", "read"}

(* A list that has been read holds what is known and still there.          *)
ListsAreFresh ==
  ~overlap => \A c \in 1..MaxLists : UnderWay(c) =>
    /\ \A d \in 1..MaxLists : UnderWay(d) => d = c
    /\ asked[c].state = "read" =>
         \A p \in alive : (p \in {current, asked[c].then} \/ (projects # NoList /\ p \in projects))
                            => p \in asked[c].list

DashboardOK == TransferInv /\ KnownExist /\ ListsAreFresh

LEMMA DashboardInit == ASSUME TransferInit PROVE DashboardOK
<1> USE DEF TransferInit
<1>1. TransferInv
  BY TransferInitInv
<1>2. KnownExist
  BY TransferAssumption DEF KnownExist, listCall, noCall
<1>3. ListsAreFresh
  BY DEF ListsAreFresh, UnderWay, listCall, noCall
<1> QED BY <1>1, <1>2, <1>3 DEF DashboardOK

(* An import that moves on stays created.                                  *)
LEMMA StagesAdvance ==
  ASSUME TransferInv, NEW n \in 1..MaxImports,
         ClickImport(n) \/ NextKind(n) \/ ImportFails(n) \/ \E i \in Items : CreateCopy(n, i)
  PROVE  /\ \A m \in 1..MaxImports : imports'[m].stage \in {"none", "project"}
                                       => imports[m].stage \in {"none", "project"}
         /\ NextKind(n) => imports[n].stage \notin {"none", "project"}
<1>1. imports \in [1..MaxImports -> Import]
  BY DEF TransferInv, TransferTypes
<1>2. CASE ClickImport(n)
  BY <1>1, <1>2 DEF ClickImport, noImport, NextKind, Sorts
<1>3. CASE NextKind(n)
  <2>1. imports[n].stage \in Sorts /\ imports' = [imports EXCEPT ![n].stage = after[@]]
    BY <1>3 DEF NextKind
  <2>2. \A m \in 1..MaxImports \ {n} : imports'[m] = imports[m]
    BY <1>1, <2>1
  <2>3. imports'[n].stage \in {"vpn", "host", "service", "over"}
    BY <1>1, <2>1 DEF Import, Sorts, after
  <2> QED BY <2>1, <2>2, <2>3 DEF Sorts
<1>4. CASE ImportFails(n)
  <2>1. imports' = [imports EXCEPT ![n].stage = "failed"] /\ (NextKind(n) => imports[n].stage \in Sorts)
    BY <1>4 DEF ImportFails, NextKind
  <2>2. imports'[n].stage = "failed"
    BY <1>1, <2>1 DEF Import
  <2> QED BY <1>1, <2>1, <2>2 DEF Sorts
<1>5. ASSUME NEW i \in Items, CreateCopy(n, i)
      PROVE  /\ \A m \in 1..MaxImports : imports'[m].stage \in {"none", "project"}
                                           => imports[m].stage \in {"none", "project"}
             /\ NextKind(n) => imports[n].stage \notin {"none", "project"}
  <2>1. imports[n].stage \notin {"none", "project"}
    BY <1>5 DEF CreateCopy, Sorts
  <2>2. /\ \A m \in 1..MaxImports \ {n} : imports'[m] = imports[m]
        /\ imports'[n].stage \in {imports[n].stage, "failed"}
    <3>1. CASE imports' = [imports EXCEPT ![n].mapped = @ \cup {i}]
      <4> DEFINE new == imports[n].mapped \cup {i}
      <4>1. imports' = [imports EXCEPT ![n] = [imports[n] EXCEPT !.mapped = new]]
        BY <1>1, <3>1
      <4>2. imports'[n] = [imports[n] EXCEPT !.mapped = new]
        BY <1>1, <4>1
      <4> QED BY <1>1, <4>1, <4>2 DEF Import
    <3>2. CASE imports' = [imports EXCEPT ![n].stage = "failed"]
      BY <1>1, <3>2 DEF Import
    <3> QED BY <1>5, <3>1, <3>2 DEF CreateCopy
  <2> QED BY <2>1, <2>2
<1> QED BY <1>2, <1>3, <1>4, <1>5

(* A list asked for now is alone, or overlaps.                             *)
LEMMA AskedNow ==
  ASSUME TransferInv, NEW p \in Everywhere, AskList(p)
  PROVE  /\ \A c \in 1..MaxLists : asked'[c] = asked[c] \/ asked'[c] = listCall(p)
         /\ ~overlap' => /\ ~overlap /\ \A c \in 1..MaxLists : asked'[c].state # "read"
                         /\ \A c, d \in 1..MaxLists : UnderWay(c)' /\ UnderWay(d)' => c = d
<1>1. PICK c \in 1..extent.lists : asked' = [asked EXCEPT ![c] = listCall(p)]
  BY DEF AskList
<1>2. c \in 1..MaxLists /\ asked \in [1..MaxLists -> ListCall]
  BY TransferAssumption DEF TransferInv, TransferTypes
<1>3. /\ asked'[c] = listCall(p)
      /\ \A d \in 1..MaxLists \ {c} : asked'[d] = asked[d]
  BY <1>1, <1>2
<1>4. ~overlap' => ~overlap /\ \A d \in 1..MaxLists : ~UnderWay(d)
  BY DEF AskList, UnderWay
<1> QED BY <1>3, <1>4 DEF UnderWay, listCall

LEMMA SameLists ==
  ASSUME DashboardOK, asked' = asked, overlap' = overlap, projects' = projects, current' = current,
         alive' = alive,
         \A m \in 1..MaxImports : imports'[m].stage \in {"none", "project"}
                                    => imports[m].stage \in {"none", "project"}
  PROVE  KnownExist' /\ ListsAreFresh'
  BY DEF DashboardOK, KnownExist, ListsAreFresh, UnderWay

LEMMA AskedLists ==
  ASSUME DashboardOK, NEW p \in Everywhere, AskList(p), projects' = projects, current' = current,
         alive' \subseteq alive,
         \A m \in 1..MaxImports : imports'[m].stage \in {"none", "project"}
                                    => imports[m].stage \in {"none", "project"} /\ p # m
  PROVE  KnownExist' /\ ListsAreFresh'
<1>1. TransferInv
  BY DEF DashboardOK
<1>2. KnownExist'
  <2>1. ASSUME NEW m \in 1..MaxImports, imports'[m].stage \in {"none", "project"}
        PROVE  /\ m \notin alive' /\ current' # m /\ (projects' # NoList => m \notin projects')
               /\ \A c \in 1..MaxLists : asked[c].then # m
                                        /\ (asked[c].state = "read" => m \notin asked[c].list)
    BY <2>1 DEF DashboardOK, KnownExist
  <2>2. listCall(p).then = p /\ listCall(p).state # "read"
    BY DEF listCall
  <2> QED BY <1>1, <2>1, <2>2, AskedNow DEF KnownExist
<1>3. ListsAreFresh'
  BY <1>1, AskedNow DEF ListsAreFresh
<1> QED BY <1>2, <1>3

LEMMA DashboardNext == ASSUME DashboardOK, [TransferNext]_transferVars PROVE DashboardOK'
<1> DEFINE Lists2 == KnownExist' /\ ListsAreFresh'
<1>1. TransferInv /\ TransferInv'
  BY TransferNextInv DEF DashboardOK
<1>2. /\ asked \in [1..MaxLists -> ListCall] /\ imports \in [1..MaxImports -> Import]
      /\ alive \subseteq {Home} \cup 1..MaxImports
      /\ Unassigned \notin 1..MaxImports /\ Unassigned \notin alive /\ Unassigned \in Everywhere
  BY <1>1, TransferAssumption DEF TransferInv, TransferTypes, Everywhere
<1>3. ASSUME UNCHANGED transferVars PROVE Lists2
  BY <1>3, SameLists DEF transferVars
<1>4. ASSUME NEW c \in 1..MaxLists, ReadList(c) PROVE Lists2
  <2>1. /\ asked'[c].state = "read" /\ asked'[c].list = alive /\ asked'[c].then = asked[c].then
        /\ \A d \in 1..MaxLists \ {c} : asked'[d] = asked[d]
    BY <1>2, <1>4 DEF ReadList, ListCall
  <2>2. KnownExist'
    <3>1. ASSUME NEW m \in 1..MaxImports, imports'[m].stage \in {"none", "project"}
          PROVE  /\ m \notin alive' /\ current' # m /\ (projects' # NoList => m \notin projects')
                 /\ \A d \in 1..MaxLists : asked[d].then # m
                       /\ (asked[d].state = "read" => m \notin asked[d].list)
      BY <1>4, <3>1 DEF ReadList, DashboardOK, KnownExist
    <3>2. ASSUME NEW m \in 1..MaxImports, imports'[m].stage \in {"none", "project"},
                 NEW d \in 1..MaxLists
          PROVE  asked'[d].then # m /\ (asked'[d].state = "read" => m \notin asked'[d].list)
      <4>1. m \notin alive
        BY <1>4, <3>1, <3>2 DEF ReadList
      <4>2. CASE d = c
        BY <2>1, <3>1, <3>2, <4>1, <4>2
      <4>3. CASE d # c
        BY <2>1, <3>1, <3>2, <4>3
      <4> QED BY <4>2, <4>3
    <3> QED BY <3>1, <3>2 DEF KnownExist
  <2>3. ListsAreFresh'
    BY <1>4, <2>1 DEF ReadList, DashboardOK, ListsAreFresh, UnderWay
  <2> QED BY <2>2, <2>3
<1>5. ASSUME NEW c \in 1..MaxLists, ListOver(c)
      PROVE  /\ ~UnderWay(c)' /\ asked'[c].state # "read" /\ asked'[c].then = Unassigned
             /\ \A d \in 1..MaxLists \ {c} : asked'[d] = asked[d]
  BY <1>2, <1>5 DEF ListOver, noCall, UnderWay
<1>6. ASSUME NEW c \in 1..MaxLists, ListArrives(c) PROVE Lists2
  <2>1. current' \in {current, asked[c].then, Unassigned}
    BY <1>6 DEF ListArrives, fallback
  <2>2. KnownExist'
    BY <1>2, <1>5, <1>6, <2>1 DEF ListArrives, DashboardOK, KnownExist
  <2>3. ListsAreFresh'
    BY <1>5, <1>6 DEF ListArrives, DashboardOK, ListsAreFresh, UnderWay
  <2> QED BY <2>2, <2>3
<1>7. ASSUME NEW c \in 1..MaxLists, ListFails(c) PROVE Lists2
  <2>1. KnownExist'
    BY <1>2, <1>5, <1>7 DEF ListFails, DashboardOK, KnownExist
  <2>2. ListsAreFresh'
    BY <1>5, <1>7 DEF ListFails, DashboardOK, ListsAreFresh, UnderWay
  <2> QED BY <2>1, <2>2
<1>8. ASSUME NEW p, ChooseProject(p) PROVE Lists2
  BY <1>2, <1>8 DEF ChooseProject, DashboardOK, KnownExist, ListsAreFresh, UnderWay
<1>9. ASSUME NEW p, DeleteProject(p) PROVE Lists2
  <2>1. /\ alive' \subseteq alive /\ projects' = projects /\ current' = current /\ imports' = imports
        /\ AskList(Unassigned) \/ (asked' = asked /\ overlap' = overlap)
    BY <1>9 DEF DeleteProject
  <2>2. CASE AskList(Unassigned)
    BY <1>2, <2>1, <2>2, AskedLists
  <2>3. CASE asked' = asked /\ overlap' = overlap
    BY <2>1, <2>3 DEF DashboardOK, KnownExist, ListsAreFresh, UnderWay
  <2> QED BY <2>1, <2>2, <2>3
<1>10. ASSUME \/ \E i \in Items : EditHome(i)
              \/ OpenExport \/ CloseImport
              \/ \E kinds \in extent.reads : Gather(kinds)
              \/ \E b \in BOOLEAN : ExportJson(b)
       PROVE  Lists2
  BY <1>10, SameLists DEF EditHome, OpenExport, CloseImport, Gather, ExportJson, projectVars
<1>11. ASSUME NEW n \in 1..MaxImports,
              ClickImport(n) \/ ImportFails(n) \/ \E i \in Items : CreateCopy(n, i)
       PROVE  Lists2
  <2>1. \A m \in 1..MaxImports : imports'[m].stage \in {"none", "project"}
                                   => imports[m].stage \in {"none", "project"}
    BY <1>1, <1>11, StagesAdvance
  <2> QED BY <1>11, <2>1, SameLists DEF ClickImport, ImportFails, CreateCopy, projectVars
<1>12. ASSUME NEW n \in 1..MaxImports, NextKind(n) PROVE Lists2
  <2>1. \A m \in 1..MaxImports : imports'[m].stage \in {"none", "project"}
                                   => imports[m].stage \in {"none", "project"} /\ n # m
    BY <1>1, <1>12, StagesAdvance
  <2>2. n \in Everywhere /\ projects' = projects /\ current' = current /\ alive' = alive
    BY <1>12 DEF NextKind, Everywhere
  <2>3. CASE AskList(n)
    BY <2>1, <2>2, <2>3, AskedLists
  <2>4. CASE asked' = asked /\ overlap' = overlap
    BY <2>1, <2>2, <2>4, SameLists
  <2> QED BY <1>12, <2>3, <2>4 DEF NextKind
<1>13. ASSUME NEW n \in 1..MaxImports, CreateProject(n) PROVE Lists2
  <2>1. /\ imports[n].stage = "project" /\ alive' = alive \cup {n}
        /\ projects' = projects /\ current' = current /\ asked' = asked /\ overlap' = overlap
    BY <1>13 DEF CreateProject, projectVars
  <2>2. /\ imports'[n].stage \in {"credential", "failed"}
        /\ \A m \in 1..MaxImports \ {n} : imports'[m] = imports[m]
    BY <1>2, <1>13 DEF CreateProject, Import
  <2>3. KnownExist'
    BY <2>1, <2>2 DEF DashboardOK, KnownExist
  <2>4. ListsAreFresh'
    BY <2>1 DEF DashboardOK, KnownExist, ListsAreFresh, UnderWay
  <2> QED BY <2>3, <2>4
<1>14. Lists2
  BY <1>3, <1>4, <1>6, <1>7, <1>8, <1>9, <1>10, <1>11, <1>12, <1>13 DEF TransferNext
<1> QED BY <1>1, <1>14 DEF DashboardOK

(* The dashboard goes where it was going, unless that project is gone, in  *)
(* whatever order projects are created, deleted, listed and chosen.        *)
THEOREM DashboardLeavesOnlyDeleted == TransferSpec => LeavesOnlyDeleted
<1>1. TransferInit => DashboardOK
  BY DashboardInit
<1>2. DashboardOK /\ [TransferNext]_transferVars => DashboardOK'
  BY DashboardNext
<1>3. ASSUME DashboardOK, NEW c \in 1..MaxLists, ListArrives(c), ~overlap
      PROVE  LET p == IF asked[c].then = Unassigned THEN current ELSE asked[c].then
             IN  current' = p \/ p \notin alive
  <2> DEFINE p == IF asked[c].then = Unassigned THEN current ELSE asked[c].then
  <2>1. asked[c].state = "read" /\ current' = fallback(p, asked[c].list)
    BY <1>3 DEF ListArrives
  <2>2. p \in alive => p \in asked[c].list
    BY <1>3, <2>1 DEF DashboardOK, ListsAreFresh, UnderWay
  <2> QED BY <2>1, <2>2 DEF fallback
<1>4. DashboardOK /\ [TransferNext]_transferVars =>
        [\A c \in 1..MaxLists : (ListArrives(c) /\ ~overlap) =>
           LET p == IF asked[c].then = Unassigned THEN current ELSE asked[c].then
           IN  current' = p \/ p \notin alive]_transferVars
  BY <1>3
<1> QED BY <1>1, <1>2, <1>4, PTL DEF TransferSpec, LeavesOnlyDeleted
----------------------------------------------------------------------------

RecordOK(k, r) ==
  r # Gone => DOMAIN r = Fields[k] /\ \A f \in Fields[k] : r[f] \in Domain(f)

InventoryOK ==
  /\ records = [k \in Kinds |-> [i \in Ids[k] |-> records[k][i]]]
  /\ \A k \in Kinds : \A i \in Ids[k] : RecordOK(k, records[k][i]) /\ RecordOK(k, shown[k][i])
  /\ bound \in [Ids["vpn"] -> Profiles \cup {NoProfile}]
  /\ container \in [Ids["vpn"] -> Profiles \cup {NoProfile, NoContainer}]
  /\ active \in Buckets /\ submitted \in Nat /\ plan \in Plans
  /\ \A k \in Kinds : \A m \in 1..MaxSaves : m > submitted => records[k][m] = Gone

(* What is not typed is as the record had it, as far as it can be shown.   *)
(* No fetch but that of the VPN edited is under way, unless crossed.       *)
PanelOK ==
  /\ tab \in Kinds /\ editing \in Ids[tab] \cup {NoId}
  /\ DOMAIN form = Fields[tab] /\ \A f \in Fields[tab] : form[f] \in Domain(f)
  /\ \A f \in Fields[tab] \ typed : form[f] = fill(tab, seen)[f]
  /\ "project" \notin typed
  /\ editing = NoId => seen = emptyForm(tab)
  /\ profile \in Profiles \cup {NoProfile} /\ fetches \subseteq Ids["vpn"]
  /\ editing # NoId /\ tab = "vpn" /\ ~crossed => fetches \subseteq {editing}
  /\ ProfileShownIsOwn

(* What a submission carries: the project its form was filled with, unless *)
(* the save is one that moves it; the update of a profile carries none.    *)
SaveOK(s) ==
  /\ s = [kind |-> s.kind, id |-> s.id, new |-> s.new, body |-> s.body, profile |-> s.profile,
          step |-> s.step, mounted |-> s.mounted, typed |-> s.typed, seen |-> s.seen,
          elsewhere |-> s.elsewhere]
  /\ s.kind \in Kinds /\ s.step \in {"post", "posted", "bind", "bound", "put", "done"}
  /\ s.step # "post" => s.id \in Ids[s.kind]
  /\ s.step = "post" => DOMAIN s.body = Fields[s.kind]
  /\ s.step = "bind" \/ s.profile # NoProfile => s.kind = "vpn"
  /\ s.profile \in Profiles \cup {NoProfile}
  /\ DOMAIN s.body \subseteq Fields[s.kind]
  /\ s.kind # "ipsec" => Fields[s.kind] \ {"project"} \subseteq DOMAIN s.body
  /\ \A f \in DOMAIN s.body : s.body[f] \in Domain(f)
  /\ \A f \in DOMAIN s.body \ {"project"} : f \in s.typed \/ s.body[f] = s.seen[f]
  /\ s.kind \in {"vpn", "host", "service"} =>
       /\ "project" \in DOMAIN s.body
       /\ s.body["project"] = s.seen["project"] \/ movesProject(s)
  /\ s.step = "put" /\ s.kind = "ipsec" => "project" \notin DOMAIN s.body

SavesOK ==
  /\ saves = [n \in 1..MaxSaves |-> saves[n]]
  /\ \A n \in 1..MaxSaves : saves[n] # noSave =>
       /\ SaveOK(saves[n]) /\ n <= submitted
       /\ saves[n].step = "post" => \A k \in Kinds : records[k][n] = Gone

(* A container that is not built from the binding will be.                 *)
Rebuilds(v) == \E n \in 1..MaxSaves : /\ saves[n] # noSave /\ saves[n].step = "put"
                                     /\ saves[n].kind = "vpn" /\ saves[n].id = v
BuiltOrRebuilds ==
  \A v \in Ids["vpn"] :
    \/ records["vpn"][v] = Gone \/ v \in astray \/ v \in skipped \/ Rebuilds(v)
    \/ container[v] \in {Built(records["vpn"][v], bound[v]), NoContainer}

FormsInv == InventoryOK /\ PanelOK /\ SavesOK /\ BuiltOrRebuilds

LEMMA FormsTyped == FormsInv => FormsTypeOK
  BY DEF FormsInv, FormsTypeOK, InventoryOK, PanelOK, SavesOK, SaveOK

LEMMA ContainersFollow == FormsInv => ContainerUsesBinding
  BY DEF FormsInv, BuiltOrRebuilds, Rebuilds, ContainerUsesBinding

----------------------------------------------------------------------------
LEMMA Submissions == /\ MaxSaves \in Nat
                     /\ \A k \in Kinds : 1..MaxSaves \subseteq Ids[k]
                     /\ \A k \in Kinds : Ids[k] = Old[k] \cup 1..MaxSaves
  BY FormsAssumption DEF Ids

LEMMA BlankAllowed == \A f \in Secrets \cup {"project"} : Blank \in Domain(f)
  BY DEF Secrets, Domain, Buckets

(* The empty form of each kind, and a form filled from a record.           *)
LEMMA EmptyForms ==
  ASSUME NEW k \in Kinds
  PROVE  /\ DOMAIN emptyForm(k) = Fields[k]
         /\ \A f \in Fields[k] : emptyForm(k)[f] \in Domain(f)
         /\ \A f \in Fields[k] : emptyForm(k)[f] = fill(k, emptyForm(k))[f]
<1>1. CASE k = "vpn"
  BY <1>1 DEF Kinds, Fields, emptyForm, Forms, VpnForm, Domain, Buckets, fill
<1>2. CASE k = "host"
  BY <1>2 DEF Kinds, Fields, emptyForm, Forms, HostForm, Domain, Buckets, fill
<1>3. CASE k = "service"
  BY <1>3 DEF Kinds, Fields, emptyForm, Forms, ServiceForm, Domain, Buckets, fill
<1>4. CASE k = "credential"
  BY <1>4 DEF Kinds, Fields, emptyForm, Forms, CredentialForm, Domain, Buckets, fill
<1>5. CASE k = "ipsec"
  <2>1. emptyForm(k) = [name |-> Blank, mode |-> "eap", psk |-> Blank, login |-> Blank,
                        keypair |-> Blank, project |-> Blank]
    BY <1>5 DEF emptyForm, Forms, IpsecCredentialForm, Kinds
  <2>2. Fields[k] = {"name", "mode", "psk", "login", "keypair", "project"}
    BY <2>1 DEF Fields
  <2>3. Domain("mode") = IkeModes /\ "eap" \in IkeModes
    BY DEF Domain, IkeModes, modeNeeds
  <2>4. \A f \in Fields[k] : emptyForm(k)[f] \in Domain(f)
    BY <2>1, <2>2, <2>3 DEF Domain, Buckets
  <2> QED BY <1>5, <2>1, <2>2, <2>4 DEF fill, Secrets
<1> QED BY <1>1, <1>2, <1>3, <1>4, <1>5 DEF Kinds

LEMMA FilledForms ==
  ASSUME NEW k \in Kinds, NEW r, r # Gone, RecordOK(k, r)
  PROVE  /\ DOMAIN fill(k, r) = Fields[k]
         /\ \A f \in Fields[k] : fill(k, r)[f] \in Domain(f)
  BY BlankAllowed DEF fill, RecordOK

(* A list shows records, or nothing.                                       *)
LEMMA ListedRecords ==
  ASSUME NEW all, NEW p, \A k \in Kinds : \A i \in Ids[k] : RecordOK(k, all[k][i])
  PROVE  \A k \in Kinds : \A i \in Ids[k] : RecordOK(k, Lists(all, p)[k][i])
  BY DEF Lists, RecordOK

LEMMA FormsInitInv == ASSUME FormsInit PROVE FormsInv
<1>1. \A k \in Kinds : \A i \in Ids[k] : RecordOK(k, records[k][i])
  BY FormsAssumption DEF FormsInit, RecordOK
<1>2. \A k \in Kinds : \A i \in Ids[k] : RecordOK(k, shown[k][i])
  BY <1>1, ListedRecords DEF FormsInit
<1>3. \A k \in Kinds : \A m \in 1..MaxSaves : records[k][m] = Gone
  BY FormsAssumption, Submissions DEF FormsInit
<1>4. \A v \in Ids["vpn"] : bound[v] \in Profiles \cup {NoProfile}
  BY FormsAssumption DEF FormsInit
<1>5. container \in [Ids["vpn"] -> Profiles \cup {NoProfile, NoContainer}]
  BY <1>4 DEF FormsInit, Built
<1>6. InventoryOK
  BY <1>1, <1>2, <1>3, <1>4, <1>5 DEF FormsInit, InventoryOK, Buckets
<1>7. PanelOK
  BY EmptyForms DEF FormsInit, PanelOK, ProfileShownIsOwn, Kinds
<1>8. SavesOK
  BY DEF FormsInit, SavesOK
<1>9. BuiltOrRebuilds
  BY DEF FormsInit, BuiltOrRebuilds
<1> QED BY <1>6, <1>7, <1>8, <1>9 DEF FormsInv

(* Steps that leave the server alone.                                      *)
LEMMA ServerAlone ==
  ASSUME FormsInv, UNCHANGED <<inventory, plan, active>>, submitted' = submitted,
         shown' = shown, UNCHANGED saves
  PROVE  InventoryOK' /\ SavesOK' /\ BuiltOrRebuilds'
  BY DEF FormsInv, inventory, InventoryOK, SavesOK, BuiltOrRebuilds, Rebuilds

(* A submission whose form goes away is otherwise what it was.             *)
LEMMA Unmounted ==
  ASSUME NEW s, SaveOK(s), NEW t, t = [s EXCEPT !.mounted = FALSE]
  PROVE  /\ SaveOK(t) /\ t # noSave
         /\ t.step = s.step /\ t.kind = s.kind /\ t.id = s.id
<1>1. t = [kind |-> s.kind, id |-> s.id, new |-> s.new, body |-> s.body, profile |-> s.profile,
           step |-> s.step, mounted |-> FALSE, typed |-> s.typed, seen |-> s.seen,
           elsewhere |-> s.elsewhere]
  BY DEF SaveOK
<1>2. t # noSave
  BY <1>1 DEF SaveOK, noSave
<1>3. /\ t.kind = s.kind /\ t.id = s.id /\ t.body = s.body /\ t.profile = s.profile
      /\ t.step = s.step /\ t.typed = s.typed /\ t.seen = s.seen /\ t.new = s.new
      /\ t.elsewhere = s.elsewhere /\ t.mounted = FALSE
  BY <1>1
<1>4. SaveOK(t)
  BY <1>1, <1>3 DEF SaveOK, movesProject
<1> QED BY <1>2, <1>3, <1>4

LEMMA SetTabInv == ASSUME FormsInv, NEW k \in Kinds, SetTab(k) PROVE FormsInv'
<1> USE DEF SetTab, inventory, limits
<1>1. InventoryOK'
  BY DEF FormsInv, InventoryOK
<1>2. PanelOK'
  BY EmptyForms DEF PanelOK, ProfileShownIsOwn
<1>3. ASSUME NEW n \in 1..MaxSaves
      PROVE  IF saves[n] = noSave THEN saves'[n] = noSave
             ELSE saves'[n] = [saves[n] EXCEPT !.mounted = FALSE]
  BY <1>3
<1>4. ASSUME NEW n \in 1..MaxSaves, saves[n] # noSave
      PROVE  /\ SaveOK(saves'[n]) /\ saves'[n] # noSave
             /\ saves'[n].step = saves[n].step /\ saves'[n].kind = saves[n].kind
             /\ saves'[n].id = saves[n].id
  BY <1>3, <1>4, Unmounted DEF FormsInv, SavesOK
<1>5. SavesOK'
  BY <1>3, <1>4 DEF FormsInv, SavesOK
<1>6. BuiltOrRebuilds'
  BY <1>4 DEF FormsInv, BuiltOrRebuilds, Rebuilds
<1> QED BY <1>1, <1>2, <1>5, <1>6 DEF FormsInv

LEMMA StartEditInv == ASSUME FormsInv, NEW i \in Ids[tab], StartEdit(i) PROVE FormsInv'
<1> USE DEF StartEdit
<1>1. InventoryOK' /\ SavesOK' /\ BuiltOrRebuilds'
  BY ServerAlone DEF inventory, limits
<1>2. tab \in Kinds /\ RecordOK(tab, shown[tab][i])
  BY DEF FormsInv, PanelOK, InventoryOK
<1>3. DOMAIN form' = Fields[tab] /\ \A f \in Fields[tab] : form'[f] \in Domain(f)
  BY <1>2, FilledForms
<1>4. PanelOK'
  BY <1>2, <1>3, FormsAssumption DEF FormsInv, PanelOK, ProfileShownIsOwn
<1> QED BY <1>1, <1>4 DEF FormsInv

LEMMA BindingAnswersInv ==
  ASSUME FormsInv, NEW v \in Ids["vpn"], BindingAnswers(v) PROVE FormsInv'
<1> USE DEF BindingAnswers
<1>1. InventoryOK' /\ SavesOK' /\ BuiltOrRebuilds'
  BY ServerAlone DEF inventory, limits
<1>2. PanelOK'
  BY DEF FormsInv, PanelOK, InventoryOK, ProfileShownIsOwn
<1> QED BY <1>1, <1>2 DEF FormsInv

LEMMA SetFieldInv ==
  ASSUME FormsInv, NEW f \in Fields[tab], NEW v \in Domain(f), SetField(f, v) PROVE FormsInv'
<1> USE DEF SetField
<1>1. InventoryOK' /\ SavesOK' /\ BuiltOrRebuilds'
  BY ServerAlone DEF inventory
<1>2. f # "project"
  BY DEF Visible, Secrets
<1>3. PanelOK'
  BY <1>2 DEF FormsInv, PanelOK, ProfileShownIsOwn
<1> QED BY <1>1, <1>3 DEF FormsInv

LEMMA ChooseProfileInv ==
  ASSUME FormsInv, NEW p \in Profiles \cup {NoProfile}, ChooseProfile(p) PROVE FormsInv'
<1> USE DEF ChooseProfile
<1>1. InventoryOK' /\ SavesOK' /\ BuiltOrRebuilds'
  BY ServerAlone DEF inventory
<1>2. PanelOK'
  BY DEF FormsInv, PanelOK, ProfileShownIsOwn
<1> QED BY <1>1, <1>2 DEF FormsInv

LEMMA ResetPanel == ASSUME FormsInv, Reset, tab' = tab, fetches' = fetches PROVE PanelOK'
  BY EmptyForms DEF FormsInv, PanelOK, Reset, ProfileShownIsOwn

LEMMA CancelEditInv == ASSUME FormsInv, CancelEdit PROVE FormsInv'
<1>1. InventoryOK' /\ SavesOK' /\ BuiltOrRebuilds'
  BY ServerAlone DEF CancelEdit, inventory, limits
<1>2. PanelOK'
  BY ResetPanel DEF CancelEdit
<1> QED BY <1>1, <1>2 DEF FormsInv

LEMMA PanelAlone == ASSUME FormsInv, UNCHANGED <<panel, fetches>> PROVE PanelOK'
  BY DEF FormsInv, panel, PanelOK, ProfileShownIsOwn

LEMMA SwitchProjectInv ==
  ASSUME FormsInv, NEW p \in Buckets, SwitchProject(p) PROVE FormsInv'
<1> USE DEF SwitchProject, inventory
<1>1. PanelOK'
  BY PanelAlone
<1>2. \A k \in Kinds : \A i \in Ids[k] : RecordOK(k, shown'[k][i])
  BY ListedRecords DEF FormsInv, InventoryOK
<1>3. InventoryOK'
  BY <1>2 DEF FormsInv, InventoryOK
<1>4. SavesOK' /\ BuiltOrRebuilds'
  BY DEF FormsInv, SavesOK, BuiltOrRebuilds, Rebuilds
<1> QED BY <1>1, <1>3, <1>4 DEF FormsInv

----------------------------------------------------------------------------
(* A submission carries what the form shows.                               *)
LEMMA PayloadOK ==
  ASSUME FormsInv
  PROVE  LET b == payload(tab) IN
         /\ DOMAIN b \subseteq Fields[tab]
         /\ editing = NoId => DOMAIN b = Fields[tab]
         /\ tab # "ipsec" => Fields[tab] \ {"project"} \subseteq DOMAIN b
         /\ \A f \in DOMAIN b : b[f] \in Domain(f)
         /\ \A f \in DOMAIN b \ {"project"} : f \in typed \/ b[f] = seen[f]
         /\ tab \in {"vpn", "host", "service"} =>
              /\ "project" \in DOMAIN b
              /\ \/ b["project"] = seen["project"]
                 \/ active # seen["project"] /\ (tab = "vpn" => seen["project"] = Blank)
         /\ tab = "ipsec" /\ editing # NoId => "project" \notin DOMAIN b
<1> DEFINE b == payload(tab)
<1>1. DOMAIN b = {f \in Fields[tab] :
                    /\ tab = "ipsec" /\ editing # NoId /\ f \in Secrets => form[f] # Blank
                    /\ tab \in {"credential", "ipsec"} /\ editing # NoId => f # "project"}
  BY DEF payload
<1>2. \A f \in DOMAIN b \ {"project"} : b[f] = form[f]
  BY DEF payload
<1>3. ASSUME NEW f \in DOMAIN b PROVE b[f] \in Domain(f)
  <2>1. CASE f # "project"
    BY <1>1, <1>2, <1>3, <2>1 DEF FormsInv, PanelOK
  <2>2. CASE f = "project"
    <3>1. Domain(f) = Buckets
      BY <2>2 DEF Domain
    <3>2. form[f] \in Buckets
      BY <1>1, <1>3, <3>1 DEF FormsInv, PanelOK
    <3>3. b[f] \in {form[f], active}
      BY <1>3, <2>2 DEF payload
    <3> QED BY <3>1, <3>2, <3>3 DEF FormsInv, InventoryOK
  <2> QED BY <2>1, <2>2
<1>4. ASSUME NEW f \in DOMAIN b \ {"project"}, f \notin typed PROVE b[f] = seen[f]
  <2>1. f \in Fields[tab] /\ form[f] = fill(tab, seen)[f]
    BY <1>1, <1>4 DEF FormsInv, PanelOK
  <2>2. CASE tab = "ipsec" /\ f \in Secrets
    <3>1. form[f] = Blank
      BY <2>1, <2>2 DEF fill
    <3>2. editing = NoId
      BY <1>1, <1>4, <2>2, <3>1
    <3>3. seen = emptyForm(tab) /\ tab \in Kinds
      BY <3>2 DEF FormsInv, PanelOK
    <3>4. seen[f] = form[f]
      BY <2>1, <3>3, EmptyForms
    <3> QED BY <1>2, <3>4
  <2>3. CASE ~(tab = "ipsec" /\ f \in Secrets)
    BY <1>2, <2>1, <2>3 DEF fill
  <2> QED BY <2>2, <2>3
<1>5. DOMAIN b \subseteq Fields[tab]
  BY <1>1
<1>6. editing = NoId => DOMAIN b = Fields[tab]
  BY <1>1
<1>7. tab # "ipsec" => Fields[tab] \ {"project"} \subseteq DOMAIN b
  BY <1>1
<1>9. "project" \in Fields[tab]
  BY DEF FormsInv, PanelOK, Kinds, Fields, emptyForm, Forms, VpnForm, HostForm, ServiceForm,
         CredentialForm, IpsecCredentialForm
<1>10. ASSUME tab \in {"vpn", "host", "service"}
       PROVE  /\ "project" \in DOMAIN b
              /\ \/ b["project"] = seen["project"]
                 \/ active # seen["project"] /\ (tab = "vpn" => seen["project"] = Blank)
  <2>1. "project" \in DOMAIN b
    BY <1>1, <1>9, <1>10
  <2>2. form["project"] = seen["project"]
    BY <1>9, <1>10 DEF FormsInv, PanelOK, fill
  <2>3. b["project"] = IF tab = "vpn" /\ form["project"] # Blank THEN form["project"] ELSE active
    BY <1>1, <2>1 DEF payload
  <2> QED BY <2>1, <2>2, <2>3
<1>11. tab = "ipsec" /\ editing # NoId => "project" \notin DOMAIN b
  BY <1>1
<1> HIDE DEF b
<1>8. /\ \A f \in DOMAIN b : b[f] \in Domain(f)
      /\ \A f \in DOMAIN b \ {"project"} : f \in typed \/ b[f] = seen[f]
  BY <1>3, <1>4
<1> QED BY <1>5, <1>6, <1>7, <1>8, <1>10, <1>11 DEF b

LEMMA SubmitFormInv == ASSUME FormsInv, SubmitForm PROVE FormsInv'
<1> USE DEF SubmitForm
<1> DEFINE m == submitted + 1
           b == payload(tab)
           new == [kind |-> tab, id |-> editing, new |-> editing = NoId, body |-> b,
                   profile |-> IF tab = "vpn" THEN profile ELSE NoProfile,
                   step |-> IF editing = NoId THEN "post" ELSE IF tab = "vpn" THEN "bind" ELSE "put",
                   mounted |-> TRUE, typed |-> typed, seen |-> seen,
                   elsewhere |-> active # seen.project]
<1>1. m \in 1..MaxSaves /\ submitted' = m /\ m > submitted /\ submitted \in Nat
  BY FormsAssumption DEF FormsInv, InventoryOK
<1>2. saves' = [saves EXCEPT ![m] = new]
  OBVIOUS
<1>3. PanelOK'
  BY PanelAlone
<1>4. /\ records' = records /\ bound' = bound /\ container' = container /\ astray' = astray
      /\ skipped' = skipped /\ shown' = shown /\ active' = active /\ plan' = plan
  BY DEF inventory
<1>5. SaveOK(new)
  <2>1. /\ DOMAIN b \subseteq Fields[tab]
        /\ editing = NoId => DOMAIN b = Fields[tab]
        /\ tab # "ipsec" => Fields[tab] \ {"project"} \subseteq DOMAIN b
        /\ \A f \in DOMAIN b : b[f] \in Domain(f)
        /\ \A f \in DOMAIN b \ {"project"} : f \in typed \/ b[f] = seen[f]
        /\ tab \in {"vpn", "host", "service"} =>
             /\ "project" \in DOMAIN b
             /\ \/ b["project"] = seen["project"]
                \/ active # seen["project"] /\ (tab = "vpn" => seen["project"] = Blank)
        /\ tab = "ipsec" /\ editing # NoId => "project" \notin DOMAIN b
    BY PayloadOK
  <2>2. /\ tab \in Kinds /\ editing \in Ids[tab] \cup {NoId}
        /\ profile \in Profiles \cup {NoProfile}
    BY DEF FormsInv, PanelOK
  <2> HIDE DEF b
  <2>3. tab \in {"vpn", "host", "service"} => b["project"] = seen["project"] \/ movesProject(new)
    BY <2>1 DEF movesProject
  <2> QED BY <2>1, <2>2, <2>3 DEF SaveOK
<1> HIDE DEF new, m, SubmitForm
<1>6. InventoryOK'
  <2>1. ASSUME NEW k \in Kinds, NEW n \in 1..MaxSaves, n > submitted' PROVE records[k][n] = Gone
    <3>1. n > submitted
      BY <1>1, <2>1, Submissions
    <3> QED BY <3>1 DEF FormsInv, InventoryOK
  <2>2. submitted' \in Nat
    BY <1>1, Submissions
  <2> QED BY <1>4, <2>1, <2>2 DEF FormsInv, InventoryOK
<1>7. \A k \in Kinds : records[k][m] = Gone
  BY <1>1 DEF FormsInv, InventoryOK
<1>8. saves[m] = noSave
  BY <1>1 DEF FormsInv, SavesOK
<1>9. /\ saves' = [n \in 1..MaxSaves |-> saves'[n]] /\ saves'[m] = new
      /\ \A n \in 1..MaxSaves \ {m} : saves'[n] = saves[n]
  BY <1>1, <1>2 DEF FormsInv, SavesOK
<1>10. ASSUME NEW n \in 1..MaxSaves, saves'[n] # noSave
       PROVE  /\ SaveOK(saves'[n]) /\ n <= submitted'
              /\ saves'[n].step = "post" => \A k \in Kinds : records'[k][n] = Gone
  <2>1. CASE n = m
    BY <1>1, <1>4, <1>5, <1>7, <1>9, <2>1
  <2>2. CASE n # m
    BY <1>1, <1>4, <1>9, <1>10, <2>2 DEF FormsInv, SavesOK, m
  <2> QED BY <2>1, <2>2
<1>11. SavesOK'
  BY <1>9, <1>10 DEF SavesOK
<1>12. BuiltOrRebuilds'
  BY <1>4, <1>8, <1>9 DEF FormsInv, BuiltOrRebuilds, Rebuilds
<1> QED BY <1>3, <1>6, <1>11, <1>12 DEF FormsInv

(* A submission that goes on to another step.                              *)
LEMMA StepAhead ==
  ASSUME NEW s, SaveOK(s), s.step # "post", NEW step,
         step \in {"posted", "bind", "bound", "put", "done"},
         step \in {"bind", "put"} => s.kind = "vpn",
         NEW t, t = [s EXCEPT !.step = step]
  PROVE  /\ SaveOK(t) /\ t # noSave
         /\ t.step = step /\ t.kind = s.kind /\ t.id = s.id
<1>1. t = [kind |-> s.kind, id |-> s.id, new |-> s.new, body |-> s.body, profile |-> s.profile,
           step |-> step, mounted |-> s.mounted, typed |-> s.typed, seen |-> s.seen,
           elsewhere |-> s.elsewhere]
  BY DEF SaveOK
<1>2. t # noSave
  BY <1>1 DEF SaveOK, noSave
<1>3. /\ t.kind = s.kind /\ t.id = s.id /\ t.body = s.body /\ t.profile = s.profile
      /\ t.step = step /\ t.typed = s.typed /\ t.seen = s.seen /\ t.new = s.new
      /\ t.elsewhere = s.elsewhere /\ t.mounted = s.mounted
  BY <1>1
<1>4. SaveOK(t)
  BY <1>1, <1>3 DEF SaveOK, movesProject
<1> QED BY <1>2, <1>3, <1>4

(* A submission whose record the server has stored.                        *)
LEMMA RecordStored ==
  ASSUME NEW s, SaveOK(s), NEW i \in Ids[s.kind], NEW step \in {"posted", "done"}, NEW t,
         t = [kind |-> s.kind, id |-> i, new |-> s.new, body |-> s.body, profile |-> s.profile,
              step |-> step, mounted |-> s.mounted, typed |-> s.typed, seen |-> s.seen,
              elsewhere |-> s.elsewhere]
  PROVE  SaveOK(t) /\ t.step = step
<1>1. /\ t.kind = s.kind /\ t.id = i /\ t.body = s.body /\ t.profile = s.profile
      /\ t.step = step /\ t.typed = s.typed /\ t.seen = s.seen /\ t.new = s.new
      /\ t.elsewhere = s.elsewhere /\ t.mounted = s.mounted
  OBVIOUS
<1>2. SaveOK(t)
  BY <1>1 DEF SaveOK, movesProject
<1> QED BY <1>1, <1>2

(* What is stored from a body.                                             *)
LEMMA MergedOK ==
  ASSUME NEW s, SaveOK(s), NEW old,
         s.step = "post" \/ (old # Gone /\ RecordOK(s.kind, old))
  PROVE  RecordOK(s.kind, merged(s.kind, s.body, old))
<1>1. ASSUME NEW f \in Fields[s.kind] PROVE merged(s.kind, s.body, old)[f] \in Domain(f)
  <2>1. CASE f \in DOMAIN s.body
    BY <2>1 DEF merged, SaveOK
  <2>2. CASE f \notin DOMAIN s.body /\ s.kind = "ipsec"
    BY <2>2 DEF merged, SaveOK, RecordOK
  <2>3. CASE f \notin DOMAIN s.body /\ s.kind # "ipsec"
    BY <2>3, BlankAllowed DEF merged, SaveOK
  <2> QED BY <2>1, <2>2, <2>3
<1> QED BY <1>1 DEF RecordOK, merged

----------------------------------------------------------------------------
(* One submission goes on, or is over.                                     *)
LEMMA OneSave ==
  ASSUME FormsInv, NEW n \in 1..MaxSaves, saves[n] # noSave,
         NEW t, t = noSave \/ (SaveOK(t) /\ t.step # "post"),
         saves' = [saves EXCEPT ![n] = t], submitted' = submitted,
         \A m \in 1..MaxSaves \ {n} : saves[m] # noSave /\ saves[m].step = "post"
                                       => \A k \in Kinds : records'[k][m] = Gone
  PROVE  /\ SavesOK' /\ saves'[n] = t
         /\ \A m \in 1..MaxSaves \ {n} : saves'[m] = saves[m]
<1>1. /\ saves' = [m \in 1..MaxSaves |-> saves'[m]] /\ saves'[n] = t
      /\ \A m \in 1..MaxSaves \ {n} : saves'[m] = saves[m]
  BY DEF FormsInv, SavesOK
<1>2. n <= submitted
  BY DEF FormsInv, SavesOK
<1> QED BY <1>1, <1>2 DEF FormsInv, SavesOK

(* Another submission's promise to build is not affected.                  *)
LEMMA StillRebuilds ==
  ASSUME NEW n \in 1..MaxSaves, saves[n] # noSave => saves[n].step # "put" \/ saves[n].kind # "vpn",
         \A m \in 1..MaxSaves \ {n} : saves'[m] = saves[m]
  PROVE  \A v \in Ids["vpn"] : Rebuilds(v) => Rebuilds(v)'
  BY DEF Rebuilds

LEMMA StoreInv ==
  ASSUME FormsInv, NEW n \in 1..MaxSaves, saves[n] # noSave,
         NEW i \in Ids[saves[n].kind], NEW r, RecordOK(saves[n].kind, r),
         (i = n /\ saves[n].step = "post") \/ (i = saves[n].id /\ records[saves[n].kind][i] # Gone),
         NEW step \in {"posted", "done"}, Store(n, i, r, step),
         \A v \in Ids["vpn"] : (v # i \/ saves[n].kind # "vpn")
                               => /\ v \in astray => v \in astray'
                                  /\ v \in skipped => v \in skipped'
  PROVE  FormsInv'
<1> DEFINE k == saves[n].kind
           t == [saves[n] EXCEPT !.id = i, !.step = step]
<1>1. /\ SaveOK(saves[n]) /\ k \in Kinds /\ n <= submitted /\ n \in Ids[k]
      /\ saves[n].step = "post" => records[k][n] = Gone
  BY Submissions DEF FormsInv, SavesOK, SaveOK
<1>2. /\ records' = [records EXCEPT ![k][i] = r] /\ saves' = [saves EXCEPT ![n] = t]
      /\ container' = IF k = "vpn" THEN [container EXCEPT ![i] = Built(r, bound[i])] ELSE container
      /\ shown' = shown /\ bound' = bound /\ active' = active /\ plan' = plan
      /\ submitted' = submitted /\ UNCHANGED <<panel, fetches>>
  BY DEF Store, stays, limits
<1>3. /\ records' = [j \in Kinds |-> [h \in Ids[j] |-> records'[j][h]]]
      /\ records'[k][i] = r
      /\ \A j \in Kinds : \A h \in Ids[j] : j # k \/ h # i => records'[j][h] = records[j][h]
  <2>1. records' = [records EXCEPT ![k] = [records[k] EXCEPT ![i] = r]]
    BY <1>2
  <2>2. /\ \A j \in Kinds : records[j] = [h \in Ids[j] |-> records[j][h]]
        /\ records = [j \in Kinds |-> records[j]]
    BY DEF FormsInv, InventoryOK
  <2>3. records'[k] = [records[k] EXCEPT ![i] = r] /\ \A j \in Kinds \ {k} : records'[j] = records[j]
    BY <1>1, <2>1, <2>2
  <2>4. /\ records'[k] = [h \in Ids[k] |-> records'[k][h]] /\ records'[k][i] = r
        /\ \A h \in Ids[k] \ {i} : records'[k][h] = records[k][h]
    BY <1>1, <2>2, <2>3
  <2>5. \A j \in Kinds \ {k} : records'[j] = [h \in Ids[j] |-> records'[j][h]]
    BY <2>2, <2>3
  <2>6. \A j \in Kinds : records'[j] = [h \in Ids[j] |-> records'[j][h]]
    BY <2>4, <2>5
  <2>7. records' = [j \in Kinds |-> records'[j]]
    BY <2>1, <2>2
  <2> QED BY <2>3, <2>4, <2>6, <2>7
<1>4. SaveOK(t) /\ t.step = step
  <2> DEFINE s == saves[n]
  <2>1. SaveOK(s) /\ i \in Ids[s.kind] /\ t = [s EXCEPT !.id = i, !.step = step]
    BY <1>1
  <2> HIDE DEF s, t
  <2>2. t = [kind |-> s.kind, id |-> i, new |-> s.new, body |-> s.body, profile |-> s.profile,
             step |-> step, mounted |-> s.mounted, typed |-> s.typed, seen |-> s.seen,
             elsewhere |-> s.elsewhere]
    BY <2>1 DEF SaveOK
  <2> QED BY <2>1, <2>2, RecordStored
<1>5. ASSUME NEW m \in 1..MaxSaves \ {n}, saves[m] # noSave, saves[m].step = "post", NEW j \in Kinds
      PROVE  records'[j][m] = Gone
  <2>1. records[j][m] = Gone /\ records[k][m] = Gone /\ m \in Ids[j]
    BY <1>1, <1>5, Submissions DEF FormsInv, SavesOK
  <2>2. j = k => m # i
    BY <2>1
  <2> QED BY <1>3, <2>1, <2>2
<1> HIDE DEF t, k
<1>6. /\ SavesOK' /\ saves'[n] = t
      /\ \A m \in 1..MaxSaves \ {n} : saves'[m] = saves[m]
  BY <1>2, <1>4, <1>5, OneSave
<1>7. PanelOK'
  BY <1>2, PanelAlone
<1>8. ASSUME NEW j \in Kinds, NEW m \in 1..MaxSaves, m > submitted PROVE records'[j][m] = Gone
  <2>1. records[j][m] = Gone /\ records[k][m] = Gone /\ m \in Ids[j] /\ submitted \in Nat
    BY <1>1, <1>8, Submissions DEF FormsInv, InventoryOK
  <2>2. n # m
    BY <1>1, <1>8, <2>1, Submissions
  <2>3. j = k => m # i
    BY <1>1, <2>1, <2>2 DEF k
  <2> QED BY <1>3, <2>1, <2>3
<1>9. \A j \in Kinds : \A h \in Ids[j] : RecordOK(j, records'[j][h]) /\ RecordOK(j, shown'[j][h])
  BY <1>1, <1>2, <1>3 DEF FormsInv, InventoryOK, k
<1>10. container' \in [Ids["vpn"] -> Profiles \cup {NoProfile, NoContainer}]
  BY <1>2 DEF FormsInv, InventoryOK, Built, k
<1>11. InventoryOK'
  BY <1>2, <1>3, <1>8, <1>9, <1>10 DEF FormsInv, InventoryOK
<1>12. ASSUME NEW v \in Ids["vpn"], k = "vpn", v = i
       PROVE  container'[v] = Built(records'["vpn"][v], bound'[v])
  BY <1>2, <1>3, <1>12 DEF FormsInv, InventoryOK
<1>13. ASSUME NEW v \in Ids["vpn"], v # i \/ k # "vpn"
       PROVE  \/ records'["vpn"][v] = Gone \/ v \in astray' \/ v \in skipped' \/ Rebuilds(v)'
              \/ container'[v] \in {Built(records'["vpn"][v], bound'[v]), NoContainer}
  <2>1. records'["vpn"][v] = records["vpn"][v] /\ container'[v] = container[v] /\ bound' = bound
    BY <1>2, <1>3, <1>13 DEF Kinds, FormsInv, InventoryOK
  <2>2. Rebuilds(v) => Rebuilds(v)'
    <3>1. ASSUME NEW m \in 1..MaxSaves, saves[m] # noSave, saves[m].step = "put",
                 saves[m].kind = "vpn", saves[m].id = v, m # n
          PROVE  Rebuilds(v)'
      BY <1>6, <3>1 DEF Rebuilds
    <3>2. saves[n].step = "put" => saves[n].kind # "vpn" \/ saves[n].id # v
      BY <1>13 DEF k
    <3> QED BY <3>1, <3>2 DEF Rebuilds
  <2> QED BY <1>13, <2>1, <2>2 DEF FormsInv, BuiltOrRebuilds, k
<1>14. BuiltOrRebuilds'
  BY <1>12, <1>13 DEF BuiltOrRebuilds
<1> QED BY <1>6, <1>7, <1>11, <1>14 DEF FormsInv

LEMMA PostRecordInv == ASSUME FormsInv, NEW n \in 1..MaxSaves, PostRecord(n) PROVE FormsInv'
<1> DEFINE r == merged(saves[n].kind, saves[n].body, <<>>)
<1>1. SaveOK(saves[n]) /\ saves[n] # noSave /\ saves[n].step = "post" /\ n \in Ids[saves[n].kind]
  BY Submissions DEF PostRecord, AtStep, FormsInv, SavesOK, SaveOK
<1>2. RecordOK(saves[n].kind, r)
  BY <1>1, MergedOK
<1>3. Store(n, n, r, "posted") /\ astray' = astray /\ skipped' = skipped
  BY DEF PostRecord
<1> HIDE DEF r
<1> QED BY <1>1, <1>2, <1>3, StoreInv

LEMMA PutRecordInv == ASSUME FormsInv, NEW n \in 1..MaxSaves, PutRecord(n) PROVE FormsInv'
<1> DEFINE k == saves[n].kind
           i == saves[n].id
           r == merged(k, saves[n].body, records[k][i])
<1>1. /\ SaveOK(saves[n]) /\ saves[n] # noSave /\ saves[n].step = "put"
      /\ k \in Kinds /\ i \in Ids[k] /\ records[k][i] # Gone
  BY DEF PutRecord, AtStep, FormsInv, SavesOK, SaveOK
<1>2. RecordOK(k, records[k][i])
  BY <1>1 DEF FormsInv, InventoryOK
<1>3. RecordOK(k, r)
  BY <1>1, <1>2, MergedOK
<1>4. Store(n, i, r, "done")
  BY DEF PutRecord
<1>5. \A v \in Ids["vpn"] : (v # i \/ saves[n].kind # "vpn")
                               => /\ v \in astray => v \in astray'
                                  /\ v \in skipped => v \in skipped'
  BY DEF PutRecord
<1>6. records[saves[n].kind][i] # Gone /\ i = saves[n].id /\ i \in Ids[saves[n].kind]
      /\ RecordOK(saves[n].kind, r)
  BY <1>1, <1>3
<1>7. "done" \in {"posted", "done"}
  OBVIOUS
<1> HIDE DEF r, i, k
<1> QED BY <1>1, <1>4, <1>5, <1>6, <1>7, StoreInv

LEMMA BindInv == ASSUME FormsInv, NEW n \in 1..MaxSaves, Bind(n) PROVE FormsInv'
<1> DEFINE w == saves[n].id
           last == saves[n].new /\ saves[n].body.command # "ipsec"
           t == [saves[n] EXCEPT !.step = IF last THEN "bound" ELSE "put"]
<1>1. /\ SaveOK(saves[n]) /\ saves[n] # noSave /\ saves[n].step = "bind"
      /\ saves[n].kind = "vpn" /\ w \in Ids["vpn"]
      /\ saves[n].profile \in Profiles \cup {NoProfile}
  BY DEF Bind, AtStep, FormsInv, SavesOK, SaveOK
<1>2. /\ bound' = [bound EXCEPT ![w] = saves[n].profile] /\ saves' = [saves EXCEPT ![n] = t]
      /\ skipped' = IF last /\ records["vpn"][w].command = "ipsec" THEN skipped \cup {w} ELSE skipped
      /\ records' = records /\ container' = container /\ astray' = astray /\ shown' = shown
      /\ active' = active /\ plan' = plan /\ submitted' = submitted
      /\ UNCHANGED <<panel, fetches>>
  BY DEF Bind, Advance, stays, limits
<1>3. PanelOK'
  BY <1>2, PanelAlone
<1>4. /\ SaveOK(t) /\ t # noSave /\ t.step = IF last THEN "bound" ELSE "put"
      /\ t.kind = "vpn" /\ t.id = w
  BY <1>1, StepAhead
<1> HIDE DEF t, last
<1>5. /\ SavesOK' /\ saves'[n] = t
      /\ \A m \in 1..MaxSaves \ {n} : saves'[m] = saves[m]
  <2>1. \A m \in 1..MaxSaves \ {n} : saves[m] # noSave /\ saves[m].step = "post"
                                       => \A k \in Kinds : records'[k][m] = Gone
    BY <1>2 DEF FormsInv, SavesOK
  <2>2. t.step # "post"
    BY <1>4
  <2> QED BY <1>1, <1>2, <1>4, <2>1, <2>2, OneSave
<1>6. InventoryOK'
  BY <1>1, <1>2 DEF FormsInv, InventoryOK
<1>7. \A v \in Ids["vpn"] : Rebuilds(v) => Rebuilds(v)'
  BY <1>1, <1>5, StillRebuilds
<1>8. \A v \in Ids["vpn"] \ {w} : bound'[v] = bound[v]
  BY <1>2 DEF FormsInv, InventoryOK
<1>9. CASE last /\ records["vpn"][w].command = "ipsec"
  <2>1. w \in skipped' /\ skipped \subseteq skipped'
    BY <1>2, <1>9
  <2>2. BuiltOrRebuilds'
    BY <1>2, <1>7, <1>8, <2>1 DEF FormsInv, BuiltOrRebuilds
  <2> QED BY <1>3, <1>5, <1>6, <2>2 DEF FormsInv
<1>10. CASE last /\ records["vpn"][w].command # "ipsec"
  <2>1. Built(records["vpn"][w], bound'[w]) = Built(records["vpn"][w], bound[w])
    BY <1>10 DEF Built
  <2>2. BuiltOrRebuilds'
    BY <1>2, <1>7, <1>8, <1>10, <2>1 DEF FormsInv, BuiltOrRebuilds
  <2> QED BY <1>3, <1>5, <1>6, <2>2 DEF FormsInv
<1>11. CASE ~last
  <2>1. ASSUME NEW v \in Ids["vpn"], v = w PROVE Rebuilds(v)'
    BY <1>4, <1>5, <1>11, <2>1 DEF Rebuilds
  <2>2. skipped' = skipped
    BY <1>2, <1>11
  <2>3. BuiltOrRebuilds'
    <3>1. ASSUME NEW v \in Ids["vpn"], v # w
          PROVE  \/ records'["vpn"][v] = Gone \/ v \in astray' \/ v \in skipped' \/ Rebuilds(v)'
                 \/ container'[v] \in {Built(records'["vpn"][v], bound'[v]), NoContainer}
      BY <1>2, <1>7, <1>8, <2>2, <3>1 DEF FormsInv, BuiltOrRebuilds
    <3> QED BY <2>1, <3>1 DEF BuiltOrRebuilds
  <2> QED BY <1>3, <1>5, <1>6, <2>3 DEF FormsInv
<1> QED BY <1>9, <1>10, <1>11

(* A list read again shows records, or nothing.                            *)
LEMMA ListedAgain ==
  ASSUME FormsInv, ListAgain(records)
  PROVE  \A k \in Kinds : \A i \in Ids[k] : RecordOK(k, shown'[k][i])
  BY ListedRecords DEF ListAgain, FormsInv, InventoryOK

LEMMA PostedThenBindInv ==
  ASSUME FormsInv, NEW n \in 1..MaxSaves, PostedThenBind(n) PROVE FormsInv'
<1> DEFINE t == [saves[n] EXCEPT !.step = "bind"]
<1>1. /\ SaveOK(saves[n]) /\ saves[n] # noSave /\ saves[n].step = "posted"
      /\ saves[n].kind = "vpn"
  BY DEF PostedThenBind, AtStep, FormsInv, SavesOK, SaveOK
<1>2. /\ saves' = [saves EXCEPT ![n] = t] /\ ListAgain(records)
      /\ records' = records /\ container' = container /\ astray' = astray /\ bound' = bound
      /\ skipped' = skipped /\ active' = active /\ plan' = plan /\ submitted' = submitted
      /\ UNCHANGED <<panel, fetches>>
  BY DEF PostedThenBind, Advance, stays, limits, inventory
<1>3. PanelOK'
  BY <1>2, PanelAlone
<1>4. SaveOK(t) /\ t.step # "post"
  BY <1>1, StepAhead
<1> HIDE DEF t
<1>5. /\ SavesOK'
      /\ \A m \in 1..MaxSaves \ {n} : saves'[m] = saves[m]
  <2>1. \A m \in 1..MaxSaves \ {n} : saves[m] # noSave /\ saves[m].step = "post"
                                       => \A k \in Kinds : records'[k][m] = Gone
    BY <1>2 DEF FormsInv, SavesOK
  <2> QED BY <1>1, <1>2, <1>4, <2>1, OneSave
<1>6. InventoryOK'
  BY <1>2, ListedAgain DEF FormsInv, InventoryOK
<1>7. \A v \in Ids["vpn"] : Rebuilds(v) => Rebuilds(v)'
  BY <1>1, <1>5, StillRebuilds
<1>8. BuiltOrRebuilds'
  BY <1>2, <1>7 DEF FormsInv, BuiltOrRebuilds
<1> QED BY <1>3, <1>5, <1>6, <1>8 DEF FormsInv

LEMMA FinishInv == ASSUME FormsInv, NEW n \in 1..MaxSaves, Finish(n) PROVE FormsInv'
<1>1. saves[n] # noSave /\ saves[n].step # "put"
  BY DEF Finish, AtStep
<1>2. /\ saves' = [saves EXCEPT ![n] = noSave] /\ (ListAgain(records) \/ shown' = shown)
      /\ records' = records /\ container' = container /\ astray' = astray /\ bound' = bound
      /\ skipped' = skipped /\ active' = active /\ plan' = plan /\ submitted' = submitted
  BY DEF Finish, limits, inventory
<1>3. PanelOK'
  <2>1. CASE saves[n].mounted
    BY <2>1, ResetPanel DEF Finish
  <2>2. CASE ~saves[n].mounted
    BY <2>2, PanelAlone DEF Finish
  <2> QED BY <2>1, <2>2
<1>4. SavesOK' /\ \A m \in 1..MaxSaves \ {n} : saves'[m] = saves[m]
  <2>1. \A m \in 1..MaxSaves \ {n} : saves[m] # noSave /\ saves[m].step = "post"
                                       => \A k \in Kinds : records'[k][m] = Gone
    BY <1>2 DEF FormsInv, SavesOK
  <2> QED BY <1>1, <1>2, <2>1, OneSave
<1>5. InventoryOK'
  BY <1>2, ListedAgain DEF FormsInv, InventoryOK
<1>6. \A v \in Ids["vpn"] : Rebuilds(v) => Rebuilds(v)'
  BY <1>1, <1>4, StillRebuilds
<1>7. BuiltOrRebuilds'
  BY <1>2, <1>6 DEF FormsInv, BuiltOrRebuilds
<1> QED BY <1>3, <1>4, <1>5, <1>7 DEF FormsInv

LEMMA FailInv == ASSUME FormsInv, NEW n \in 1..MaxSaves, Fail(n) PROVE FormsInv'
<1>1. saves[n] # noSave
  BY DEF Fail
<1>2. /\ saves' = [saves EXCEPT ![n] = noSave] /\ shown' = shown
      /\ records' = records /\ container' = container /\ bound' = bound
      /\ skipped' = skipped /\ active' = active /\ plan' = plan /\ submitted' = submitted
      /\ astray \subseteq astray' /\ UNCHANGED <<panel, fetches>>
  BY DEF Fail, stays, limits
<1>3. PanelOK'
  BY <1>2, PanelAlone
<1>4. SavesOK' /\ \A m \in 1..MaxSaves \ {n} : saves'[m] = saves[m]
  <2>1. \A m \in 1..MaxSaves \ {n} : saves[m] # noSave /\ saves[m].step = "post"
                                       => \A k \in Kinds : records'[k][m] = Gone
    BY <1>2 DEF FormsInv, SavesOK
  <2> QED BY <1>1, <1>2, <2>1, OneSave
<1>5. InventoryOK'
  BY <1>2 DEF FormsInv, InventoryOK
<1>6. \A v \in Ids["vpn"] : Rebuilds(v) => Rebuilds(v)' \/ v \in astray'
  BY <1>4 DEF Rebuilds, Fail
<1>7. BuiltOrRebuilds'
  BY <1>2, <1>6 DEF FormsInv, BuiltOrRebuilds
<1> QED BY <1>3, <1>4, <1>5, <1>7 DEF FormsInv

LEMMA RemoveEntryInv ==
  ASSUME FormsInv, NEW k \in Kinds, NEW i \in Ids[k], RemoveEntry(k, i) PROVE FormsInv'
<1>1. /\ records' = [records EXCEPT ![k][i] = Gone]
      /\ shown' = Lists(records', active)
      /\ bound' = [v \in Ids["vpn"] |-> IF k = "ipsec" /\ bound[v] = i THEN NoProfile ELSE bound[v]]
      /\ astray' = astray \cup {v \in Ids["vpn"] : bound'[v] # bound[v]}
      /\ container' = IF k = "vpn" THEN [container EXCEPT ![i] = NoContainer] ELSE container
      /\ active' = active /\ plan' = plan /\ submitted' = submitted /\ saves' = saves
      /\ skipped' = skipped /\ UNCHANGED <<panel, fetches>>
  BY DEF RemoveEntry, ListAgain
<1>2. PanelOK'
  BY <1>1, PanelAlone
<1>3. /\ records' = [j \in Kinds |-> [h \in Ids[j] |-> records'[j][h]]]
      /\ records'[k][i] = Gone
      /\ \A j \in Kinds : \A h \in Ids[j] : j # k \/ h # i => records'[j][h] = records[j][h]
  <2>1. records' = [records EXCEPT ![k] = [records[k] EXCEPT ![i] = Gone]]
    BY <1>1
  <2>2. /\ \A j \in Kinds : records[j] = [h \in Ids[j] |-> records[j][h]]
        /\ records = [j \in Kinds |-> records[j]]
    BY DEF FormsInv, InventoryOK
  <2>3. records'[k] = [records[k] EXCEPT ![i] = Gone] /\ \A j \in Kinds \ {k} : records'[j] = records[j]
    BY <2>1, <2>2
  <2>4. /\ records'[k] = [h \in Ids[k] |-> records'[k][h]] /\ records'[k][i] = Gone
        /\ \A h \in Ids[k] \ {i} : records'[k][h] = records[k][h]
    BY <2>2, <2>3
  <2>5. \A j \in Kinds \ {k} : records'[j] = [h \in Ids[j] |-> records'[j][h]]
    BY <2>2, <2>3
  <2>6. \A j \in Kinds : records'[j] = [h \in Ids[j] |-> records'[j][h]]
    BY <2>4, <2>5
  <2>7. records' = [j \in Kinds |-> records'[j]]
    BY <2>1, <2>2
  <2> QED BY <2>3, <2>4, <2>6, <2>7
<1>4. \A j \in Kinds : \A h \in Ids[j] : records[j][h] = Gone => records'[j][h] = Gone
  BY <1>3
<1>5. ASSUME NEW j \in Kinds, NEW h \in Ids[j] PROVE RecordOK(j, records'[j][h])
  <2>1. RecordOK(j, records[j][h]) /\ RecordOK(j, Gone)
    BY DEF FormsInv, InventoryOK, RecordOK
  <2> QED BY <1>3, <2>1
<1>6. \A j \in Kinds : \A h \in Ids[j] : RecordOK(j, shown'[j][h])
  BY <1>1, <1>5, ListedRecords
<1>7. /\ bound' \in [Ids["vpn"] -> Profiles \cup {NoProfile}]
      /\ container' \in [Ids["vpn"] -> Profiles \cup {NoProfile, NoContainer}]
  BY <1>1 DEF FormsInv, InventoryOK
<1>8. InventoryOK'
  <2>1. \A j \in Kinds : \A m \in 1..MaxSaves : m > submitted => records'[j][m] = Gone
    BY <1>4, Submissions DEF FormsInv, InventoryOK
  <2> QED BY <1>1, <1>3, <1>5, <1>6, <1>7, <2>1 DEF FormsInv, InventoryOK
<1>9. SavesOK'
  <2>1. ASSUME NEW n \in 1..MaxSaves, saves[n] # noSave, saves[n].step = "post", NEW j \in Kinds
        PROVE  records'[j][n] = Gone
    BY <1>4, <2>1, Submissions DEF FormsInv, SavesOK
  <2> QED BY <1>1, <2>1 DEF FormsInv, SavesOK
<1>10. ASSUME NEW v \in Ids["vpn"], ~(k = "vpn" /\ v = i), v \notin astray'
       PROVE  /\ records'["vpn"][v] = records["vpn"][v] /\ container'[v] = container[v]
              /\ bound'[v] = bound[v] /\ v \notin astray
  BY <1>1, <1>3, <1>10 DEF Kinds, FormsInv, InventoryOK
<1>11. BuiltOrRebuilds'
  BY <1>1, <1>3, <1>10 DEF FormsInv, BuiltOrRebuilds, Rebuilds
<1> QED BY <1>2, <1>8, <1>9, <1>11 DEF FormsInv

LEMMA FormsNextInv == ASSUME FormsInv, [FormsNext]_formVars PROVE FormsInv'
<1>1. CASE UNCHANGED formVars
  BY <1>1, ServerAlone, PanelAlone DEF formVars, panel, limits, FormsInv
<1>2. CASE FormsNext
  BY <1>2, SetTabInv, StartEditInv, BindingAnswersInv, SetFieldInv, ChooseProfileInv,
     CancelEditInv, SwitchProjectInv, SubmitFormInv, PostRecordInv, PutRecordInv, BindInv,
     PostedThenBindInv, FinishInv, FailInv, RemoveEntryInv DEF FormsNext
<1> QED BY <1>1, <1>2

LEMMA FormsAlways == FormsSpec => []FormsInv
<1>1. FormsInit => FormsInv
  BY FormsInitInv
<1>2. FormsInv /\ [FormsNext]_formVars => FormsInv'
  BY FormsNextInv
<1> QED BY <1>1, <1>2, PTL DEF FormsSpec

(* The panel, the submissions and the inventory behind them keep their     *)
(* types.                                                                  *)
THEOREM FormsTypesHold == FormsSpec => []FormsTypeOK
  BY FormsAlways, FormsTyped, PTL

(* Saves that overlap, fail or are repeated leave a container built from   *)
(* the binding in force, but for the cases the property names.             *)
THEOREM ContainersUseBindings == FormsSpec => []ContainerUsesBinding
  BY FormsAlways, ContainersFollow, PTL

(* The profile shown was fetched or chosen for the VPN that is edited, if  *)
(* no other fetch was out when the edit began.                             *)
THEOREM ProfilesShownAreOwn == FormsSpec => []ProfileShownIsOwn
<1>1. FormsInv => ProfileShownIsOwn
  BY DEF FormsInv, PanelOK
<1> QED BY <1>1, FormsAlways, PTL

(* A record that exists before and after a step changes only by a PUT.     *)
LEMMA OnlyPutsChange ==
  ASSUME FormsInv, FormsNext, NEW k \in Kinds, NEW i \in Ids[k],
         records[k][i] # Gone, records'[k][i] # Gone, records'[k][i] # records[k][i]
  PROVE  \E n \in 1..MaxSaves :
           /\ PutRecord(n) /\ saves[n].kind = k /\ saves[n].id = i
           /\ records'[k][i] = merged(k, saves[n].body, records[k][i])
<1>1. CASE records' = records
  BY <1>1
<1>2. \A j \in Kinds : \A h \in Ids[j] : \A r :
        records' = [records EXCEPT ![j][h] = r] => j = k /\ h = i /\ records'[k][i] = r
  BY DEF FormsInv, InventoryOK
<1>3. ASSUME NEW n \in 1..MaxSaves, PostRecord(n) PROVE FALSE
  <2>1. saves[n].kind \in Kinds /\ n \in Ids[saves[n].kind] /\ records[saves[n].kind][n] = Gone
    BY <1>3, Submissions DEF PostRecord, AtStep, FormsInv, SavesOK, SaveOK
  <2>2. PICK r : records' = [records EXCEPT ![saves[n].kind][n] = r]
    BY <1>3 DEF PostRecord, Store
  <2> QED BY <1>2, <2>1, <2>2
<1>4. ASSUME NEW n \in 1..MaxSaves, PutRecord(n)
      PROVE  /\ saves[n].kind = k /\ saves[n].id = i
             /\ records'[k][i] = merged(k, saves[n].body, records[k][i])
  <2>1. saves[n].kind \in Kinds /\ saves[n].id \in Ids[saves[n].kind]
    BY <1>4 DEF PutRecord, AtStep, FormsInv, SavesOK, SaveOK
  <2>2. records' = [records EXCEPT ![saves[n].kind][saves[n].id] =
                      merged(saves[n].kind, saves[n].body, records[saves[n].kind][saves[n].id])]
    BY <1>4 DEF PutRecord, Store
  <2> QED BY <1>2, <2>1, <2>2
<1>5. ASSUME NEW j \in Kinds, NEW h \in Ids[j], RemoveEntry(j, h) PROVE FALSE
  BY <1>2, <1>5 DEF RemoveEntry
<1>6. CASE \/ \E j \in Kinds : SetTab(j)
           \/ \E h \in Ids[tab] : StartEdit(h)
           \/ \E v \in Ids["vpn"] : BindingAnswers(v)
           \/ \E f \in Fields[tab] : \E v \in Domain(f) : SetField(f, v)
           \/ \E p \in Profiles \cup {NoProfile} : ChooseProfile(p)
           \/ CancelEdit
           \/ \E p \in Buckets : SwitchProject(p)
           \/ SubmitForm
  BY <1>1, <1>6 DEF SetTab, StartEdit, BindingAnswers, SetField, ChooseProfile, CancelEdit,
                    SwitchProject, SubmitForm, inventory
<1>7. CASE \E n \in 1..MaxSaves : Bind(n) \/ PostedThenBind(n) \/ Finish(n) \/ Fail(n)
  BY <1>1, <1>7 DEF Bind, PostedThenBind, Finish, Fail, inventory
<1> QED BY <1>3, <1>4, <1>5, <1>6, <1>7 DEF FormsNext

(* What was neither typed nor out of date is put back as it was, but for   *)
(* the project in a save that moves it.                                    *)
LEMMA UntypedIsKept ==
  ASSUME NEW s, SaveOK(s), s.step = "put", NEW old, NEW f \in Fields[s.kind],
         merged(s.kind, s.body, old)[f] # old[f]
  PROVE  f \in s.typed \/ s.seen[f] # old[f] \/ (f = "project" /\ movesProject(s))
<1>1. CASE f # "project"
  BY <1>1 DEF SaveOK, merged
<1>2. CASE f = "project" /\ s.kind \in {"vpn", "host", "service"}
  BY <1>2 DEF SaveOK, merged
<1>3. CASE f = "project" /\ s.kind = "credential"
  BY <1>3 DEF movesProject
<1>4. CASE f = "project" /\ s.kind = "ipsec"
  BY <1>4 DEF SaveOK, merged
<1> QED BY <1>1, <1>2, <1>3, <1>4 DEF SaveOK, Kinds

LEMMA ChangesAreTyped ==
  ASSUME FormsInv, FormsNext, NEW k \in Kinds, NEW i \in Ids[k], NEW f \in Fields[k],
         records[k][i] # Gone, records'[k][i] # Gone, records'[k][i][f] # records[k][i][f]
  PROVE  \E n \in 1..MaxSaves :
           /\ saves[n] # noSave /\ saves[n].kind = k /\ saves[n].id = i
           /\ \/ f \in saves[n].typed \/ saves[n].seen[f] # records[k][i][f]
              \/ f = "project" /\ movesProject(saves[n])
<1>1. PICK n \in 1..MaxSaves :
        /\ PutRecord(n) /\ saves[n].kind = k /\ saves[n].id = i
        /\ records'[k][i] = merged(k, saves[n].body, records[k][i])
  BY OnlyPutsChange
<1>2. saves[n] # noSave /\ SaveOK(saves[n]) /\ saves[n].step = "put"
  BY <1>1 DEF PutRecord, AtStep, FormsInv, SavesOK
<1>3. merged(saves[n].kind, saves[n].body, records[k][i])[f] # records[k][i][f]
  BY <1>1
<1>4. f \in Fields[saves[n].kind]
  BY <1>1
<1>5. \/ f \in saves[n].typed \/ saves[n].seen[f] # records[k][i][f]
      \/ f = "project" /\ movesProject(saves[n])
  BY <1>2, <1>3, <1>4, UntypedIsKept
<1> QED BY <1>1, <1>2, <1>5

(* Through overlapping and repeated saves, edits that begin before a list  *)
(* is read again, switches of projects under a form, and modes that hide   *)
(* fields: what was not typed stays.  Only the project can change, and     *)
(* only in the cases of movesProject: an owned VPN, for one, is never      *)
(* taken by the project it is shared into.                                 *)
THEOREM UntypedSurvives == FormsSpec => OnlyTypedChanges
<1>1. FormsInv /\ [FormsNext]_formVars =>
        [\A k \in Kinds : \A i \in Ids[k] : \A f \in Fields[k] :
           (records[k][i] # Gone /\ records'[k][i] # Gone /\ records'[k][i][f] # records[k][i][f])
             => \E n \in 1..MaxSaves :
                  /\ saves[n] # noSave /\ saves[n].kind = k /\ saves[n].id = i
                  /\ \/ f \in saves[n].typed \/ saves[n].seen[f] # records[k][i][f]
                     \/ f = "project" /\ movesProject(saves[n])]_formVars
  BY ChangesAreTyped
<1> QED BY <1>1, FormsAlways, PTL DEF FormsSpec, OnlyTypedChanges
==============================================================================
