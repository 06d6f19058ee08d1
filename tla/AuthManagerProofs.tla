------------------------- MODULE AuthManagerProofs -------------------------
(***************************************************************************)
(* Proofs about AuthManager, for any number of handlers, accounts, names,  *)
(* passwords and sessions.                                                 *)
(***************************************************************************)
EXTENDS AuthManager, TLAPS

EditReq  == RoleReq \cup DeleteReq \cup PasswordReq
WriteReq == SetupReq \cup CreateReq \cup EditReq

(* A handler that is about to act holds a request of the right kind, which *)
(* the list it read allows.                                                *)
Control(h) ==
  /\ pc[h] = "admitted" => req[h] \in Caller
  /\ pc[h] = "save" => req[h] \in WriteReq /\ Allowed(req[h], seen[h])
  /\ pc[h] = "open" => req[h] \in LoginReq /\ Allowed(req[h], seen[h])
  /\ pc[h] = "purge" => req[h] \in EditReq

ControlInv == TypeOK /\ \A h \in Handlers : Control(h)

(* The kinds of request are told apart by their op field. *)
LEMMA RequestKinds ==
  ASSUME NEW r \in WriteReq
  PROVE  /\ r.op \in {"setup", "create"} => r \in SetupReq \cup CreateReq
         /\ r.op \in {"role", "delete", "password"} => r \in EditReq
         /\ r.op = "setup" => r \in SetupReq
         /\ r.op = "create" => r \in CreateReq
         /\ r.op = "role" => r \in RoleReq
         /\ r.op = "delete" => r \in DeleteReq
         /\ r.op = "password" => r \in PasswordReq
         /\ r.op \in {"setup", "create", "role", "delete", "password"}
  BY DEF WriteReq, EditReq, SetupReq, CreateReq, RoleReq, DeleteReq, PasswordReq

(* normalizeRole always answers one of the four roles. *)
LEMMA NormalRole == \A x : normalizeRole(x) \in Role
  BY DEF normalizeRole, Role

(* The two edits of the list give lists. *)
LEMMA NewAccountType ==
  ASSUME NEW r \in SetupReq \cup CreateReq
  PROVE  NewAccount(r) \in User
  BY AuthAssumption DEF NewAccount, SetupReq, CreateReq, User, StoredRole, Role, RoleAdmin

LEMMA EditedType ==
  ASSUME NEW r \in EditReq, NEW list \in Users, Allowed(r, list)
  PROVE  Edited(r, list) \in Users
<1>1. CASE r \in RoleReq
  <2>1. list[r.id] \in User /\ r.id \in UserIds /\ r.role \in StoredRole
    BY <1>1, AuthAssumption DEF Allowed, RoleAllowed, RoleReq, Users, Account, StoredRole
  <2>2. Edited(r, list) = [list EXCEPT ![r.id].role = r.role]
    BY <1>1 DEF Edited, RoleReq
  <2> QED BY <2>1, <2>2 DEF Users, Account, User
<1>2. CASE r \in DeleteReq
  BY <1>2 DEF Edited, DeleteReq, Users, Account
<1>3. CASE r \in PasswordReq
  <2>1. list[r.id] \in User /\ r.id \in UserIds /\ r.pw \in Passwords
    BY <1>3 DEF Allowed, PasswordAllowed, PasswordReq, Users, Account
  <2>2. Edited(r, list) = [list EXCEPT ![r.id].pw = r.pw]
    BY <1>3 DEF Edited, PasswordReq
  <2> QED BY <2>1, <2>2 DEF Users, Account, User
<1> QED BY <1>1, <1>2, <1>3 DEF EditReq

LEMMA OpenedType ==
  ASSUME NEW list \in Users, NEW u \in present(list)
  PROVE  opened(u, list) \in Session
  BY NormalRole DEF opened, present, Users, Account, User, Session

----------------------------------------------------------------------------
LEMMA InitControl == Init => ControlInv
<1> SUFFICES ASSUME Init PROVE ControlInv
  OBVIOUS
<1>1. users \in Users /\ legacy \in BOOLEAN
  BY AuthAssumption DEF Init
<1>2. Nobody \in Users /\ issuedIds \subseteq UserIds
  BY DEF Init, Nobody, Users, Account, present
<1>3. TypeOK
  BY <1>1, <1>2 DEF Init, TypeOK, Step
<1> QED BY <1>3 DEF Init, ControlInv, Control

(* One step of the accounts keeps ControlInv: one case per action. *)
LEMMA NextControl == ControlInv /\ [Next]_vars => ControlInv'
<1> SUFFICES ASSUME ControlInv, [Next]_vars PROVE ControlInv'
  OBVIOUS
<1> USE DEF ControlInv
<1>1. CASE UNCHANGED vars
  BY <1>1 DEF vars, TypeOK, Control
<1>2. ASSUME NEW h \in Handlers, Handle(h) PROVE ControlInv'
  <2>1. ASSUME NEW t \in Tokens, Admit(h, t) PROVE ControlInv'
    <3>1. [op |-> "caller", token |-> t, id |-> sessions[t].user,
           role |-> sessions[t].role] \in Caller
      BY <2>1 DEF Admit, TypeOK, Session, Caller
    <3>2. TypeOK'
      BY <2>1, <3>1 DEF Admit, TypeOK, Serve, Goto, Request, Step, store, live
    <3>3. ASSUME NEW g \in Handlers PROVE Control(g)'
      BY <2>1, <3>1 DEF Admit, TypeOK, Control, Serve, Goto
    <3> QED BY <3>2, <3>3
  <2>2. CASE CheckIsSetup(h)
    BY <2>2 DEF CheckIsSetup, TypeOK, Control, Goto, Step, store, live
  <2>3. ASSUME NEW r \in WriteReq, Read(h, r, "save") PROVE ControlInv'
    <3>1. r \in Request
      BY DEF WriteReq, EditReq, Request
    <3>2. TypeOK'
      BY <2>3, <3>1 DEF Read, TypeOK, Serve, Remember, Goto, Step, store, live
    <3>3. ASSUME NEW g \in Handlers PROVE Control(g)'
      BY <2>3 DEF Read, TypeOK, Control, Serve, Remember, Goto
    <3> QED BY <3>2, <3>3
  <2>4. CASE ReadForSetup(h)
    BY <2>3, <2>4 DEF ReadForSetup, WriteReq
  <2>5. CASE ReadForLogin(h)
    <3>1. PICK r \in LoginReq : Read(h, r, "open")
      BY <2>5 DEF ReadForLogin
    <3>2. TypeOK'
      BY <3>1 DEF Read, TypeOK, Serve, Remember, Goto, Step, store, live, Request
    <3>3. ASSUME NEW g \in Handlers PROVE Control(g)'
      BY <3>1 DEF Read, TypeOK, Control, Serve, Remember, Goto
    <3> QED BY <3>2, <3>3
  <2>6. CASE ReadForEdit(h)
    <3>1. Permitted(req[h]) \subseteq WriteReq
      BY DEF Permitted, WriteReq, EditReq
    <3> QED BY <2>3, <2>6, <3>1 DEF ReadForEdit
  <2>7. CASE Refuse(h)
    <3>1. TypeOK'
      BY <2>7 DEF Refuse, Finish, TypeOK, Goto, Remember, Nobody, Users, Account, Step, store, live
    <3>2. ASSUME NEW g \in Handlers PROVE Control(g)'
      BY <2>7 DEF Refuse, Finish, TypeOK, Control, Goto, Remember
    <3> QED BY <3>1, <3>2
  <2>8. CASE SaveNewAccount(h)
    <3>1. req[h] \in SetupReq \cup CreateReq
      BY <2>8, RequestKinds DEF SaveNewAccount, Control
    <3>2. users' \in Users /\ issuedIds' \subseteq UserIds
      BY <2>8, <3>1, NewAccountType DEF SaveNewAccount, TypeOK, Users, Account
    <3>3. TypeOK'
      BY <2>8, <3>2 DEF SaveNewAccount, Finish, TypeOK, Goto, Remember, NoteStale,
                        Nobody, Users, Account, Step, live
    <3>4. ASSUME NEW g \in Handlers PROVE Control(g)'
      BY <2>8 DEF SaveNewAccount, Finish, TypeOK, Control, Goto, Remember
    <3> QED BY <3>3, <3>4
  <2>9. CASE SaveEdit(h)
    <3>1. req[h] \in EditReq /\ Allowed(req[h], seen[h])
      BY <2>9, RequestKinds DEF SaveEdit, Control
    <3>2. users' \in Users
      BY <2>9, <3>1, EditedType DEF SaveEdit, TypeOK
    <3>3. sessions' \in [Tokens -> Session \cup {NoSession}]
      <4>1. CASE req[h].op = "password" /\ sessions[req[h].keep] # NoSession
        <5>1. req[h] \in PasswordReq
          BY <3>1, <4>1, RequestKinds DEF WriteReq
        <5>2. req[h].keep \in Tokens /\ req[h].pw \in Passwords
          BY <5>1 DEF PasswordReq
        <5>3. sessions[req[h].keep] \in Session
          BY <5>2, <4>1 DEF TypeOK
        <5>4. sessions' = [sessions EXCEPT ![req[h].keep].pw = req[h].pw]
          BY <2>9, <4>1 DEF SaveEdit, Proved
        <5> QED BY <5>2, <5>3, <5>4 DEF TypeOK, Session
      <4>2. CASE ~ (req[h].op = "password" /\ sessions[req[h].keep] # NoSession)
        BY <2>9, <4>2 DEF SaveEdit, Proved, TypeOK
      <4> QED BY <4>1, <4>2
    <3>4. TypeOK'
      BY <2>9, <3>2, <3>3 DEF SaveEdit, TypeOK, Goto, Remember, NoteStale, Nobody,
                              Users, Account, Step
    <3>5. ASSUME NEW g \in Handlers PROVE Control(g)'
      BY <2>9, <3>1 DEF SaveEdit, TypeOK, Control, Goto, Remember
    <3> QED BY <3>4, <3>5
  <2>10. CASE SaveFails(h)
    <3>1. TypeOK'
      BY <2>10 DEF SaveFails, Finish, TypeOK, Goto, Remember, Nobody, Users, Account, Step, live
    <3>2. ASSUME NEW g \in Handlers PROVE Control(g)'
      BY <2>10 DEF SaveFails, Finish, TypeOK, Control, Goto, Remember
    <3> QED BY <3>1, <3>2
  <2>11. CASE Purge(h)
    <3>1. TypeOK'
      BY <2>11 DEF Purge, Finish, TypeOK, Goto, Remember, Nobody, Users, Account, Step, store
    <3>2. ASSUME NEW g \in Handlers PROVE Control(g)'
      BY <2>11 DEF Purge, Finish, TypeOK, Control, Goto, Remember
    <3> QED BY <3>1, <3>2
  <2>12. CASE OpenSession(h)
    <3>1. PICK t \in Tokens \ issuedTokens, u \in present(seen[h]) :
            /\ sessions' = [sessions EXCEPT ![t] = opened(u, seen[h])]
            /\ issuedTokens' = issuedTokens \cup {t}
      BY <2>12 DEF OpenSession
    <3>2. opened(u, seen[h]) \in Session
      BY OpenedType DEF TypeOK
    <3>3. TypeOK'
      BY <2>12, <3>1, <3>2 DEF OpenSession, Finish, TypeOK, Goto, Remember, NoteStale,
                               Nobody, Users, Account, Step, store
    <3>4. ASSUME NEW g \in Handlers PROVE Control(g)'
      BY <2>12 DEF OpenSession, Finish, TypeOK, Control, Goto, Remember
    <3> QED BY <3>3, <3>4
  <2> QED BY <1>2, <2>1, <2>2, <2>4, <2>5, <2>6, <2>7, <2>8, <2>9, <2>10, <2>11, <2>12
          DEF Handle
<1>3. ASSUME NEW t \in Tokens, EndSession(t) PROVE ControlInv'
  BY <1>3 DEF EndSession, TypeOK, Control, store
<1>4. CASE Migrate
  <2>1. MigratedAdmin \in User
    BY AuthAssumption DEF MigratedAdmin, User, StoredRole, Role
  <2>2. TypeOK'
    BY <1>4, <2>1 DEF Migrate, TypeOK, Users, Account, store, live
  <2>3. ASSUME NEW g \in Handlers PROVE Control(g)'
    BY <1>4 DEF Migrate, Control
  <2> QED BY <2>2, <2>3
<1>5. CASE MigrateFails
  BY <1>5 DEF MigrateFails, TypeOK, Control, live
<1>6. CASE Restart
  BY <1>6 DEF Restart, TypeOK, Control, Nobody, Users, Account, Step, store
<1> QED BY <1>1, <1>2, <1>3, <1>4, <1>5, <1>6 DEF Next

LEMMA ControlCorrect == Spec => []ControlInv
  BY InitControl, NextControl, PTL DEF Spec

(* The accounts, sessions and handlers always have their types. *)
THEOREM TypeCorrect == Spec => []TypeOK
  BY ControlCorrect, PTL DEF ControlInv

----------------------------------------------------------------------------
(* UniqueNames, and with it the lists the handlers hold. *)

NamesInv == UniqueIn(users) /\ \A h \in Handlers : UniqueIn(seen[h])

LEMMA AddKeepsUnique ==
  ASSUME NEW list \in Users, NEW u \in UserIds, NEW a \in User,
         UniqueIn(list), ~nameTaken(list, a.name)
  PROVE  UniqueIn([list EXCEPT ![u] = a])
  BY DEF UniqueIn, nameTaken, present, Users

LEMMA EditKeepsUnique ==
  ASSUME NEW r \in EditReq, NEW list \in Users, Allowed(r, list), UniqueIn(list)
  PROVE  UniqueIn(Edited(r, list))
<1> DEFINE new == Edited(r, list)
<1>1. \A u \in present(new) : u \in present(list) /\ new[u].name = list[u].name
  <2>1. CASE r \in RoleReq
    <3>1. list[r.id] \in User /\ r.id \in UserIds
      BY <2>1, AuthAssumption DEF Allowed, RoleAllowed, RoleReq, Users, Account
    <3>2. new = [list EXCEPT ![r.id].role = r.role]
      BY <2>1 DEF Edited, RoleReq
    <3> QED BY <3>1, <3>2, AuthAssumption DEF present, Users, User
  <2>2. CASE r \in DeleteReq
    BY <2>2 DEF Edited, DeleteReq, present, Users
  <2>3. CASE r \in PasswordReq
    <3>1. list[r.id] \in User /\ r.id \in UserIds
      BY <2>3, AuthAssumption DEF Allowed, PasswordAllowed, PasswordReq, Users, Account
    <3>2. new = [list EXCEPT ![r.id].pw = r.pw]
      BY <2>3 DEF Edited, PasswordReq
    <3> QED BY <3>1, <3>2, AuthAssumption DEF present, Users, User
  <2> QED BY <2>1, <2>2, <2>3 DEF EditReq
<1> QED BY <1>1 DEF UniqueIn

LEMMA NobodyUnique == UniqueIn(Nobody) /\ Nobody \in Users
  BY DEF UniqueIn, Nobody, present, Users, Account

LEMMA NextNames ==
  ControlInv /\ NamesInv /\ [Next]_vars => NamesInv'
<1> SUFFICES ASSUME ControlInv, NamesInv, [Next]_vars PROVE NamesInv'
  OBVIOUS
<1> USE DEF NamesInv
<1>1. ASSUME NEW h \in Handlers, seen' = seen \/ Remember(h, users) \/ Remember(h, Nobody),
             UniqueIn(users')
      PROVE  NamesInv'
  BY <1>1, NobodyUnique DEF Remember, ControlInv, TypeOK
<1>2. ASSUME NEW h \in Handlers, Handle(h) PROVE NamesInv'
  <2>1. CASE SaveNewAccount(h)
    <3>1. req[h] \in SetupReq \cup CreateReq /\ Allowed(req[h], seen[h])
      BY <2>1, RequestKinds DEF SaveNewAccount, Control, ControlInv
    <3>2. ~nameTaken(seen[h], NewAccount(req[h]).name)
      BY <3>1 DEF Allowed, CreateAllowed, NewAccount, SetupReq, CreateReq
    <3>3. UniqueIn(users')
      <4>1. PICK u \in UserIds : users' = [seen[h] EXCEPT ![u] = NewAccount(req[h])]
        BY <2>1 DEF SaveNewAccount
      <4>2. NewAccount(req[h]) \in User /\ seen[h] \in Users
        BY <3>1, NewAccountType DEF ControlInv, TypeOK
      <4> QED BY <3>2, <4>1, <4>2, AddKeepsUnique
    <3> QED BY <1>1, <2>1, <3>3 DEF SaveNewAccount, Finish
  <2>2. CASE SaveEdit(h)
    <3>1. req[h] \in EditReq /\ Allowed(req[h], seen[h])
      BY <2>2, RequestKinds DEF SaveEdit, Control, ControlInv
    <3>2. UniqueIn(users')
      BY <2>2, <3>1, EditKeepsUnique DEF SaveEdit, ControlInv, TypeOK
    <3> QED BY <1>1, <2>2, <3>2 DEF SaveEdit
  <2>3. CASE SaveFails(h)
    BY <1>1, <2>3, NobodyUnique DEF SaveFails, Finish
  <2>4. CASE ReadForSetup(h) \/ ReadForLogin(h) \/ ReadForEdit(h)
    <3>1. users' = users /\ Remember(h, users)
      BY <2>4 DEF ReadForSetup, ReadForLogin, ReadForEdit, Read, store
    <3> QED BY <1>1, <3>1
  <2>5. CASE (\E t \in Tokens : Admit(h, t)) \/ CheckIsSetup(h)
    BY <1>1, <2>5 DEF Admit, CheckIsSetup, store
  <2>6. CASE Refuse(h) \/ Purge(h) \/ OpenSession(h)
    BY <1>1, <2>6 DEF Refuse, Purge, OpenSession, Finish, store
  <2> QED BY <1>2, <2>1, <2>2, <2>3, <2>4, <2>5, <2>6 DEF Handle
<1>3. CASE Migrate
  <2>1. CASE UNCHANGED users
    BY <1>3, <2>1 DEF Migrate
  <2>2. CASE present(users) = {} /\ \E u \in UserIds : users' = [users EXCEPT ![u] = MigratedAdmin]
    BY <1>3, <2>2 DEF Migrate, UniqueIn, present, ControlInv, TypeOK, Users
  <2> QED BY <1>3, <2>1, <2>2 DEF Migrate, MigrationDue, store
<1>4. CASE Restart
  BY <1>4, NobodyUnique DEF Restart, store
<1>5. CASE UNCHANGED vars \/ MigrateFails \/ \E t \in Tokens : EndSession(t)
  BY <1>5 DEF vars, MigrateFails, EndSession, store
<1> QED BY <1>2, <1>3, <1>4, <1>5 DEF Next

(* However the handlers interleave, no two accounts share a name.          *)
THEOREM NamesAreUnique == Spec => []UniqueNames
<1>1. Init => NamesInv
  BY AuthAssumption, NobodyUnique DEF Init, NamesInv
<1>2. NamesInv => UniqueNames
  BY DEF NamesInv, UniqueNames
<1> QED BY <1>1, <1>2, NextNames, ControlCorrect, PTL DEF Spec

----------------------------------------------------------------------------
LEMMA EditLeavesAccount ==
  ASSUME NEW r \in EditReq, NEW list \in Users, Allowed(r, list)
  PROVE  present(Edited(r, list)) # {}
<1>1. CASE r \in RoleReq
  <2>1. list[r.id] \in User /\ r.id \in UserIds
    BY <1>1, AuthAssumption DEF Allowed, RoleAllowed, RoleReq, Users, Account
  <2>2. Edited(r, list)[r.id] = [list[r.id] EXCEPT !.role = r.role]
    BY <1>1, <2>1 DEF Edited, RoleReq, Users
  <2>3. Edited(r, list)[r.id] \in User
    BY <1>1, <2>1, <2>2, AuthAssumption DEF RoleReq, User, StoredRole
  <2> QED BY <2>1, <2>3, AuthAssumption DEF present
<1>2. CASE r \in DeleteReq
  BY <1>2 DEF Allowed, DeleteAllowed, Edited, DeleteReq, present, Users
<1>3. CASE r \in PasswordReq
  <2>1. list[r.id] \in User /\ r.id \in UserIds
    BY <1>3, AuthAssumption DEF Allowed, PasswordAllowed, PasswordReq, Users, Account
  <2>2. Edited(r, list)[r.id] = [list[r.id] EXCEPT !.pw = r.pw]
    BY <1>3, <2>1 DEF Edited, PasswordReq, Users
  <2>3. Edited(r, list)[r.id] \in User
    BY <1>3, <2>1, <2>2 DEF PasswordReq, User
  <2> QED BY <2>1, <2>3, AuthAssumption DEF present
<1> QED BY <1>1, <1>2, <1>3 DEF EditReq

(* Once there is an account, only a write that fails half way leaves none. *)
THEOREM AccountKept == Spec => KeepsAnAccount
<1>1. ControlInv /\ [Next]_vars =>
        [present(users) # {} =>
           present(users') # {} \/ \E h \in Handlers : SaveFails(h)]_vars
  <2> SUFFICES ASSUME ControlInv, [Next]_vars, present(users) # {},
                      \A h \in Handlers : ~SaveFails(h), users' # users
               PROVE  present(users') # {}
    BY DEF vars
  <2>1. CASE \E h \in Handlers : SaveNewAccount(h)
    <3>1. PICK h \in Handlers, u \in UserIds :
            /\ SaveNewAccount(h)
            /\ users' = [seen[h] EXCEPT ![u] = NewAccount(req[h])]
      BY <2>1 DEF SaveNewAccount
    <3>2. NewAccount(req[h]) # NoUser
      BY <3>1, RequestKinds, NewAccountType, AuthAssumption
      DEF SaveNewAccount, Control, ControlInv
    <3> QED BY <3>1, <3>2 DEF present, ControlInv, TypeOK, Users
  <2>2. CASE \E h \in Handlers : SaveEdit(h)
    <3>1. PICK h \in Handlers : SaveEdit(h)
      BY <2>2
    <3>2. req[h] \in EditReq /\ Allowed(req[h], seen[h]) /\ seen[h] \in Users
      BY <3>1, RequestKinds DEF SaveEdit, Control, ControlInv, TypeOK
    <3> QED BY <3>1, <3>2, EditLeavesAccount DEF SaveEdit
  <2>3. ASSUME NEW h \in Handlers, Handle(h)
        PROVE  SaveNewAccount(h) \/ SaveEdit(h)
    BY <2>3 DEF Handle, Admit, CheckIsSetup, ReadForSetup, ReadForLogin, ReadForEdit,
                Read, Refuse, Purge, OpenSession, store
  <2>4. CASE Migrate \/ MigrateFails \/ Restart \/ \E t \in Tokens : EndSession(t)
    BY <2>4 DEF Migrate, MigrationDue, MigrateFails, Restart, EndSession, store
  <2> QED BY <2>1, <2>2, <2>3, <2>4 DEF Next, vars
<1> QED BY <1>1, ControlCorrect, PTL DEF Spec, KeepsAnAccount

----------------------------------------------------------------------------
(* Tokens and ids are issued once, so the token a caller came with never   *)
(* comes to stand for somebody else, and a new account is nobody's yet.    *)

OwnToken(t, u) == t \in issuedTokens /\ (sessions[t] # NoSession => sessions[t].user = u)

IssuedInv ==
  /\ present(users) \subseteq issuedIds
  /\ \A h \in Handlers : present(seen[h]) \subseteq issuedIds
  /\ \A t \in Tokens : sessions[t] # NoSession => t \in issuedTokens
  /\ \A h \in Handlers :
       /\ pc[h] = "admitted" => OwnToken(req[h].token, req[h].id)
       /\ pc[h] \in {"save", "purge"} /\ req[h] \in PasswordReq =>
            OwnToken(req[h].keep, req[h].id)

LEMMA EditAddsNobody ==
  ASSUME NEW r \in EditReq, NEW list \in Users, Allowed(r, list)
  PROVE  /\ present(Edited(r, list)) \subseteq present(list)
         /\ \A u \in UserIds : u # r.id => Edited(r, list)[u] = list[u]
<1>1. CASE r \in RoleReq
  <2>1. Edited(r, list) = [list EXCEPT ![r.id].role = r.role]
    BY <1>1 DEF Edited, RoleReq
  <2> QED BY <1>1, <2>1 DEF Allowed, RoleAllowed, RoleReq, Users, present
<1>2. CASE r \in DeleteReq
  BY <1>2 DEF Edited, DeleteReq, present, Users
<1>3. CASE r \in PasswordReq
  <2>1. Edited(r, list) = [list EXCEPT ![r.id].pw = r.pw]
    BY <1>3 DEF Edited, PasswordReq
  <2> QED BY <1>3, <2>1 DEF Allowed, PasswordAllowed, PasswordReq, Users, present
<1> QED BY <1>1, <1>2, <1>3 DEF EditReq

LEMMA InitIssued == Init => IssuedInv
  BY AuthAssumption DEF Init, IssuedInv, present, Nobody

LEMMA NextIssued ==
  ControlInv /\ IssuedInv /\ [Next]_vars => IssuedInv'
<1> SUFFICES ASSUME ControlInv, IssuedInv, [Next]_vars PROVE IssuedInv'
  OBVIOUS
<1> USE DEF IssuedInv
<1>1. present(Nobody) = {}
  BY DEF present, Nobody
<1>2. ASSUME NEW h \in Handlers, Handle(h) PROVE IssuedInv'
  <2>1. ASSUME NEW t \in Tokens, Admit(h, t) PROVE IssuedInv'
    BY <2>1 DEF Admit, Serve, Goto, OwnToken, ControlInv, TypeOK, store, live
  <2>2. CASE CheckIsSetup(h)
    BY <2>2 DEF CheckIsSetup, Goto, OwnToken, ControlInv, TypeOK, store, live
  <2>3. ASSUME NEW r \in Request, NEW step \in {"save", "open"}, Read(h, r, step),
               step = "save" /\ r \in PasswordReq => OwnToken(r.keep, r.id)
        PROVE  IssuedInv'
    BY <2>3 DEF Read, Serve, Remember, Goto, OwnToken, ControlInv, TypeOK, store, live
  <2>4. CASE ReadForSetup(h)
    <3>1. PICK r \in SetupReq : Read(h, r, "save")
      BY <2>4 DEF ReadForSetup
    <3>2. r \in Request /\ r \notin PasswordReq
      BY DEF Request, SetupReq, PasswordReq
    <3> QED BY <2>3, <3>1, <3>2
  <2>5. CASE ReadForLogin(h)
    <3>1. PICK r \in LoginReq : Read(h, r, "open")
      BY <2>5 DEF ReadForLogin
    <3>2. r \in Request
      BY DEF Request
    <3> QED BY <2>3, <3>1, <3>2
  <2>6. CASE ReadForEdit(h)
    <3>1. PICK r \in Permitted(req[h]) : Read(h, r, "save")
      BY <2>6 DEF ReadForEdit
    <3>2. r \in Request
      BY DEF Permitted, Request
    <3>3. r \in PasswordReq => r.keep = req[h].token /\ r.id = req[h].id
      BY DEF Permitted, CreateReq, RoleReq, DeleteReq, PasswordReq
    <3> QED BY <2>3, <2>6, <3>1, <3>2, <3>3 DEF ReadForEdit
  <2>7. CASE Refuse(h)
    BY <1>1, <2>7 DEF Refuse, Finish, Remember, Goto, OwnToken, ControlInv, TypeOK, store, live
  <2>8. CASE SaveNewAccount(h)
    <3>1. PICK u \in UserIds : /\ users' = [seen[h] EXCEPT ![u] = NewAccount(req[h])]
                               /\ issuedIds' = issuedIds \cup {u}
      BY <2>8 DEF SaveNewAccount
    <3>2. present(users') \subseteq issuedIds'
      BY <3>1 DEF present, ControlInv, TypeOK, Users
    <3> QED BY <1>1, <2>8, <3>1, <3>2
            DEF SaveNewAccount, Finish, Remember, Goto, OwnToken, ControlInv, TypeOK, live
  <2>9. CASE SaveEdit(h)
    <3>1. req[h] \in EditReq /\ Allowed(req[h], seen[h]) /\ seen[h] \in Users
      BY <2>9, RequestKinds DEF SaveEdit, Control, ControlInv, TypeOK
    <3>2. present(users') \subseteq issuedIds'
      BY <2>9, <3>1, EditAddsNobody DEF SaveEdit
    <3>3. \A t \in Tokens : /\ sessions'[t] # NoSession => sessions[t] # NoSession
                            /\ sessions'[t] # NoSession => sessions'[t].user = sessions[t].user
      <4>1. CASE UNCHANGED sessions
        BY <4>1
      <4>2. CASE /\ sessions[req[h].keep] # NoSession
                 /\ req[h].op = "password"
                 /\ sessions' = [sessions EXCEPT ![req[h].keep].pw = req[h].pw]
        <5>1. req[h] \in PasswordReq
          BY <3>1, <4>2, RequestKinds DEF WriteReq
        <5>2. req[h].keep \in Tokens /\ sessions[req[h].keep] \in Session
          BY <4>2, <5>1 DEF PasswordReq, ControlInv, TypeOK
        <5> QED BY <4>2, <5>2 DEF ControlInv, TypeOK, Session
      <4> QED BY <2>9, <4>1, <4>2 DEF SaveEdit, Proved
    <3>4. \A t \in Tokens, u \in UserIds : OwnToken(t, u) => OwnToken(t, u)'
      BY <2>9, <3>3 DEF OwnToken, SaveEdit
    <3>5. ASSUME NEW g \in Handlers
          PROVE  /\ pc'[g] = "admitted" => OwnToken(req[g].token, req[g].id)'
                 /\ pc'[g] \in {"save", "purge"} /\ req[g] \in PasswordReq =>
                      OwnToken(req[g].keep, req[g].id)'
      <4>1. req[g] \in Caller => req[g].token \in Tokens /\ req[g].id \in UserIds
        BY DEF Caller
      <4>2. req[g] \in PasswordReq => req[g].keep \in Tokens /\ req[g].id \in UserIds
        BY DEF PasswordReq
      <4>3. pc'[g] = "admitted" => pc[g] = "admitted" /\ req[g] \in Caller
        BY <2>9 DEF SaveEdit, Goto, ControlInv, TypeOK, Control
      <4>4. pc'[g] \in {"save", "purge"} => pc[g] \in {"save", "purge"}
        BY <2>9 DEF SaveEdit, Goto, ControlInv, TypeOK
      <4>5. req' = req
        BY <2>9 DEF SaveEdit
      <4> QED BY <3>4, <4>1, <4>2, <4>3, <4>4, <4>5
    <3> QED BY <1>1, <2>9, <3>2, <3>3, <3>5 DEF SaveEdit, Remember, ControlInv, TypeOK
  <2>10. CASE SaveFails(h)
    BY <1>1, <2>10 DEF SaveFails, Finish, Remember, Goto, OwnToken, ControlInv, TypeOK, live
  <2>11. CASE Purge(h)
    BY <1>1, <2>11 DEF Purge, purged, Finish, Remember, Goto, OwnToken, ControlInv, TypeOK, store
  <2>12. CASE OpenSession(h)
    BY <1>1, <2>12 DEF OpenSession, Finish, Remember, Goto, OwnToken, ControlInv, TypeOK, store
  <2> QED BY <1>2, <2>1, <2>2, <2>4, <2>5, <2>6, <2>7, <2>8, <2>9, <2>10, <2>11, <2>12
          DEF Handle
<1>3. CASE Migrate
  BY <1>3 DEF Migrate, present, OwnToken, ControlInv, TypeOK, Users, store, live
<1>4. CASE MigrateFails
  BY <1>4 DEF MigrateFails, OwnToken, live
<1>5. CASE Restart
  BY <1>1, <1>5 DEF Restart, OwnToken, store
<1>6. ASSUME NEW t \in Tokens, EndSession(t) PROVE IssuedInv'
  BY <1>6 DEF EndSession, OwnToken, ControlInv, TypeOK, store
<1>7. CASE UNCHANGED vars
  BY <1>7 DEF vars, OwnToken
<1> QED BY <1>2, <1>3, <1>4, <1>5, <1>6, <1>7 DEF Next

----------------------------------------------------------------------------
(* What a settled session owes to the stored accounts. *)

Current(t) == LET u == sessions[t].user
              IN  /\ users[u] # NoUser
                  /\ sessions[t].role = normalizeRole(users[u].role)
                  /\ sessions[t].pw = users[u].pw

SessionsInv == ~stale => \A t \in Tokens : Settled(t) => Current(t)

(* A step of a handler that is not purging, and that leaves a session as   *)
(* it was, leaves it awaiting the purges it was awaiting.                  *)
LEMMA StillAwaits ==
  ASSUME NEW h \in Handlers, NEW t \in Tokens, pc[h] # "purge",
         \A g \in Handlers : g # h => pc'[g] = pc[g] /\ req'[g] = req[g],
         sessions'[t] = sessions[t], awaitsPurge(t)
  PROVE  awaitsPurge(t)'
  BY DEF awaitsPurge, purged

LEMMA NextSessions ==
  ControlInv /\ IssuedInv /\ SessionsInv /\ [Next]_vars => SessionsInv'
<1> SUFFICES ASSUME ControlInv, IssuedInv, SessionsInv, [Next]_vars, ~stale',
                    NEW t \in Tokens, Settled(t)'
             PROVE  Current(t)'
  BY DEF SessionsInv
<1> USE DEF ControlInv
(* Where the session and the accounts are unchanged. *)
<1>1. ASSUME ~stale, sessions'[t] = sessions[t], awaitsPurge(t) => awaitsPurge(t)'
      PROVE  Settled(t) /\ Current(t)
  BY <1>1 DEF Settled, SessionsInv
<1>2. ASSUME NEW h \in Handlers, Handle(h) PROVE Current(t)'
  <2>1. CASE \/ \E x \in Tokens : Admit(h, x)
             \/ CheckIsSetup(h) \/ ReadForSetup(h) \/ ReadForLogin(h) \/ ReadForEdit(h)
             \/ Refuse(h)
    <3>1. /\ pc[h] # "purge"
          /\ users' = users /\ sessions' = sessions /\ stale' = stale
          /\ \A g \in Handlers : g # h => pc'[g] = pc[g] /\ req'[g] = req[g]
      BY <2>1 DEF Admit, CheckIsSetup, ReadForSetup, ReadForLogin, ReadForEdit, Read, Refuse,
                  Finish, Serve, Goto, TypeOK, store, live
    <3> QED BY <1>1, <3>1, StillAwaits DEF Current
  <2>2. CASE SaveNewAccount(h)
    <3>1. /\ pc[h] # "purge" /\ sessions' = sessions
          /\ ~stale /\ seen[h] = users
          /\ \A g \in Handlers : g # h => pc'[g] = pc[g] /\ req'[g] = req[g]
      BY <2>2 DEF SaveNewAccount, NoteStale, Finish, Goto, TypeOK, live
    <3>2. PICK u \in UserIds \ issuedIds : users' = [seen[h] EXCEPT ![u] = NewAccount(req[h])]
      BY <2>2 DEF SaveNewAccount
    <3>3. Settled(t) /\ Current(t)
      BY <1>1, <3>1, StillAwaits
    <3>4. sessions[t] \in Session
      BY <3>3 DEF Settled, TypeOK
    <3>5. sessions[t].user # u
      BY <3>2, <3>3, <3>4 DEF Current, IssuedInv, present, Session
    <3> QED BY <3>1, <3>2, <3>3, <3>4, <3>5 DEF Current, TypeOK, Users, Session
  <2>3. CASE SaveEdit(h)
    <3> DEFINE r == req[h]
    <3>1. r \in EditReq /\ Allowed(r, users) /\ users' = Edited(r, users)
          /\ ~stale /\ pc[h] = "save"
      BY <2>3, RequestKinds DEF SaveEdit, NoteStale, Control, TypeOK
    <3>2. pc'[h] = "purge" /\ req' = req
          /\ \A g \in Handlers : g # h => pc'[g] = pc[g]
      BY <2>3 DEF SaveEdit, Goto, TypeOK
    <3>3. ~purged(r, t)'
      BY <3>2 DEF Settled, awaitsPurge, purged
    <3>4. CASE sessions'[t] = sessions[t] /\ sessions[t].user # r.id
      <4>1. Settled(t) /\ Current(t)
        BY <1>1, <3>1, <3>2, <3>4, StillAwaits
      <4>2. sessions[t] \in Session
        BY <4>1 DEF Settled, TypeOK
      <4>3. users'[sessions[t].user] = users[sessions[t].user]
        BY <3>1, <3>4, <4>2, EditAddsNobody DEF TypeOK, Session
      <4> QED BY <3>4, <4>1, <4>3 DEF Current
    <3>5. CASE sessions'[t].user = r.id \/ sessions'[t] # sessions[t]
      (* Only the session that ChangePassword keeps is left. *)
      <4>1. r.op = "password" /\ t = r.keep
        BY <2>3, <3>3, <3>5 DEF SaveEdit, Proved, purged, Settled, TypeOK
      <4>2. r \in PasswordReq
        BY <3>1, <4>1, RequestKinds DEF WriteReq
      <4>3. sessions[t] # NoSession
        BY <2>3, <4>1 DEF SaveEdit, Proved, Settled
      <4>4. sessions[t] \in Session /\ sessions[t].user = r.id
        BY <3>1, <4>1, <4>2, <4>3 DEF IssuedInv, OwnToken, TypeOK
      <4>5. sessions'[t] = [sessions[t] EXCEPT !.pw = r.pw]
        BY <2>3, <4>1, <4>3 DEF SaveEdit, Proved, TypeOK
      <4>6. users' = [users EXCEPT ![r.id].pw = r.pw]
        BY <3>1, <4>1 DEF Edited
      <4>7. users[r.id] \in User /\ r.id \in UserIds /\ r.pw \in Passwords
        BY <3>1, <4>2, AuthAssumption
        DEF Allowed, PasswordAllowed, PasswordReq, TypeOK, Users, Account
      <4>8. users'[r.id] = [users[r.id] EXCEPT !.pw = r.pw]
        BY <4>6, <4>7 DEF TypeOK, Users
      <4>9. Settled(t)
        <5>1. ASSUME NEW g \in Handlers, pc[g] = "purge", purged(req[g], t)
              PROVE  FALSE
          <6>1. purged(req[g], t)'
            BY <3>2, <4>4, <4>5, <5>1, AuthAssumption DEF purged, Settled, Session
          <6> QED BY <3>1, <3>2, <5>1, <6>1 DEF Settled, awaitsPurge
        <5> QED BY <4>3, <5>1 DEF Settled, awaitsPurge
      <4>10. Current(t)
        BY <3>1, <4>9 DEF SessionsInv
      <4>11. /\ sessions'[t].user = r.id /\ sessions'[t].pw = r.pw
             /\ sessions'[t].role = sessions[t].role
        BY <4>4, <4>5 DEF Session
      <4>12. /\ users'[r.id] \in User /\ users'[r.id].pw = r.pw
             /\ users'[r.id].role = users[r.id].role
        BY <4>7, <4>8 DEF User
      <4> QED BY <4>4, <4>10, <4>11, <4>12, AuthAssumption DEF Current
    <3> QED BY <3>4, <3>5
  <2>4. CASE SaveFails(h)
    <3>1. /\ pc[h] # "purge" /\ sessions' = sessions /\ users' = users /\ ~stale
          /\ \A g \in Handlers : g # h => pc'[g] = pc[g] /\ req'[g] = req[g]
      BY <2>4 DEF SaveFails, Finish, Goto, TypeOK, live
    <3> QED BY <1>1, <3>1, StillAwaits DEF Current
  <2>5. CASE Purge(h)
    <3>1. ~purged(req[h], t) /\ sessions'[t] = sessions[t] /\ users' = users /\ ~stale
      BY <2>5 DEF Purge, Settled, store
    <3>2. awaitsPurge(t) => awaitsPurge(t)'
      BY <2>5, <3>1 DEF Purge, Finish, Goto, awaitsPurge, purged, TypeOK
    <3> QED BY <1>1, <3>1, <3>2 DEF Current
  <2>6. CASE OpenSession(h)
    <3>1. PICK x \in Tokens, u \in present(seen[h]) :
            sessions' = [sessions EXCEPT ![x] = opened(u, seen[h])]
      BY <2>6 DEF OpenSession
    <3>2. /\ pc[h] # "purge" /\ users' = users /\ ~stale /\ seen[h] = users
          /\ \A g \in Handlers : g # h => pc'[g] = pc[g] /\ req'[g] = req[g]
      BY <2>6 DEF OpenSession, NoteStale, Finish, Goto, TypeOK, store
    <3>3. CASE x = t
      BY <3>1, <3>2, <3>3 DEF opened, present, Current, TypeOK
    <3>4. CASE x # t
      BY <1>1, <3>1, <3>2, <3>4, StillAwaits DEF Current, TypeOK
    <3> QED BY <3>3, <3>4
  <2> QED BY <1>2, <2>1, <2>2, <2>3, <2>4, <2>5, <2>6 DEF Handle
<1>3. CASE Migrate
  <2>1. sessions' = sessions /\ pc' = pc /\ req' = req /\ stale' = stale
    BY <1>3 DEF Migrate, live
  <2>2. Settled(t) /\ Current(t)
    BY <1>1, <2>1 DEF awaitsPurge, purged
  <2>3. sessions[t].user \in present(users)
    BY <2>2 DEF Settled, Current, present, TypeOK, Session
  <2> QED BY <1>3, <2>1, <2>2, <2>3 DEF Migrate, MigrationDue, Current, store
<1>4. CASE Restart
  BY <1>4 DEF Restart, Settled
<1>5. ASSUME NEW x \in Tokens, EndSession(x) PROVE Current(t)'
  <2>1. x # t
    BY <1>5 DEF EndSession, Settled, TypeOK
  <2> QED BY <1>1, <1>5, <2>1 DEF EndSession, awaitsPurge, purged, Current, TypeOK, store
<1>6. CASE MigrateFails \/ UNCHANGED vars
  BY <1>1, <1>6 DEF MigrateFails, vars, awaitsPurge, purged, Current, live
<1> QED BY <1>2, <1>3, <1>4, <1>5, <1>6 DEF Next

LEMMA SessionsCorrect == Spec => [](ControlInv /\ IssuedInv /\ SessionsInv)
<1>1. Init => SessionsInv
  BY DEF Init, SessionsInv, Settled
<1> QED BY <1>1, InitControl, NextControl, InitIssued, NextIssued, NextSessions, PTL DEF Spec

(* While nothing was stale, a session whose purge is over belongs to an    *)
(* account that exists and carries the role that account has now.          *)
THEOREM SessionsMatch == Spec => []SessionsMatchAccounts
<1>1. SessionsInv => SessionsMatchAccounts
  BY DEF SessionsInv, SessionsMatchAccounts, SessionMatches, Current
<1> QED BY <1>1, SessionsCorrect, PTL

(* Under the same condition its holder has proved the password now stored. *)
THEOREM SessionsProved == Spec => []SessionsProvedPassword
<1>1. SessionsInv => SessionsProvedPassword
  BY DEF SessionsInv, SessionsProvedPassword, Current
<1> QED BY <1>1, SessionsCorrect, PTL

----------------------------------------------------------------------------
(* SetUserRole, when not raced, leaves an administrator if there was one. *)
THEOREM RoleChangeSafe == Spec => RoleChangeKeepsAdmin
<1>1. ASSUME ControlInv, NEW h \in Handlers, SaveEdit(h), req[h].op = "role", ~stale',
             admins(users) # {}
      PROVE  admins(users') # {}
  <2> DEFINE r == req[h]
  <2>1. r \in RoleReq /\ RoleAllowed(r, users) /\ users \in Users
        /\ users' = [users EXCEPT ![r.id].role = r.role]
    BY <1>1, RequestKinds
    DEF SaveEdit, NoteStale, Edited, Control, ControlInv, TypeOK, Allowed, RoleReq
  <2>2. users[r.id] \in User /\ r.id \in UserIds /\ r.role \in StoredRole
    BY <2>1, AuthAssumption DEF RoleAllowed, RoleReq, Users, Account, StoredRole
  <2>3. /\ users'[r.id] \in User /\ users'[r.id].role = r.role
        /\ \A u \in UserIds : u # r.id => users'[u] = users[u]
    BY <2>1, <2>2 DEF Users, User
  <2>4. CASE r.role = RoleAdmin
    BY <2>2, <2>3, <2>4, AuthAssumption
    DEF admins, present, isAdmin, normalizeRole, Role, RoleAdmin
  <2>5. CASE r.role # RoleAdmin
    <3>1. PICK a \in admins(users) : a # r.id
      BY <1>1, <2>1, <2>2, <2>5, AuthAssumption DEF RoleAllowed, admins, present
    <3> QED BY <2>3, <3>1 DEF admins, present
  <2> QED BY <2>4, <2>5
<1>2. ControlInv /\ [Next]_vars =>
        [\A h \in Handlers :
           SaveEdit(h) /\ req[h].op = "role" /\ ~stale' /\ admins(users) # {}
             => admins(users') # {}]_vars
  BY <1>1
<1> QED BY <1>2, ControlCorrect, PTL DEF Spec, RoleChangeKeepsAdmin
----------------------------------------------------------------------------
(* AuthManager implements Accounts.  A handler's requests touch the        *)
(* accounts and the sessions in two steps; the first is the step of        *)
(* Accounts, and whatever the second purges is already over there.         *)

Others(h) == \A g \in Handlers : g # h => pc'[g] = pc[g] /\ req'[g] = req[g]

(* A handler that is not about to purge, before or after its step, leaves  *)
(* a session as settled as it was.                                         *)
LEMMA SettledKept ==
  ASSUME NEW h \in Handlers, pc[h] # "purge", pc'[h] # "purge", Others(h),
         NEW t \in Tokens, sessions'[t] = sessions[t]
  PROVE  settled'[t] = settled[t]
<1>1. awaitsPurge(t)' <=> awaitsPurge(t)
  BY DEF awaitsPurge, purged, Others
<1> QED BY <1>1 DEF settled, Settled

(* What ends the sessions of an account in Accounts is the save that the   *)
(* purge follows.                                                          *)
LEMMA EditSettles ==
  ASSUME ControlInv, IssuedInv, NEW h \in Handlers, SaveEdit(h), NEW t \in Tokens
  PROVE  settled'[t] = IF settled[t] = NoSession \/ settled[t].user # req[h].id
                         THEN settled[t]
                       ELSE IF req[h].op = "password" /\ t = req[h].keep
                         THEN [settled[t] EXCEPT !.pw = req[h].pw]
                       ELSE NoSession
<1> DEFINE r == req[h]
<1>1. /\ pc[h] = "save" /\ pc'[h] = "purge" /\ req' = req
      /\ \A g \in Handlers : g # h => pc'[g] = pc[g]
  BY DEF SaveEdit, Goto, ControlInv, TypeOK
<1>2. sessions[t] # NoSession => sessions[t] \in Session
  BY DEF ControlInv, TypeOK
<1>3. r.op = "password" => r \in PasswordReq
  BY <1>1, RequestKinds DEF ControlInv, Control
<1>4. CASE sessions[t] = NoSession
  <2>1. sessions'[t] = NoSession
    BY <1>3, <1>4 DEF SaveEdit, Proved, ControlInv, TypeOK, PasswordReq
  <2> QED BY <1>4, <2>1 DEF settled, Settled
<1>5. CASE /\ sessions[t] # NoSession
           /\ sessions[t].user # r.id
  <2>1. sessions'[t] = sessions[t]
    BY <1>3, <1>5 DEF SaveEdit, Proved, ControlInv, TypeOK, IssuedInv, OwnToken, PasswordReq
  <2>2. awaitsPurge(t)' <=> awaitsPurge(t)
    BY <1>1, <1>5, <2>1 DEF awaitsPurge, purged
  <2> QED BY <1>5, <2>1, <2>2 DEF settled, Settled
<1>6. CASE /\ sessions[t] # NoSession
           /\ sessions[t].user = r.id
           /\ r.op = "password" /\ t = r.keep
  <2>1. sessions'[t] = [sessions[t] EXCEPT !.pw = r.pw]
    BY <1>6 DEF SaveEdit, Proved, ControlInv, TypeOK
  <2>2. sessions'[t] # NoSession /\ sessions'[t].user = sessions[t].user
    BY <1>2, <1>3, <1>6, <2>1, AuthAssumption DEF Session, PasswordReq
  <2>3. awaitsPurge(t)' <=> awaitsPurge(t)
    <3>1. \A g \in Handlers : purged(req[g], t)' <=> purged(req[g], t)
      BY <1>1, <1>6, <2>2 DEF purged
    <3>2. ~purged(r, t)
      BY <1>6 DEF purged
    <3> QED BY <1>1, <3>1, <3>2 DEF awaitsPurge
  <2> QED BY <1>6, <2>1, <2>2, <2>3 DEF settled, Settled
<1>7. CASE /\ sessions[t] # NoSession
           /\ sessions[t].user = r.id
           /\ ~ (r.op = "password" /\ t = r.keep)
  <2>1. sessions'[t] = sessions[t]
    BY <1>3, <1>7 DEF SaveEdit, Proved, ControlInv, TypeOK, PasswordReq
  <2>2. purged(r, t)'
    BY <1>1, <1>7, <2>1 DEF purged
  <2>3. settled'[t] = NoSession
    BY <1>1, <2>2 DEF settled, Settled, awaitsPurge
  <2>4. settled[t] = sessions[t] \/ settled[t] = NoSession
    BY DEF settled
  <2> QED BY <1>7, <2>3, <2>4
<1> QED BY <1>4, <1>5, <1>6, <1>7

(* Accounts speaks of the same roles.                                      *)
LEMMA SameRoles ==
  /\ Atomic!Role = Role /\ Atomic!StoredRole = StoredRole /\ Atomic!RoleAdmin = RoleAdmin
  /\ \A x : Atomic!normalizeRole(x) = normalizeRole(x) /\ (Atomic!isAdmin(x) <=> isAdmin(x))
  BY DEF Role, StoredRole, RoleAdmin, RoleReadWrite, RoleRead, RoleWrite, RoleBlank,
         normalizeRole, isAdmin, Atomic!Role, Atomic!StoredRole, Atomic!RoleAdmin,
         Atomic!RoleReadWrite, Atomic!RoleRead, Atomic!RoleWrite, Atomic!RoleBlank,
         Atomic!normalizeRole, Atomic!isAdmin

(* Sessions, and so requests to create an account, come after the first    *)
(* account, whose role nobody asks for.                                    *)
Founded ==
  /\ ~stale /\ present(users) = {} => issuedTokens = {}
  /\ \A h \in Handlers : pc[h] = "save" /\ req[h] \in CreateReq => issuedTokens # {}

LEMMA NextFounded ==
  ControlInv /\ IssuedInv /\ Founded /\ [Next]_vars => Founded'
<1> SUFFICES ASSUME ControlInv, IssuedInv, Founded, [Next]_vars PROVE Founded'
  OBVIOUS
<1>1. issuedTokens \subseteq issuedTokens'
  BY DEF Next, Handle, vars, Admit, CheckIsSetup, ReadForSetup, ReadForLogin, ReadForEdit, Read,
         Refuse, SaveNewAccount, SaveEdit, SaveFails, Purge, OpenSession, EndSession,
         Migrate, MigrateFails, Restart, live
<1>2. ASSUME NEW h \in Handlers, pc'[h] = "save", req'[h] \in CreateReq
      PROVE  issuedTokens' # {}
  <2>1. CASE pc[h] = "save" /\ req[h] = req'[h]
    BY <1>1, <1>2, <2>1 DEF Founded
  <2>2. CASE ReadForSetup(h) \/ ReadForLogin(h)
    BY <1>2, <2>2 DEF ReadForSetup, ReadForLogin, Read, Goto, Serve, SetupReq, CreateReq,
                      ControlInv, TypeOK
  <2>3. CASE ReadForEdit(h)
    BY <1>1, <2>3 DEF ReadForEdit, IssuedInv, OwnToken
  <2>4. ASSUME NEW g \in Handlers, Handle(g), ~ReadForSetup(h), ~ReadForLogin(h), ~ReadForEdit(h)
        PROVE  pc[h] = "save" /\ req[h] = req'[h]
    BY <1>2, <2>4
    DEF Handle, Admit, CheckIsSetup, ReadForSetup, ReadForLogin, ReadForEdit, Read, Refuse,
        SaveNewAccount, SaveEdit, SaveFails, Purge, OpenSession, Finish, Goto, Serve,
        ControlInv, TypeOK
  <2>5. CASE UNCHANGED vars \/ Migrate \/ MigrateFails \/ \E t \in Tokens : EndSession(t)
    BY <1>2, <2>1, <2>5 DEF vars, Migrate, MigrateFails, EndSession
  <2>6. CASE Restart
    BY <1>2, <2>6 DEF Restart
  <2> QED BY <2>1, <2>2, <2>3, <2>4, <2>5, <2>6 DEF Next
<1>3. ASSUME ~stale', present(users') = {} PROVE issuedTokens' = {}
  <2>1. ASSUME NEW h \in Handlers, Handle(h) PROVE issuedTokens' = {}
    <3>1. CASE SaveNewAccount(h)
      <4>1. req[h] \in SetupReq \cup CreateReq
        BY <3>1, RequestKinds DEF SaveNewAccount, Control, ControlInv
      <4>2. PICK u \in UserIds : users' = [seen[h] EXCEPT ![u] = NewAccount(req[h])]
        BY <3>1 DEF SaveNewAccount
      <4>3. users'[u] # NoUser
        BY <4>1, <4>2, NewAccountType, AuthAssumption DEF ControlInv, TypeOK, Users
      <4> QED BY <1>3, <4>3 DEF present
    <3>2. CASE SaveEdit(h)
      <4>1. req[h] \in EditReq /\ Allowed(req[h], seen[h]) /\ seen[h] \in Users
        BY <3>2, RequestKinds DEF SaveEdit, Control, ControlInv, TypeOK
      <4> QED BY <1>3, <3>2, <4>1, EditLeavesAccount DEF SaveEdit
    <3>3. CASE OpenSession(h)
      BY <1>3, <3>3 DEF OpenSession, NoteStale, store
    <3>4. CASE ~SaveNewAccount(h) /\ ~SaveEdit(h) /\ ~OpenSession(h)
      <4>1. users' = users /\ stale' = stale /\ issuedTokens' = issuedTokens
        BY <1>3, <2>1, <3>4
        DEF Handle, Admit, CheckIsSetup, ReadForSetup, ReadForLogin, ReadForEdit, Read, Refuse,
            SaveFails, Purge, store, live
      <4> QED BY <1>3, <4>1 DEF Founded
    <3> QED BY <3>1, <3>2, <3>3, <3>4
  <2>2. CASE \/ UNCHANGED vars \/ MigrateFails \/ Restart
             \/ \E t \in Tokens : EndSession(t)
    BY <1>3, <2>2 DEF Founded, vars, MigrateFails, Restart, EndSession, store, live
  <2>3. CASE Migrate
    BY <1>3, <2>3 DEF Founded, Migrate, MigrationDue, store, live
  <2> QED BY <2>1, <2>2, <2>3 DEF Next
<1> QED BY <1>2, <1>3 DEF Founded

LEMMA AtomicStart == Init => Atomic!Init
<1> SUFFICES ASSUME Init PROVE Atomic!Init
  OBVIOUS
<1>1. users \in Users /\ UniqueIn(users)
  BY AuthAssumption DEF Init
<1>2. settled = [t \in Tokens |-> NoSession]
  BY DEF Init, settled, Settled
<1>3. issuedIds = {u \in UserIds : Atomic!Exists(u)}
  BY DEF Init, present, Atomic!Exists
<1> QED BY <1>1, <1>2, <1>3, SameRoles
        DEF Init, Atomic!Init, Atomic!Exists, Atomic!Account, Users, Account, User,
            UniqueIn, present

(* Every step is a step of Accounts, or none.                              *)
LEMMA AtomicStep ==
  ControlInv /\ IssuedInv /\ Founded /\ [Next]_vars => [Atomic!Next]_(Atomic!vars)
<1> SUFFICES ASSUME ControlInv, IssuedInv, Founded, [Next]_vars, ~stale', ~UNCHANGED Atomic!vars
             PROVE  Atomic!Next
  BY DEF Atomic!Next
<1>0. settled = [t \in Tokens |-> settled[t]] /\ settled' = [t \in Tokens |-> settled'[t]]
  BY DEF settled
(* The requests of Accounts, under conditions the model's steps meet.      *)
<1>1. ASSUME Atomic!Request, stale' = stale PROVE Atomic!Next
  BY <1>1 DEF Atomic!Next
<1>2. ASSUME NEW h \in Handlers, Handle(h) PROVE Atomic!Next
  <2>1. CASE \/ \E t \in Tokens : Admit(h, t)
             \/ CheckIsSetup(h) \/ ReadForSetup(h) \/ ReadForLogin(h) \/ ReadForEdit(h)
             \/ Refuse(h) \/ SaveFails(h)
    <3>1. /\ pc[h] # "purge" /\ pc'[h] # "purge" /\ Others(h)
          /\ users' = users /\ sessions' = sessions /\ stale' = stale
          /\ issuedIds' = issuedIds /\ issuedTokens' = issuedTokens
      BY <2>1 DEF Admit, CheckIsSetup, ReadForSetup, ReadForLogin, ReadForEdit, Read, Refuse,
                  SaveFails, Finish, Serve, Goto, Others, ControlInv, TypeOK, store, live
    <3>2. settled' = settled
      BY <1>0, <3>1, SettledKept
    <3> QED BY <3>1, <3>2 DEF Atomic!vars
  <2>2. CASE SaveNewAccount(h)
    <3> DEFINE account == NewAccount(req[h])
    <3>1. /\ pc[h] # "purge" /\ pc'[h] # "purge" /\ Others(h)
          /\ sessions' = sessions /\ stale' = stale /\ seen[h] = users
          /\ issuedTokens' = issuedTokens
      BY <2>2 DEF SaveNewAccount, NoteStale, Finish, Goto, Others, ControlInv, TypeOK, live
    <3>2. settled' = settled
      BY <1>0, <3>1, SettledKept
    <3>3. PICK u \in UserIds \ issuedIds : /\ users' = [users EXCEPT ![u] = account]
                                           /\ issuedIds' = issuedIds \cup {u}
      BY <2>2, <3>1 DEF SaveNewAccount
    <3>4. req[h] \in SetupReq \cup CreateReq /\ Allowed(req[h], users)
      BY <2>2, <3>1, RequestKinds DEF SaveNewAccount, Control, ControlInv
    <3>5. account \in Atomic!Account
      BY <3>4, NewAccountType, SameRoles DEF User, Atomic!Account
    <3>6. ~Atomic!Taken(account.name)
      BY <3>4 DEF Allowed, CreateAllowed, nameTaken, present, NewAccount, SetupReq, CreateReq,
                  Atomic!Taken, Atomic!Exists
    <3>7. (\E v \in UserIds : Atomic!Exists(v)) \/ account.role = Atomic!RoleAdmin
      <4>1. CASE req[h] \in SetupReq
        BY <4>1, SameRoles DEF NewAccount, SetupReq
      <4>2. CASE req[h] \in CreateReq
        BY <2>2, <3>1, <4>2 DEF SaveNewAccount, Founded, present, Atomic!Exists
      <4> QED BY <3>4, <4>1, <4>2
    <3>8. Atomic!Add(u, account)
      BY <3>1, <3>2, <3>3, <3>6, <3>7 DEF Atomic!Add
    <3> QED BY <1>1, <3>1, <3>3, <3>5, <3>8 DEF Atomic!Request
  <2>3. CASE SaveEdit(h)
    <3> DEFINE r == req[h]
    <3>1. /\ r \in EditReq /\ Allowed(r, users) /\ users' = Edited(r, users)
          /\ stale' = stale /\ issuedIds' = issuedIds /\ issuedTokens' = issuedTokens
          /\ users \in Users
      BY <2>3, RequestKinds DEF SaveEdit, NoteStale, Control, ControlInv, TypeOK
    <3>2. CASE r \in RoleReq
      <4>1. r.op = "role" /\ r.id \in UserIds /\ r.role \in Role
        BY <3>2, AuthAssumption DEF RoleReq
      <4>2. Atomic!EndSessionsOf(r.id)
        BY <1>0, <2>3, <4>1, EditSettles DEF Atomic!EndSessionsOf, Atomic!Belongs
      <4>3. Atomic!Exists(r.id)
        BY <3>1, <4>1 DEF Allowed, RoleAllowed, Atomic!Exists
      <4>4. Atomic!Administers(r.id) /\ r.role # RoleAdmin =>
              \E v \in UserIds \ {r.id} : Atomic!Administers(v)
        BY <3>1, <4>1, SameRoles
        DEF Allowed, RoleAllowed, admins, present, Atomic!Administers, Atomic!Exists
      <4>5. users' = [users EXCEPT ![r.id].role = r.role]
        BY <3>1, <4>1 DEF Edited
      <4>6. Atomic!SetRole(r.id, r.role)
        BY <3>1, <4>2, <4>3, <4>4, <4>5, SameRoles DEF Atomic!SetRole
      <4> QED BY <1>1, <3>1, <4>1, <4>6, SameRoles DEF Atomic!Request
    <3>3. CASE r \in DeleteReq
      <4>1. r.op = "delete" /\ r.id \in UserIds
        BY <3>3 DEF DeleteReq
      <4>2. Atomic!EndSessionsOf(r.id)
        BY <1>0, <2>3, <4>1, EditSettles DEF Atomic!EndSessionsOf, Atomic!Belongs
      <4>3. Atomic!Exists(r.id) /\ \E v \in UserIds \ {r.id} : Atomic!Exists(v)
        BY <3>1, <4>1 DEF Allowed, DeleteAllowed, present, Atomic!Exists
      <4>4. users' = [users EXCEPT ![r.id] = NoUser]
        BY <3>1, <4>1 DEF Edited
      <4>5. Atomic!Delete(r.id)
        BY <3>1, <4>2, <4>3, <4>4 DEF Atomic!Delete
      <4> QED BY <1>1, <3>1, <4>1, <4>5 DEF Atomic!Request
    <3>4. CASE r \in PasswordReq
      <4>1. r.op = "password" /\ r.id \in UserIds /\ r.pw \in Passwords /\ r.keep \in Tokens
        BY <3>4 DEF PasswordReq
      <4>2. Atomic!Exists(r.id) /\ users[r.id].pw # r.pw
        BY <3>1, <4>1 DEF Allowed, PasswordAllowed, Atomic!Exists
      <4>3. settled[r.keep] # NoSession => Atomic!Belongs(r.keep, r.id)
        BY <2>3, <3>4, <4>1 DEF SaveEdit, IssuedInv, OwnToken, settled, Settled, Atomic!Belongs
      <4>4. settled' = [t \in Tokens |->
              IF ~Atomic!Belongs(t, r.id) THEN settled[t]
              ELSE IF t = r.keep THEN [settled[t] EXCEPT !.pw = r.pw] ELSE NoSession]
        BY <1>0, <2>3, <4>1, EditSettles DEF Atomic!Belongs
      <4>5. users' = [users EXCEPT ![r.id].pw = r.pw]
        BY <3>1, <4>1 DEF Edited
      <4>6. Atomic!ChangePassword(r.id, r.pw, r.keep)
        BY <3>1, <4>2, <4>3, <4>4, <4>5 DEF Atomic!ChangePassword
      <4> QED BY <1>1, <3>1, <4>1, <4>6 DEF Atomic!Request
    <3> QED BY <3>1, <3>2, <3>3, <3>4 DEF EditReq
  <2>4. CASE Purge(h)
    <3>1. /\ users' = users /\ stale' = stale
          /\ issuedIds' = issuedIds /\ issuedTokens' = issuedTokens
      BY <2>4 DEF Purge, store
    <3>2. ASSUME NEW t \in Tokens PROVE settled'[t] = settled[t]
      <4>1. CASE purged(req[h], t)
        BY <2>4, <4>1 DEF Purge, settled, Settled, awaitsPurge
      <4>2. CASE ~purged(req[h], t)
        <5>1. sessions'[t] = sessions[t]
          BY <2>4, <4>2 DEF Purge
        <5>2. awaitsPurge(t)' <=> awaitsPurge(t)
          BY <2>4, <4>2, <5>1
          DEF Purge, Finish, Goto, awaitsPurge, purged, ControlInv, TypeOK
        <5> QED BY <5>1, <5>2 DEF settled, Settled
      <4> QED BY <4>1, <4>2
    <3>3. settled' = settled
      BY <1>0, <3>2
    <3> QED BY <3>1, <3>3 DEF Atomic!vars
  <2>5. CASE OpenSession(h)
    <3>1. PICK t \in Tokens \ issuedTokens, u \in present(users) :
            /\ sessions' = [sessions EXCEPT ![t] = opened(u, users)]
            /\ issuedTokens' = issuedTokens \cup {t}
      BY <2>5 DEF OpenSession, NoteStale
    <3>2. /\ pc[h] # "purge" /\ pc'[h] # "purge" /\ Others(h)
          /\ users' = users /\ stale' = stale /\ issuedIds' = issuedIds
      BY <2>5 DEF OpenSession, NoteStale, Finish, Goto, Others, ControlInv, TypeOK, store
    <3>3. \A x \in Tokens : x # t => settled'[x] = settled[x]
      BY <3>1, <3>2, SettledKept DEF ControlInv, TypeOK
    <3>4. settled[t] = NoSession
      BY <3>1 DEF IssuedInv, settled, Settled
    <3>5. settled'[t] \in {NoSession, Atomic!SessionOf(u)}
      BY <3>1, SameRoles DEF settled, Settled, opened, Atomic!SessionOf, ControlInv, TypeOK
    <3>6. settled' \in {settled, [settled EXCEPT ![t] = Atomic!SessionOf(u)]}
      BY <1>0, <3>3, <3>4, <3>5
    <3>7. Atomic!Exists(u) /\ u \in UserIds
      BY DEF present, Atomic!Exists
    <3>8. Atomic!Login(t, u)
      BY <3>1, <3>2, <3>6, <3>7 DEF Atomic!Login
    <3> QED BY <1>1, <3>2, <3>7, <3>8 DEF Atomic!Request
  <2> QED BY <1>2, <2>1, <2>2, <2>3, <2>4, <2>5 DEF Handle
<1>3. ASSUME NEW t \in Tokens, EndSession(t) PROVE Atomic!Next
  <2>1. /\ users' = users /\ stale' = stale
        /\ issuedIds' = issuedIds /\ issuedTokens' = issuedTokens
    BY <1>3 DEF EndSession, store
  <2>2. settled' = [settled EXCEPT ![t] = NoSession]
    <3>1. \A x \in Tokens : x # t => settled'[x] = settled[x]
      BY <1>3 DEF EndSession, settled, Settled, awaitsPurge, purged, ControlInv, TypeOK
    <3>2. settled'[t] = NoSession
      BY <1>3 DEF EndSession, settled, Settled, ControlInv, TypeOK
    <3> QED BY <1>0, <3>1, <3>2
  <2>3. Atomic!End(t)
    BY <2>1, <2>2 DEF Atomic!End
  <2> QED BY <1>1, <2>1, <2>3 DEF Atomic!Request
<1>4. CASE Migrate
  <2>1. /\ stale' = stale /\ issuedTokens' = issuedTokens
        /\ sessions' = sessions /\ pc' = pc /\ req' = req
    BY <1>4 DEF Migrate, live
  <2>2. settled' = settled
    BY <2>1 DEF settled, Settled, awaitsPurge, purged
  <2>3. CASE users' = users /\ issuedIds' = issuedIds
    BY <2>1, <2>2, <2>3 DEF Atomic!vars
  <2>4. CASE present(users) = {} /\ \E u \in UserIds \ issuedIds :
               users' = [users EXCEPT ![u] = MigratedAdmin] /\ issuedIds' = issuedIds \cup {u}
    <3>1. PICK u \in UserIds \ issuedIds :
               users' = [users EXCEPT ![u] = MigratedAdmin] /\ issuedIds' = issuedIds \cup {u}
      BY <2>4
    <3>2. MigratedAdmin \in Atomic!Account
      BY AuthAssumption, SameRoles DEF MigratedAdmin, Atomic!Account, StoredRole, Role
    <3>3. ~Atomic!Taken(MigratedAdmin.name)
      BY <2>4 DEF present, Atomic!Taken, Atomic!Exists
    <3>4. Atomic!Add(u, MigratedAdmin)
      BY <2>1, <2>2, <3>1, <3>3, SameRoles DEF Atomic!Add, MigratedAdmin
    <3> QED BY <1>1, <2>1, <3>2, <3>4 DEF Atomic!Request
  <2> QED BY <1>4, <2>3, <2>4 DEF Migrate, MigrationDue, store
<1>5. CASE Restart
  <2>1. settled' = [t \in Tokens |-> NoSession]
    BY <1>5 DEF Restart, settled, Settled
  <2>2. Atomic!EndAll
    BY <1>5, <2>1 DEF Restart, Atomic!EndAll, store
  <2> QED BY <1>1, <1>5, <2>2 DEF Restart, Atomic!Request
<1>6. CASE MigrateFails \/ UNCHANGED vars
  <2>1. settled' = settled
    BY <1>6 DEF MigrateFails, vars, live, settled, Settled, awaitsPurge, purged
  <2> QED BY <1>6, <2>1 DEF MigrateFails, vars, live, Atomic!vars
<1> QED BY <1>2, <1>3, <1>4, <1>5, <1>6 DEF Next

(* While no handler acts on a list that has changed since it read it, the  *)
(* handlers together are a server that does each request at once: a change *)
(* of an account and the end of its sessions in one step, a login from the *)
(* accounts as they are.                                                   *)
THEOREM AccountsImplemented == Spec => ImplementsAccounts
<1>1. Init => Founded
  BY DEF Init, Founded
<1>2. Spec => [](ControlInv /\ IssuedInv /\ Founded)
  BY <1>1, NextFounded, SessionsCorrect, PTL DEF Spec
<1> QED BY <1>2, AtomicStart, AtomicStep, PTL DEF Spec, ImplementsAccounts, Atomic!Spec
=============================================================================
