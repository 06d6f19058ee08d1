---------------------------- MODULE AuthManager ----------------------------
(***************************************************************************)
(* The accounts and sessions of backend/auth.go, as the HTTP handlers of   *)
(* handlers_auth.go and handlers_users.go drive them.                      *)
(*                                                                         *)
(* users.json is read and rewritten whole.  Storage.mu makes one read or   *)
(* one write atomic and nothing protects the time between the two, where   *)
(* bcrypt runs; AuthManager.mu protects the session map and nothing else.  *)
(* A request is therefore several steps: it is authenticated, it reads     *)
(* the accounts and decides, it writes them back, it purges sessions.      *)
(* Several requests, each in a handler goroutine, interleave their steps.  *)
(***************************************************************************)
EXTENDS Roles

CONSTANTS Handlers,        \* goroutines serving requests
          UserIds,         \* ids newID can return; each is issued once
          Names,           \* usernames, up to strings.EqualFold
          Passwords,
          Tokens,          \* session tokens; each is issued once
          GrantedRoles,    \* the roles requests ask for
          Installs,        \* what an earlier version may have left on disk
          AdminName,       \* the name ensureMigrated gives a legacy account
          LegacyPassword,
          WritesFail,      \* TRUE: a write of users.json can fail half way
          NoUser, NoSession, NoRequest

User    == [name : Names, role : StoredRole, pw : Passwords]
Account == User \cup {NoUser}
Users   == [UserIds -> Account]
Nobody  == [u \in UserIds |-> NoUser]

(* A Session, with the password its holder last proved (a history field).  *)
Session == [user : UserIds, role : Role, pw : Passwords]

present(list)     == {u \in UserIds : list[u] # NoUser}
nameTaken(list, n) == \E u \in present(list) : list[u].name = n
admins(list)      == {u \in present(list) : isAdmin(list[u].role)}
UniqueIn(list)    == \A u, v \in present(list) :
                        list[u].name = list[v].name => u = v

ASSUME AuthAssumption ==
  /\ GrantedRoles \subseteq Role
  /\ Installs \subseteq [users : Users, legacy : BOOLEAN]
  /\ \A i \in Installs : UniqueIn(i.users)
  /\ AdminName \in Names
  /\ LegacyPassword \in Passwords
  /\ WritesFail \in BOOLEAN
  /\ NoUser \notin User
  /\ NoSession \notin Session

(* What a handler knows of its request: who is calling, once the session   *)
(* has been checked, then the operation, once the body has been read.      *)
Caller      == [op : {"caller"}, token : Tokens, id : UserIds, role : Role]
SetupReq    == [op : {"setup"}, name : Names, pw : Passwords]
LoginReq    == [op : {"login"}, name : Names, pw : Passwords]
CreateReq   == [op : {"create"}, name : Names, pw : Passwords, role : GrantedRoles]
RoleReq     == [op : {"role"}, id : UserIds, role : GrantedRoles]
DeleteReq   == [op : {"delete"}, id : UserIds]
PasswordReq == [op : {"password"}, id : UserIds, old : Passwords,
                pw : Passwords, keep : Tokens]
Request     == Caller \cup SetupReq \cup LoginReq \cup CreateReq
                 \cup RoleReq \cup DeleteReq \cup PasswordReq

Step == {"idle", "setup", "admitted", "save", "open", "purge"}

VARIABLES
  users,         \* users.json: the accounts by id
  legacy,        \* admin.json shows a completed single-password setup
  corrupt,       \* TRUE: a write stopped half way and left bytes nobody can decrypt
  sessions,      \* AuthManager.sessions
  migration,     \* migrateOnce and migrateErr: "pending", "done" or "failed"
  pc, req, seen, \* of each handler: its next step, its request, the list it read
  issuedIds, issuedTokens,
  stale          \* history: a handler acted on a list that was no longer
                 \* stored, or a failed write emptied the file

vars == <<users, legacy, corrupt, sessions, migration, pc, req, seen,
          issuedIds, issuedTokens, stale>>

TypeOK ==
  /\ users \in Users
  /\ legacy \in BOOLEAN
  /\ corrupt \in BOOLEAN
  /\ sessions \in [Tokens -> Session \cup {NoSession}]
  /\ migration \in {"pending", "done", "failed"}
  /\ pc \in [Handlers -> Step]
  /\ req \in [Handlers -> Request \cup {NoRequest}]
  /\ seen \in [Handlers -> Users]
  /\ issuedIds \subseteq UserIds
  /\ issuedTokens \subseteq Tokens
  /\ stale \in BOOLEAN

Init ==
  /\ \E i \in Installs : users = i.users /\ legacy = i.legacy
  /\ corrupt = FALSE
  /\ sessions = [t \in Tokens |-> NoSession]
  /\ migration = "pending"
  /\ pc = [h \in Handlers |-> "idle"]
  /\ req = [h \in Handlers |-> NoRequest]
  /\ seen = [h \in Handlers |-> Nobody]
  /\ issuedIds = present(users)
  /\ issuedTokens = {}
  /\ stale = FALSE

store == <<users, legacy, corrupt, issuedIds>>
live  == <<sessions, issuedTokens>>

----------------------------------------------------------------------------
(* Handler control. *)

Goto(h, step) == pc' = [pc EXCEPT ![h] = step]
Serve(h, r) == req' = [req EXCEPT ![h] = r]
Remember(h, list) == seen' = [seen EXCEPT ![h] = list]

(* The handler answers, with success or an error, and is free again. *)
Finish(h) == /\ Goto(h, "idle")
             /\ req' = [req EXCEPT ![h] = NoRequest]
             /\ Remember(h, Nobody)

(* Acting on a list that has changed since it was read. *)
NoteStale(h) == stale' = (stale \/ seen[h] # users)

----------------------------------------------------------------------------
(* ensureMigrated: reached by the first caller of IsSetup, Login or        *)
(* ListUsers; sync.Once keeps an error for the life of the process.        *)

MigrationDue == present(users) = {} /\ legacy

MigratedAdmin == [name |-> AdminName, role |-> RoleAdmin, pw |-> LegacyPassword]

Migrate ==
  /\ migration = "pending"
  /\ \/ corrupt /\ migration' = "failed" /\ UNCHANGED store
     \/ ~corrupt /\ ~MigrationDue /\ migration' = "done" /\ UNCHANGED store
     \/ /\ ~corrupt /\ MigrationDue
        /\ \E u \in UserIds \ issuedIds :
             /\ users' = [users EXCEPT ![u] = MigratedAdmin]
             /\ issuedIds' = issuedIds \cup {u}
        /\ migration' = "done"
        /\ UNCHANGED <<legacy, corrupt>>
  /\ UNCHANGED <<live, pc, req, seen, stale>>

(* The save of the migration fails and leaves the file as os.WriteFile     *)
(* left it: as it was, or with part of the bytes.                          *)
MigrateFails ==
  /\ WritesFail
  /\ migration = "pending" /\ ~corrupt /\ MigrationDue
  /\ migration' = "failed"
  /\ corrupt' \in BOOLEAN
  /\ UNCHANGED <<users, legacy, issuedIds, live, pc, req, seen, stale>>

----------------------------------------------------------------------------
(* Entry.  requireSession hands the handler a copy of the session; what it *)
(* may do is decided on that copy, and the handler keeps it to its end.    *)

Admit(h, t) ==
  /\ pc[h] = "idle"
  /\ sessions[t] # NoSession
  /\ canRead(sessions[t].role)
  /\ Serve(h, [op |-> "caller", token |-> t,
               id |-> sessions[t].user, role |-> sessions[t].role])
  /\ Goto(h, "admitted")
  /\ UNCHANGED <<store, live, migration, seen, stale>>

(* What requireRole lets the caller ask for: the accounts of others need   *)
(* PermAdmin, the password is always the caller's own.                     *)
Permitted(c) ==
  (IF isAdmin(c.role) THEN CreateReq \cup RoleReq \cup DeleteReq ELSE {})
    \cup {r \in PasswordReq : r.id = c.id /\ r.keep = c.token}

(* CreateFirstUser's IsSetup call; setup and login need no session.        *)
CheckIsSetup(h) ==
  /\ pc[h] = "idle"
  /\ migration = "done" /\ ~corrupt
  /\ present(users) = {}
  /\ Goto(h, "setup")
  /\ UNCHANGED <<store, live, migration, req, seen, stale>>

----------------------------------------------------------------------------
(* GetUsers, and what each operation checks on the list it read. *)

CreateAnyName(r, list) == TRUE                    \* mutant
CreateAllowed(r, list) == ~nameTaken(list, r.name)

RoleAllowed(r, list) ==
  /\ list[r.id] # NoUser
  /\ ~ (/\ isAdmin(list[r.id].role)
        /\ r.role # RoleAdmin
        /\ admins(list) \subseteq {r.id})      \* admins <= 1

DeleteAnyone(r, list) == list[r.id] # NoUser      \* mutant

DeleteAllowed(r, list) ==
  /\ list[r.id] # NoUser
  /\ present(list) \ {r.id} # {}             \* len(users) > 1

PasswordAllowed(r, list) ==
  /\ list[r.id] # NoUser
  /\ list[r.id].pw = r.old
  /\ r.pw # r.old

LoginAllowed(r, list) ==
  \E u \in present(list) : list[u].name = r.name /\ list[u].pw = r.pw

Allowed(r, list) ==
  CASE r.op \in {"setup", "create"} -> CreateAllowed(r, list)
    [] r.op = "role"     -> RoleAllowed(r, list)
    [] r.op = "delete"   -> DeleteAllowed(r, list)
    [] r.op = "password" -> PasswordAllowed(r, list)
    [] r.op = "login"    -> LoginAllowed(r, list)

(* A refused request changes nothing: it is the step that Refuse takes, or *)
(* no step at all when the handler was idle.                               *)
Read(h, r, step) ==
  /\ ~corrupt
  /\ Allowed(r, users)
  /\ Serve(h, r)
  /\ Remember(h, users)
  /\ Goto(h, step)
  /\ UNCHANGED <<store, live, migration, stale>>

ReadForSetup(h) == pc[h] = "setup" /\ \E r \in SetupReq : Read(h, r, "save")

ReadForLogin(h) == /\ pc[h] = "idle" /\ migration = "done"
                   /\ \E r \in LoginReq : Read(h, r, "open")

ReadForEdit(h) == /\ pc[h] = "admitted"
                  /\ \E r \in Permitted(req[h]) : Read(h, r, "save")

Refuse(h) ==
  /\ \/ pc[h] = "setup" /\ (corrupt \/ \E r \in SetupReq : ~Allowed(r, users))
     \/ pc[h] = "admitted"
  /\ Finish(h)
  /\ UNCHANGED <<store, live, migration, stale>>

----------------------------------------------------------------------------
(* SaveUsers, with the edited list. *)

NewAccount(r) == [name |-> r.name, pw |-> r.pw,
                  role |-> IF r.op = "setup" THEN RoleAdmin ELSE r.role]

SaveNewAccount(h) ==
  /\ pc[h] = "save" /\ req[h].op \in {"setup", "create"}
  /\ \E u \in UserIds \ issuedIds :
       /\ users' = [seen[h] EXCEPT ![u] = NewAccount(req[h])]
       /\ issuedIds' = issuedIds \cup {u}
  /\ corrupt' = FALSE
  /\ NoteStale(h)
  /\ Finish(h)
  /\ UNCHANGED <<legacy, live, migration>>

Edited(r, list) ==
  CASE r.op = "role"     -> [list EXCEPT ![r.id].role = r.role]
    [] r.op = "delete"   -> [list EXCEPT ![r.id] = NoUser]
    [] r.op = "password" -> [list EXCEPT ![r.id].pw = r.pw]

(* The holder of the token that ChangePassword keeps has proved the new    *)
(* password: the history field of that session follows.                    *)
Proved(r) ==
  IF r.op = "password" /\ sessions[r.keep] # NoSession
    THEN sessions' = [sessions EXCEPT ![r.keep].pw = r.pw]
    ELSE UNCHANGED sessions

SaveEdit(h) ==
  /\ pc[h] = "save" /\ req[h].op \in {"role", "delete", "password"}
  /\ users' = Edited(req[h], seen[h])
  /\ corrupt' = FALSE
  /\ NoteStale(h)
  /\ Proved(req[h])
  /\ Goto(h, "purge")
  /\ Remember(h, Nobody)
  /\ UNCHANGED <<legacy, req, issuedIds, issuedTokens, migration>>

(* SaveUsers returns an error.  os.WriteFile truncates before it writes,   *)
(* so a full disk, or a crash right there, leaves the file as it was,      *)
(* empty (which reads back as no accounts) or partly written.              *)
SaveFails(h) ==
  /\ WritesFail
  /\ pc[h] = "save"
  /\ \/ UNCHANGED <<users, corrupt, stale>>
     \/ corrupt' = TRUE /\ UNCHANGED <<users, stale>>
     \/ users' = Nobody /\ corrupt' = FALSE /\ stale' = TRUE
  /\ Finish(h)
  /\ UNCHANGED <<legacy, issuedIds, live, migration>>

----------------------------------------------------------------------------
(* Sessions, under AuthManager.mu. *)

purgedOnPassword(r, t) ==                         \* mutant
  /\ sessions[t] # NoSession
  /\ r.op = "password" /\ sessions[t].user = r.id /\ t # r.keep

purgedCaller(r, t) ==                             \* mutant
  /\ sessions[t] # NoSession
  /\ sessions[t].user = r.id
  /\ r.op = "password" => t = r.keep

purged(r, t) == /\ sessions[t] # NoSession
                /\ sessions[t].user = r.id
                /\ r.op = "password" => t # r.keep

Purge(h) ==
  /\ pc[h] = "purge"
  /\ sessions' = [t \in Tokens |->
       IF purged(req[h], t) THEN NoSession ELSE sessions[t]]
  /\ Finish(h)
  /\ UNCHANGED <<store, issuedTokens, migration, stale>>

opened(u, list) == [user |-> u, role |-> normalizeRole(list[u].role), pw |-> list[u].pw]

OpenSession(h) ==
  /\ pc[h] = "open"
  /\ \E t \in Tokens \ issuedTokens, u \in present(seen[h]) :
       /\ seen[h][u].name = req[h].name
       /\ sessions' = [sessions EXCEPT ![t] = opened(u, seen[h])]
       /\ issuedTokens' = issuedTokens \cup {t}
  /\ NoteStale(h)
  /\ Finish(h)
  /\ UNCHANGED <<store, migration>>

(* Logout, or ValidateSession finding the session expired. *)
EndSession(t) ==
  /\ sessions[t] # NoSession
  /\ sessions' = [sessions EXCEPT ![t] = NoSession]
  /\ UNCHANGED <<store, issuedTokens, migration, pc, req, seen, stale>>

(* A restart, and the unsealing that has to follow it: the sessions and    *)
(* every request in flight are gone, the migration is tried again.         *)
Restart ==
  /\ sessions' = [t \in Tokens |-> NoSession]
  /\ migration' = "pending"
  /\ pc' = [h \in Handlers |-> "idle"]
  /\ req' = [h \in Handlers |-> NoRequest]
  /\ seen' = [h \in Handlers |-> Nobody]
  /\ UNCHANGED <<store, issuedTokens, stale>>

----------------------------------------------------------------------------
Handle(h) ==
  \/ \E t \in Tokens : Admit(h, t)
  \/ CheckIsSetup(h)
  \/ ReadForSetup(h)
  \/ ReadForLogin(h)
  \/ ReadForEdit(h)
  \/ Refuse(h)
  \/ SaveNewAccount(h)
  \/ SaveEdit(h)
  \/ SaveFails(h)
  \/ Purge(h)
  \/ OpenSession(h)

Next ==
  \/ \E h \in Handlers : Handle(h)
  \/ \E t \in Tokens : EndSession(t)
  \/ Migrate
  \/ MigrateFails
  \/ Restart

Spec == Init /\ [][Next]_vars

----------------------------------------------------------------------------
(* What the accounts promise however the handlers interleave. *)

(* No two accounts share a name: Login takes the first that matches, so a  *)
(* second one could never be reached (createUserLocked's check).           *)
UniqueNames == UniqueIn(users)

(* There is always a way to log in: once an account exists, no request     *)
(* empties the list; only a write that fails half way does (DeleteUser).   *)
KeepsAnAccount ==
  [][present(users) # {} =>
       present(users') # {} \/ \E h \in Handlers : SaveFails(h)]_vars

(* What they promise as long as no handler has acted on a list that had    *)
(* changed since it read it: `stale` is the only way to lose these.        *)

awaitsPurge(t) == \E h \in Handlers : pc[h] = "purge" /\ purged(req[h], t)

Settled(t) == sessions[t] # NoSession /\ ~awaitsPurge(t)

(* A live session belongs to an account that exists and carries its role,  *)
(* from the moment the purge that follows a change is over (SetUserRole,   *)
(* DeleteUser).                                                            *)
SessionMatches(t) ==
  Settled(t) =>
    LET u == sessions[t].user
    IN  users[u] # NoUser /\ sessions[t].role = normalizeRole(users[u].role)

SessionsMatchAccounts ==
  ~stale => \A t \in Tokens : SessionMatches(t)

(* After a password change only the caller's session survives: every live  *)
(* session was opened, or confirmed, with the password now stored.         *)
SessionsProvedPassword ==
  ~stale =>
     \A t \in Tokens : Settled(t) => sessions[t].pw = users[sessions[t].user].pw

(* SetUserRole never takes the last administrator away.                    *)
RoleChangeKeepsAdmin ==
  [][\A h \in Handlers :
       SaveEdit(h) /\ req[h].op = "role" /\ ~stale' /\ admins(users) # {}
         => admins(users') # {}]_vars

(* All of it at once: as long as no handler acts on a stale list, the      *)
(* requests, split and interleaved as they are, do what the server of      *)
(* Accounts does, which does each in one step.  A change happens where the *)
(* list is saved; the sessions it will purge are over from there on.       *)
settled == [t \in Tokens |-> IF Settled(t) THEN sessions[t] ELSE NoSession]

Atomic == INSTANCE Accounts WITH accounts <- users, open <- settled,
            ids <- issuedIds, tokens <- issuedTokens, lost <- stale

ImplementsAccounts == Atomic!Spec

----------------------------------------------------------------------------
(* Two promises of the source's comments that the interleavings break.     *)

(* "a stale snapshot can't outlive the change it would contradict": the    *)
(* comment on Session.Role, without the excuse of a stale read.            *)
SnapshotNeverOutlivesChange ==
  \A t \in Tokens :
    Settled(t) /\ users[sessions[t].user] # NoUser =>
      sessions[t].role = normalizeRole(users[sessions[t].user].role)

(* Somebody can always manage users (SetUserRole refuses to remove the     *)
(* last administrator).                                                    *)
SomebodyIsAdmin == present(users) # {} => admins(users) # {}
=============================================================================
