----------------------------- MODULE Inventory -----------------------------
(***************************************************************************)
(* The inventory behind the dashboard: projects and their members          *)
(* (handlers_projects.go, access.go), the resources tagged with a project  *)
(* (handlers_config.go, handlers_saved_commands.go) and the IPsec profiles *)
(* with the VPNs they are bound to (ipsec.go, handlers_ipsec.go).          *)
(*                                                                         *)
(* Each of them is a list in a file of its own.  A request reads the list, *)
(* asks the other files whether its caller may, and rewrites the list.     *)
(* The lock of the storage covers one read or one write, so a request is   *)
(* split there: "check" is between reading the list and asking, "read"     *)
(* between asking and reading the list, "save" before the write.           *)
(***************************************************************************)
EXTENDS Naturals

CONSTANTS Users, Projects, HostIds, VpnIds, ServiceIds, CredentialIds,
          CommandIds, ProfileIds,
          Handlers,      \* requests under way at once
          Records,       \* of each kind, the records clients send
          NewProfiles,   \* the IPsec profiles clients send
          Edits,         \* what clients change of a profile
          Start,         \* the files as the server finds them
          Known,         \* the ids given out before
          MaxRequests,   \* bound
          Unassigned, NoHost, NoProfile, Blank, Absent, Gone, Junk, Unread, Idle

Kinds == {"vpn", "host", "service", "credential", "command"}
Files == Kinds \cup {"project", "ipsec"}

Ids == [vpn |-> VpnIds, host |-> HostIds, service |-> ServiceIds,
        credential |-> CredentialIds, command |-> CommandIds,
        project |-> Projects, ipsec |-> ProfileIds]
AnyId == UNION {Ids[f] : f \in Files}

Buckets == Projects \cup {Unassigned}

(* on: the host of a service or a command; shared: for VPNs.               *)
Record == [project : Buckets, on : HostIds \cup {NoHost}, shared : SUBSET Projects]

(* What each IKE mode cannot do without.                                   *)
needs == [eap |-> {"login"}, psk |-> {"psk"}, xauth |-> {"psk", "login"},
          cert |-> {"cert"}]
IkeModes == DOMAIN needs

(* has: which secrets are set.  was: the mode that the superseded authMode *)
(* and the version stand for, in a record from before there were modes.    *)
Profile == [project : Buckets, mode : IkeModes \cup {Blank}, was : IkeModes,
            has : SUBSET {"psk", "login", "cert"}]

(* The keys present in the body of an update.                              *)
Edit == [project : Buckets \cup {Absent}, mode : IkeModes \cup {Absent},
         set : SUBSET {"psk", "login", "cert"},
         cleared : SUBSET {"psk", "login", "cert"}]

IpsecConfig == [profiles : [ProfileIds -> Profile \cup {Gone}],
                bindings : [VpnIds -> ProfileIds \cup {Gone}]]

Contents(file) ==
  IF file = "project" THEN [Projects -> (SUBSET Users) \cup {Gone}]
  ELSE IF file = "ipsec" THEN IpsecConfig
  ELSE [Ids[file] -> Record \cup {Gone}]

empty(file) ==
  IF file = "ipsec" THEN [profiles |-> [i \in ProfileIds |-> Gone],
                          bindings |-> [v \in VpnIds |-> Gone]]
  ELSE [i \in Ids[file] |-> Gone]

stored(file, c) ==
  {i \in Ids[file] : (IF file = "ipsec" THEN c.profiles[i] ELSE c[i]) # Gone}

homes(r)         == {r.project} \cup r.shared
homesIn(file, c) ==
  IF file = "project" THEN {}
  ELSE IF file = "ipsec"
  THEN {c.profiles[i].project : i \in {i \in ProfileIds : c.profiles[i] # Gone}}
  ELSE UNION {homes(c[i]) : i \in {i \in Ids[file] : c[i] # Gone}}

ASSUME InventoryAssumption ==
  /\ MaxRequests \in Nat
  /\ \A k \in Kinds : Records[k] \subseteq Record
  /\ \A k \in Kinds \ {"vpn"} : \A r \in Records[k] : r.shared = {}
  /\ NewProfiles \subseteq Profile /\ Edits \subseteq Edit
  /\ Start = [f \in Files |-> Start[f]]
  /\ Known \subseteq AnyId
  /\ \A f \in Files :
       /\ Start[f] \in Contents(f)
       /\ stored(f, Start[f]) \subseteq Known
       /\ homesIn(f, Start[f]) \subseteq Known \cup {Unassigned}
  /\ \A v \in VpnIds : LET i == Start["ipsec"].bindings[v] IN
       i # Gone => Start["ipsec"].profiles[i] # Gone
  /\ Gone \notin Record \cup Profile \cup ProfileIds
  /\ \A members \in SUBSET Users : members # Gone
  /\ Blank \notin IkeModes /\ {Unassigned, NoHost, Absent} \cap Projects = {}

VARIABLES
  store,      \* the files
  requests,   \* of each handler
  taken,      \* bound: requests so far
  issued,     \* the ids that have been stored at some time
  vouched,    \* history: <<p, u>>: somebody in p let u in, u created p, or p
              \* was open to everybody at some time
  stale       \* history: the list of hosts was saved by a request that had
              \* not read it as it was

vars == <<store, requests, taken, issued, vouched, stale>>

Ops(file) == {"create", "update", "delete"}
             \cup (IF file = "ipsec" THEN {"bind"} ELSE {})
             \cup (IF file = "service" THEN {"cascade"} ELSE {})

(* What a request names, and what it sends.                                *)
Target(file, op) ==
  IF op = "create" THEN Ids[file] \cup {Unread}
  ELSE IF op = "bind" THEN VpnIds
  ELSE IF op = "cascade" THEN HostIds ELSE Ids[file]

Body(file, op) ==
  IF op \in {"delete", "cascade"} THEN {Absent}
  ELSE IF file \in Kinds THEN Records[file]
  ELSE IF file = "project" THEN SUBSET Users
  ELSE IF op = "create" THEN NewProfiles
  ELSE IF op = "update" THEN Edits ELSE ProfileIds \cup {NoProfile}

Request(file, op) ==
  [by : Users, file : {file}, op : {op}, id : Target(file, op),
   body : Body(file, op), step : {"read", "check", "save"},
   seen : Contents(file) \cup {Unread}, write : Contents(file) \cup {Unread}]

RequestOK(q) ==
  /\ q.file \in Files /\ q.op \in Ops(q.file)
  /\ q \in Request(q.file, q.op)
  /\ q.step = "check" => q.seen \in Contents(q.file)
  /\ q.step = "save" => q.seen \in Contents(q.file) /\ q.write \in Contents(q.file)
  /\ q.op = "create" => q.step = "read" \/ (q.step = "save" /\ q.id \in Ids[q.file])

TypeOK ==
  /\ store = [f \in Files |-> store[f]]
  /\ \A f \in Files : store[f] # Junk => store[f] \in Contents(f)
  /\ requests = [h \in Handlers |-> requests[h]]
  /\ \A h \in Handlers : requests[h] # Idle => RequestOK(requests[h])
  /\ taken \in 0..MaxRequests
  /\ issued \subseteq AnyId
  /\ vouched \subseteq Projects \X Users
  /\ stale \in BOOLEAN

(* A project from before there were members is open, and so is one that    *)
(* does not resolve; before its first save nobody knows a project.         *)
exposed(projects, ids) ==
  {p \in Projects \cap ids : projects = Junk \/ projects[p] = Gone} \X Users

Init ==
  /\ store = Start
  /\ requests = [h \in Handlers |-> Idle]
  /\ taken = 0
  /\ issued = Known
  /\ vouched = exposed(Start["project"], Known) \cup
       {pu \in Projects \X Users :
          /\ Start["project"][pu[1]] # Gone
          /\ Start["project"][pu[1]] = {} \/ pu[2] \in Start["project"][pu[1]]}
  /\ stale = FALSE

----------------------------------------------------------------------------
(* access.go *)

isProjectMember(u, members) == members = {} \/ u \in members

(* Gone if there is none, or the file cannot be read. *)
find(file, i) == IF store[file] = Junk THEN Gone ELSE store[file][i]

canAccessProject(u, p) ==
  IF p = Unassigned \/ find("project", p) = Gone THEN TRUE
  ELSE isProjectMember(u, find("project", p))

vpnInProject(v, p) == p = v.project \/ p \in v.shared
canAccessVpn(u, v) == \E p \in homes(v) : canAccessProject(u, p)
canShareInto(u, v) == \A p \in v.shared : canAccessProject(u, p)

canAccessHost(u, host) ==
  IF host = NoHost \/ find("host", host) = Gone THEN TRUE
  ELSE canAccessProject(u, find("host", host).project)

(* Whether u sees and edits a stored record, may delete it, may send it.   *)
mayTouch(u, k, r) ==
  IF k = "command" THEN canAccessHost(u, r.on)
  ELSE IF k = "vpn" THEN canAccessVpn(u, r)
  ELSE canAccessProject(u, r.project)

mayDrop(u, k, r) ==
  IF k = "command" THEN canAccessHost(u, r.on) ELSE canAccessProject(u, r.project)

maySend(u, k, r) ==
  IF k = "command" THEN canAccessHost(u, r.on)
  ELSE canAccessProject(u, r.project) /\ canShareInto(u, r)

(* What the lists show to u, without ?projectId= and with it.              *)
shown(u, k)      == {r \in {store[k][i] : i \in Ids[k]} \ {Gone} : mayTouch(u, k, r)}
shownIn(u, k, p) == IF ~canAccessProject(u, p) THEN {}
                    ELSE {r \in {store[k][i] : i \in Ids[k]} \ {Gone} : vpnInProject(r, p)}
shownProjects(u) == {p \in Projects : /\ store["project"][p] # Gone
                                      /\ isProjectMember(u, store["project"][p])}

----------------------------------------------------------------------------
(* ipsec.go *)

normalizeIkeMode(c) == IF c # Gone /\ c.mode = Blank THEN [c EXCEPT !.mode = c.was] ELSE c

validateNoLogin(c) ==                                \* mutant
  c.mode \in IkeModes /\ needs[c.mode] \ {"login"} \subseteq c.has

validateIpsecCredential(c) == c.mode \in IkeModes /\ needs[c.mode] \subseteq c.has

(* Unmarshal onto the stored record: what is absent stays.                 *)
merged(c, edit) ==
  [c EXCEPT !.project = IF edit.project = Absent THEN @ ELSE edit.project,
            !.mode = IF edit.mode = Absent THEN @ ELSE edit.mode,
            !.has = (@ \cup edit.set) \ edit.cleared]

withAllBindings(cfg, i) == cfg.bindings              \* mutant

withoutBindings(cfg, i) == [v \in VpnIds |-> IF cfg.bindings[v] = i THEN Gone ELSE cfg.bindings[v]]

ipsecForVpn(v) ==
  LET i == store["ipsec"].bindings[v]
  IN IF i = Gone THEN Gone ELSE store["ipsec"].profiles[i]

readList(file) ==
  IF file = "ipsec"
  THEN [store["ipsec"] EXCEPT !.profiles = [i \in ProfileIds |-> normalizeIkeMode(@[i])]]
  ELSE store[file]

----------------------------------------------------------------------------
(* A request begins: what is tested before the list is read. *)

Ask(h, q) ==
  /\ requests[h] = Idle
  /\ taken < MaxRequests
  /\ requests' = [requests EXCEPT ![h] = q]
  /\ taken' = taken + 1
  /\ UNCHANGED <<store, issued, vouched, stale>>

asked(u, file, op, id, body, step, seen) ==
  [by |-> u, file |-> file, op |-> op, id |-> id, body |-> body, step |-> step,
   seen |-> seen, write |-> Unread]

(* Clients name what they have heard of.                                   *)
known    == issued \cup {Unassigned, NoHost, Absent}
named(r) == homes(r) \cup {r.on} \subseteq known

(* Mutant: a project may be left without a member.                         *)
anyMembers(members) == TRUE

keepsMember(members) == members # {}

PostResource(h) ==
  \E u \in Users, k \in Kinds : \E r \in Records[k] :
    /\ named(r)
    /\ maySend(u, k, r)
    /\ Ask(h, asked(u, k, "create", Unread, r, "read", Unread))

PostProject(h) ==
  \E u \in Users : Ask(h, asked(u, "project", "create", Unread, {u}, "read", Unread))

PostProfile(h) ==
  \E u \in Users, c \in NewProfiles :
    /\ c.project \in known
    /\ validateIpsecCredential(c)
    /\ canAccessProject(u, c.project)
    /\ Ask(h, asked(u, "ipsec", "create", Unread, c, "read", Unread))

PutReads(h) ==
  \E u \in Users, f \in Files : \E i \in Ids[f] \cap issued, b \in Body(f, "update") :
    /\ f \in Kinds => named(b)
    /\ f = "project" => keepsMember(b)
    /\ f = "ipsec" => b.project \in known
    /\ store[f] # Junk
    /\ Ask(h, asked(u, f, "update", i, b, "check", readList(f)))

DeleteReads(h) ==
  \E u \in Users, f \in Files : \E i \in Ids[f] \cap issued :
    /\ store[f] # Junk
    /\ Ask(h, asked(u, f, "delete", i, Absent, "check", readList(f)))

PutBinding(h) ==
  \E u \in Users, v \in VpnIds, c \in (ProfileIds \cap issued) \cup {NoProfile} :
    /\ find("vpn", v) # Gone
    /\ canAccessVpn(u, find("vpn", v))
    /\ Ask(h, asked(u, "ipsec", "bind", v, c, "read", Unread))

----------------------------------------------------------------------------
(* A request under way. *)

Proceed(h, q) ==
  /\ requests' = [requests EXCEPT ![h] = q]
  /\ UNCHANGED <<store, taken, issued, vouched, stale>>

At(h, file, op, step) ==
  /\ requests[h] # Idle
  /\ requests[h].file \in file
  /\ requests[h].op = op
  /\ requests[h].step = step

Write(h, c) == Proceed(h, [requests[h] EXCEPT !.write = c, !.step = "save"])

drawn == {requests[g].id : g \in {g \in Handlers : requests[g] # Idle}}

PostReads(h) ==
  /\ At(h, Files, "create", "read")
  /\ LET q == requests[h]  c == readList(q.file) IN
     /\ store[q.file] # Junk
     /\ \E i \in Ids[q.file] \ (issued \cup drawn) :
          Proceed(h, [q EXCEPT !.id = i, !.seen = c, !.step = "save",
                       !.write = IF q.file = "ipsec" THEN [c EXCEPT !.profiles[i] = q.body]
                                 ELSE [c EXCEPT ![i] = q.body]])

ReadsNext(h) ==
  /\ At(h, {"ipsec"}, "bind", "read") \/ At(h, {"service"}, "cascade", "read")
  /\ store[requests[h].file] # Junk
  /\ Proceed(h, [requests[h] EXCEPT !.seen = readList(requests[h].file),
                                    !.step = "check"])

PutResource(h) ==
  /\ At(h, Kinds, "update", "check")
  /\ LET q == requests[h]  r == q.seen[q.id] IN
     /\ r # Gone
     /\ mayTouch(q.by, q.file, r)
     /\ maySend(q.by, q.file, q.body)
     /\ Write(h, [q.seen EXCEPT ![q.id] = q.body])

(* An id that is not in the list passes, and the list is saved as it was.  *)
DeleteResource(h) ==
  /\ At(h, Kinds, "delete", "check")
  /\ LET q == requests[h]  r == q.seen[q.id] IN
     /\ r # Gone => mayDrop(q.by, q.file, r)
     /\ Write(h, [q.seen EXCEPT ![q.id] = Gone])

PutProject(h) ==
  /\ At(h, {"project"}, "update", "check")
  /\ LET q == requests[h] IN
     /\ q.seen[q.id] # Gone
     /\ isProjectMember(q.by, q.seen[q.id])
     /\ Write(h, [q.seen EXCEPT ![q.id] = q.body])

(* The membership is that of a second read.                                *)
DeleteProject(h) ==
  /\ At(h, {"project"}, "delete", "check")
  /\ LET q == requests[h] IN
     /\ find("project", q.id) # Gone
     /\ isProjectMember(q.by, find("project", q.id))
     /\ Write(h, [q.seen EXCEPT ![q.id] = Gone])

PutProfile(h) ==
  /\ At(h, {"ipsec"}, "update", "check")
  /\ LET q == requests[h]  c == q.seen.profiles[q.id]  new == merged(c, q.body) IN
     /\ c # Gone
     /\ validateIpsecCredential(new)
     /\ canAccessProject(q.by, c.project) /\ canAccessProject(q.by, new.project)
     /\ Write(h, [q.seen EXCEPT !.profiles[q.id] = new])

DeleteProfile(h) ==
  /\ At(h, {"ipsec"}, "delete", "check")
  /\ LET q == requests[h]  c == q.seen.profiles[q.id] IN
     /\ c # Gone
     /\ canAccessProject(q.by, c.project)
     /\ Write(h, [q.seen EXCEPT !.profiles[q.id] = Gone,
                                !.bindings = withoutBindings(q.seen, q.id)])

Bind(h) ==
  /\ At(h, {"ipsec"}, "bind", "check")
  /\ LET q == requests[h] IN
     \/ /\ q.body = NoProfile
        /\ Write(h, [q.seen EXCEPT !.bindings[q.id] = Gone])
     \/ /\ q.body # NoProfile
        /\ q.seen.profiles[q.body] # Gone
        /\ canAccessProject(q.by, q.seen.profiles[q.body].project)
        /\ Write(h, [q.seen EXCEPT !.bindings[q.id] = q.body])

(* The services of a deleted host that its caller can reach.               *)
Cascade(h) ==
  /\ At(h, {"service"}, "cascade", "check")
  /\ LET q == requests[h]
         kept == [s \in ServiceIds |->
                    IF /\ q.seen[s] # Gone
                       /\ q.seen[s].on = q.id
                       /\ canAccessProject(q.by, q.seen[s].project)
                    THEN Gone ELSE q.seen[s]]
     IN kept # q.seen /\ Write(h, kept)

(* An early return: refused, not found, no service to delete, or a read    *)
(* that failed.                                                            *)
Ends(h) ==
  /\ requests[h] # Idle
  /\ requests[h].step # "save"
  /\ Proceed(h, Idle)

----------------------------------------------------------------------------
(* The write. *)

Saved(file, c) ==
  /\ store' = [store EXCEPT ![file] = c]
  /\ UNCHANGED taken

letsIn(q) ==
  IF q.file # "project" \/ q.op = "delete" THEN {}
  ELSE IF q.op = "create" THEN {<<q.id, q.by>>}
  ELSE IF <<q.id, q.by>> \in vouched THEN {q.id} \X (q.body \ {q.by})
  ELSE {}

ThenCascade(h) ==
  [requests[h] EXCEPT !.file = "service", !.op = "cascade", !.step = "read",
                      !.seen = Unread, !.write = Unread]

Save(h) ==
  /\ requests[h] # Idle /\ requests[h].step = "save"
  /\ LET q == requests[h] IN
     /\ Saved(q.file, q.write)
     /\ requests' = [requests EXCEPT ![h] =
          IF q.file = "host" /\ q.op = "delete" THEN ThenCascade(h) ELSE Idle]
     /\ issued' = IF q.op = "create" THEN issued \cup {q.id} ELSE issued
     /\ vouched' = vouched \cup letsIn(q) \cup exposed(store'["project"], issued')
     /\ stale' = (stale \/ (q.file = "host" /\ store["host"] # q.seen))

(* Mutant: the error of the save does not end the request.                 *)
SaveFailsOn(h) ==
  /\ requests[h] # Idle /\ requests[h].step = "save"
  /\ UNCHANGED <<store, taken, issued, vouched, stale>>
  /\ requests' = [requests EXCEPT ![h] =
       IF @.file = "host" /\ @.op = "delete" THEN ThenCascade(h) ELSE Idle]

(* WriteFile fails before it has truncated the file, after, or half way.   *)
SaveFails(h) ==
  /\ requests[h] # Idle /\ requests[h].step = "save"
  /\ \E left \in {store[requests[h].file], empty(requests[h].file), Junk} :
       Saved(requests[h].file, left)
  /\ requests' = [requests EXCEPT ![h] = Idle]
  /\ vouched' = vouched \cup exposed(store'["project"], issued)
  /\ UNCHANGED <<issued, stale>>

Restart ==
  /\ requests' = [h \in Handlers |-> Idle]
  /\ UNCHANGED <<store, taken, issued, vouched, stale>>

Begin(h) ==
  /\ requests[h] = Idle /\ taken < MaxRequests
  /\ \/ PostResource(h)
     \/ PostProject(h)
     \/ PostProfile(h)
     \/ PutReads(h)
     \/ DeleteReads(h)
     \/ PutBinding(h)

Decide(h) ==
  \/ PutResource(h)
  \/ DeleteResource(h)
  \/ PutProject(h)
  \/ DeleteProject(h)
  \/ PutProfile(h)
  \/ DeleteProfile(h)
  \/ Bind(h)
  \/ Cascade(h)

Next ==
  \/ \E h \in Handlers :
       \/ Begin(h)
       \/ PostReads(h)
       \/ ReadsNext(h)
       \/ Decide(h)
       \/ Ends(h)
       \/ Save(h)
       \/ SaveFails(h)
  \/ Restart

Spec == Init /\ [][Next]_vars

----------------------------------------------------------------------------
(* Properties *)

trusts(p, u) == p = Unassigned \/ <<p, u>> \in vouched

(* Only those whom a member let in, the creator, or anybody if the project *)
(* was open once (from before there were members, deleted, or lost with    *)
(* its file), are shown a project or what is tagged with it: no outsider   *)
(* gets in by adding itself or by emptying the list of members             *)
(* (models.go:69-72, access.go:14-16, handlers_config.go:57-60).           *)
OutsidersSeeNothing ==
  \A u \in Users :
    /\ store["project"] # Junk => \A p \in shownProjects(u) : trusts(p, u)
    /\ \A k \in Kinds \ {"command"} : store[k] # Junk =>
         \A r \in shown(u, k) \cup UNION {shownIn(u, k, p) : p \in Buckets} :
           \E p \in homes(r) : trusts(p, u)

(* Nor do their requests change anything there: what a request is about to *)
(* write differs from what it read only in records of projects that trust  *)
(* the caller, before and after, all the projects a VPN is shared into     *)
(* included; and to delete a VPN its owner must trust the caller, whoever  *)
(* it is shared with (handlers_config.go:174-178, 221-222,                 *)
(* handlers_ipsec.go:110-113).                                             *)
OutsidersChangeNothing ==
  \A h \in Handlers : requests[h] # Idle =>
    LET q == requests[h]
        trusted(p) == trusts(p, q.by)
        lost(r)    == \E p \in homes(r) : trusted(p)
        was(i)     == q.seen[i]
        becomes(i) == q.write[i]
    IN q.step = "save" =>
       /\ q.file \in Kinds \ {"command"} =>
            \A i \in Ids[q.file] : was(i) # becomes(i) =>
              /\ was(i) # Gone => lost(was(i))
              /\ was(i) # Gone /\ becomes(i) = Gone => trusted(was(i).project)
              /\ becomes(i) # Gone => \A p \in homes(becomes(i)) : trusted(p)
       /\ q.file = "project" =>
            \A p \in Projects : was(p) # Gone /\ was(p) # becomes(p) => trusted(p)
       /\ q.file = "ipsec" =>
            /\ \A i \in ProfileIds :
                 LET c == q.seen.profiles[i]  new == q.write.profiles[i] IN
                 c # new => \A d \in {c, new} \ {Gone} : trusted(d.project)
            /\ \A v \in VpnIds :
                 LET i == q.write.bindings[v] IN
                 i # q.seen.bindings[v] /\ i # Gone => trusted(q.write.profiles[i].project)

(* A VPN is bound to a profile that is there, or to none, however the      *)
(* binding, the deletion and other saves overlap: a dangling binding would *)
(* be filled in with empty values when the container is built              *)
(* (handlers_ipsec.go:158-160).                                            *)
BindingsResolve ==
  store["ipsec"] # Junk =>
    \A v \in VpnIds : store["ipsec"].bindings[v] # Gone => ipsecForVpn(v) # Gone

(* A stored profile has all that its mode cannot authenticate without      *)
(* (ipsec.go:252-255), through any sequence of partial edits, except for   *)
(* one from before there were modes that nobody has edited since           *)
(* (ipsec.go:141-149).                                                     *)
ProfilesComplete ==
  store["ipsec"] # Junk =>
    \A i \in ProfileIds :
      LET c == store["ipsec"].profiles[i]  first == Start["ipsec"].profiles[i] IN
      c \notin {Gone, first, normalizeIkeMode(first)} =>
        c.mode # Blank /\ needs[c.mode] \subseteq c.has

(* Services go after their host, never before: a request that deletes the  *)
(* services of a host has had the host removed from the list, unless some  *)
(* other request has since saved a list it had read earlier                *)
(* (handlers_config.go:356-360).                                           *)
CascadeAfterHost ==
  ~stale => \A h \in Handlers :
    requests[h] # Idle /\ requests[h].op = "cascade" =>
      store["host"] = Junk \/ store["host"][requests[h].id] = Gone
=============================================================================
