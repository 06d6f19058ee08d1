-------------------------- MODULE InventoryProofs --------------------------
(***************************************************************************)
(* Proofs about Inventory, for every number of users, records, requests    *)
(* and every content of the files at the start; and about Metrics, for     *)
(* every number of hosts and calls, and every scale of the three times.    *)
(***************************************************************************)
EXTENDS Inventory, Metrics, TLAPS, WellFoundedInduction

----------------------------------------------------------------------------
(* Types *)

(* A read of a list gives a list.                                          *)
LEMMA ReadListType ==
  ASSUME NEW f \in Files, TypeOK, store[f] # Junk
  PROVE  readList(f) \in Contents(f)
<1>1. store[f] \in Contents(f)
  BY DEF TypeOK
<1>2. CASE f # "ipsec"
  BY <1>1, <1>2 DEF readList
<1>3. CASE f = "ipsec"
  <2>1. store["ipsec"] \in IpsecConfig
    BY <1>1, <1>3 DEF Contents
  <2>2. \A c \in Profile \cup {Gone} : normalizeIkeMode(c) \in Profile \cup {Gone}
    BY DEF normalizeIkeMode, Profile
  <2>3. \A i \in ProfileIds : store["ipsec"].profiles[i] \in Profile \cup {Gone}
    BY <2>1 DEF IpsecConfig
  <2>4. [i \in ProfileIds |-> normalizeIkeMode(store["ipsec"].profiles[i])]
          \in [ProfileIds -> Profile \cup {Gone}]
    BY <2>2, <2>3
  <2> QED
    BY <2>1, <2>4, <1>3 DEF readList, Contents, IpsecConfig
<1> QED
  BY <1>2, <1>3

(* An empty file reads as a list.                                          *)
LEMMA EmptyType ==
  ASSUME NEW f \in Files
  PROVE  empty(f) \in Contents(f)
<1>1. CASE f = "project"
  BY <1>1 DEF empty, Contents, Ids
<1>2. CASE f = "ipsec"
  BY <1>2 DEF empty, Contents, IpsecConfig
<1>3. CASE f \in Kinds
  <2>1. f # "project" /\ f # "ipsec"
    BY <1>3 DEF Kinds
  <2>2. [i \in Ids[f] |-> Gone] \in [Ids[f] -> Record \cup {Gone}]
    OBVIOUS
  <2> QED
    BY <2>1, <2>2 DEF empty, Contents
<1> QED
  BY <1>1, <1>2, <1>3 DEF Files

(* A step that changes one request and no file keeps the types.            *)
LEMMA RequestStep ==
  ASSUME TypeOK, NEW h \in Handlers, NEW q, q # Idle => RequestOK(q),
         requests' = [requests EXCEPT ![h] = q], taken' \in 0..MaxRequests,
         UNCHANGED <<store, issued, vouched, stale>>
  PROVE  TypeOK'
<1>1. requests' = [g \in Handlers |-> requests'[g]]
  BY DEF TypeOK
<1>2. \A g \in Handlers : requests'[g] # Idle => RequestOK(requests'[g])
  BY DEF TypeOK
<1> QED
  BY <1>1, <1>2 DEF TypeOK

(* A request that begins is well formed, if what it names, sends and has   *)
(* read is.                                                                *)
LEMMA AskStep ==
  ASSUME TypeOK, NEW h \in Handlers, NEW u \in Users, NEW f \in Files,
         NEW op \in Ops(f), NEW id \in Target(f, op), NEW body \in Body(f, op),
         NEW step \in {"read", "check"}, NEW seen \in Contents(f) \cup {Unread},
         step = "check" => seen \in Contents(f), op = "create" => step = "read",
         Ask(h, asked(u, f, op, id, body, step, seen))
  PROVE  TypeOK'
<1> DEFINE q == asked(u, f, op, id, body, step, seen)
<1>1. RequestOK(q)
  <2>1. q.file = f /\ q.op = op /\ q.step = step /\ q.seen = seen
    BY DEF asked
  <2>2. q \in Request(f, op)
    BY DEF asked, Request
  <2> HIDE DEF q
  <2> QED
    BY <2>1, <2>2 DEF RequestOK
<1>2. taken' \in 0..MaxRequests
  BY InventoryAssumption DEF Ask, TypeOK
<1>3. requests' = [requests EXCEPT ![h] = q] /\ UNCHANGED <<store, issued, vouched, stale>>
  BY DEF Ask
<1> HIDE DEF q
<1> QED
  BY <1>1, <1>2, <1>3, RequestStep

LEMMA ProceedStep ==
  ASSUME TypeOK, NEW h \in Handlers, NEW q, RequestOK(q), Proceed(h, q)
  PROVE  TypeOK'
BY RequestStep DEF Proceed, TypeOK

(* The list a request writes.                                              *)
LEMMA WriteStep ==
  ASSUME TypeOK, NEW h \in Handlers, requests[h] # Idle,
         requests[h].step = "check", NEW c \in Contents(requests[h].file), Write(h, c)
  PROVE  TypeOK'
<1> DEFINE q == [requests[h] EXCEPT !.write = c, !.step = "save"]
<1>1. RequestOK(requests[h])
  BY DEF TypeOK
<1>2. RequestOK(q)
  BY <1>1 DEF RequestOK, Request
<1>3. Proceed(h, q)
  BY DEF Write
<1> HIDE DEF q
<1> QED
  BY <1>2, <1>3, ProceedStep

LEMMA InitType == Init => TypeOK
<1> SUFFICES ASSUME Init PROVE TypeOK
  OBVIOUS
<1>1. store = [f \in Files |-> store[f]] /\ \A f \in Files : store[f] \in Contents(f)
  BY InventoryAssumption DEF Init
<1>2. taken \in 0..MaxRequests
  BY InventoryAssumption DEF Init
<1>3. issued \subseteq AnyId
  BY InventoryAssumption DEF Init
<1>4. vouched \subseteq Projects \X Users
  BY DEF Init, exposed
<1> QED
  BY <1>1, <1>2, <1>3, <1>4 DEF Init, TypeOK

LEMMA BeginType ==
  ASSUME TypeOK, NEW h \in Handlers, Begin(h)
  PROVE  TypeOK'
<1>1. CASE PostResource(h)
  <2>1. PICK u \in Users, k \in Kinds : \E r \in Records[k] :
          Ask(h, asked(u, k, "create", Unread, r, "read", Unread))
    BY <1>1 DEF PostResource
  <2>2. PICK r \in Records[k] : Ask(h, asked(u, k, "create", Unread, r, "read", Unread))
    BY <2>1
  <2>3. /\ k \in Files /\ "create" \in Ops(k)
        /\ Unread \in Target(k, "create") /\ r \in Body(k, "create")
    BY DEF Files, Ops, Target, Body
  <2> QED
    BY <2>2, <2>3, AskStep
<1>2. CASE PostProject(h)
  <2>1. PICK u \in Users : Ask(h, asked(u, "project", "create", Unread, {u}, "read", Unread))
    BY <1>2 DEF PostProject
  <2>2. /\ "project" \in Files /\ "create" \in Ops("project")
        /\ Unread \in Target("project", "create") /\ {u} \in Body("project", "create")
    BY DEF Files, Ops, Target, Body, Kinds
  <2> QED
    BY <2>1, <2>2, AskStep
<1>3. CASE PostProfile(h)
  <2>1. PICK u \in Users, c \in NewProfiles :
          Ask(h, asked(u, "ipsec", "create", Unread, c, "read", Unread))
    BY <1>3 DEF PostProfile
  <2>2. /\ "ipsec" \in Files /\ "create" \in Ops("ipsec")
        /\ Unread \in Target("ipsec", "create") /\ c \in Body("ipsec", "create")
    BY DEF Files, Ops, Target, Body, Kinds
  <2> QED
    BY <2>1, <2>2, AskStep
<1>4. CASE PutReads(h)
  <2>1. PICK u \in Users, f \in Files : \E i \in Ids[f] \cap issued, b \in Body(f, "update") :
          store[f] # Junk /\ Ask(h, asked(u, f, "update", i, b, "check", readList(f)))
    BY <1>4 DEF PutReads
  <2>2. PICK i \in Ids[f] \cap issued, b \in Body(f, "update") :
          store[f] # Junk /\ Ask(h, asked(u, f, "update", i, b, "check", readList(f)))
    BY <2>1
  <2>3. "update" \in Ops(f) /\ i \in Target(f, "update") /\ readList(f) \in Contents(f)
    BY <2>2, ReadListType DEF Ops, Target
  <2> QED
    BY <2>2, <2>3, AskStep
<1>5. CASE DeleteReads(h)
  <2>1. PICK u \in Users, f \in Files : \E i \in Ids[f] \cap issued :
          store[f] # Junk /\ Ask(h, asked(u, f, "delete", i, Absent, "check", readList(f)))
    BY <1>5 DEF DeleteReads
  <2>2. PICK i \in Ids[f] \cap issued :
          store[f] # Junk /\ Ask(h, asked(u, f, "delete", i, Absent, "check", readList(f)))
    BY <2>1
  <2>3. /\ "delete" \in Ops(f) /\ i \in Target(f, "delete") /\ Absent \in Body(f, "delete")
        /\ readList(f) \in Contents(f)
    BY <2>2, ReadListType DEF Ops, Target, Body
  <2> QED
    BY <2>2, <2>3, AskStep
<1>6. CASE PutBinding(h)
  <2>1. PICK u \in Users, v \in VpnIds, c \in (ProfileIds \cap issued) \cup {NoProfile} :
          Ask(h, asked(u, "ipsec", "bind", v, c, "read", Unread))
    BY <1>6 DEF PutBinding
  <2>2. /\ "ipsec" \in Files /\ "bind" \in Ops("ipsec")
        /\ v \in Target("ipsec", "bind") /\ c \in Body("ipsec", "bind")
    BY DEF Files, Ops, Target, Body, Kinds
  <2> QED
    BY <2>1, <2>2, AskStep
<1> QED
  BY <1>1, <1>2, <1>3, <1>4, <1>5, <1>6 DEF Begin

(* What a list holds by id, and lists with one entry changed.              *)
Entry(f) == IF f = "project" THEN SUBSET Users ELSE Record

LEMMA ListType ==
  ASSUME NEW f \in Files \ {"ipsec"}
  PROVE  Contents(f) = [Ids[f] -> Entry(f) \cup {Gone}]
BY DEF Contents, Entry, Ids

LEMMA PutType ==
  ASSUME NEW f \in Files \ {"ipsec"}, NEW c \in Contents(f), NEW i,
         NEW x \in Entry(f) \cup {Gone}
  PROVE  [c EXCEPT ![i] = x] \in Contents(f)
BY ListType

LEMMA PutProfileType ==
  ASSUME NEW c \in Contents("ipsec"), NEW i, NEW x \in Profile \cup {Gone}
  PROVE  [c EXCEPT !.profiles[i] = x] \in Contents("ipsec")
<1>1. c \in IpsecConfig
  BY DEF Contents
<1>2. [c.profiles EXCEPT ![i] = x] \in [ProfileIds -> Profile \cup {Gone}]
  BY <1>1 DEF IpsecConfig
<1> QED
  BY <1>1, <1>2 DEF Contents, IpsecConfig

LEMMA PutBindingType ==
  ASSUME NEW c \in Contents("ipsec"), NEW i, NEW x \in ProfileIds \cup {Gone}
  PROVE  [c EXCEPT !.bindings[i] = x] \in Contents("ipsec")
<1>1. c \in IpsecConfig
  BY DEF Contents
<1>2. [c.bindings EXCEPT ![i] = x] \in [VpnIds -> ProfileIds \cup {Gone}]
  BY <1>1 DEF IpsecConfig
<1> QED
  BY <1>1, <1>2 DEF Contents, IpsecConfig

(* A request under way, by its step.                                       *)
LEMMA Reading ==
  ASSUME TypeOK, NEW h \in Handlers, requests[h] # Idle
  PROVE  /\ requests[h].file \in Files /\ requests[h].op \in Ops(requests[h].file)
         /\ requests[h] \in Request(requests[h].file, requests[h].op)
         /\ requests[h].step = "check" => requests[h].seen \in Contents(requests[h].file)
         /\ requests[h].step = "save" => /\ requests[h].seen \in Contents(requests[h].file)
                                         /\ requests[h].write \in Contents(requests[h].file)
         /\ requests[h].op = "create" => \/ requests[h].step = "read"
                                         \/ /\ requests[h].step = "save"
                                            /\ requests[h].id \in Ids[requests[h].file]
BY DEF TypeOK, RequestOK

(* What was read and is to be written.                                     *)
LEMMA PostReadsType ==
  ASSUME TypeOK, NEW h \in Handlers, PostReads(h)
  PROVE  TypeOK'
<1> DEFINE q == requests[h]
           c == readList(q.file)
<1>1. q # Idle /\ q.op = "create" /\ q.file \in Files /\ store[q.file] # Junk
  BY DEF PostReads, At
<1>2. c \in Contents(q.file)
  BY <1>1, ReadListType
<1>3. q \in Request(q.file, "create")
  BY <1>1, Reading
<1>4. q.body \in Body(q.file, "create")
  BY <1>3 DEF Request
<1>5. PICK i \in Ids[q.file] :
        Proceed(h, [q EXCEPT !.id = i, !.seen = c, !.step = "save",
                     !.write = IF q.file = "ipsec" THEN [c EXCEPT !.profiles[i] = q.body]
                               ELSE [c EXCEPT ![i] = q.body]])
  BY DEF PostReads
<1> DEFINE w == IF q.file = "ipsec" THEN [c EXCEPT !.profiles[i] = q.body]
                ELSE [c EXCEPT ![i] = q.body]
           r == [q EXCEPT !.id = i, !.seen = c, !.step = "save", !.write = w]
<1>6. w \in Contents(q.file)
  <2>1. CASE q.file = "ipsec"
    <3>1. q.body \in Profile
      BY <1>4, <2>1, InventoryAssumption DEF Body, Kinds
    <3> QED
      BY <1>2, <2>1, <3>1, PutProfileType
  <2>2. CASE q.file # "ipsec"
    <3>1. q.body \in Entry(q.file)
      BY <1>1, <1>4, <2>2, InventoryAssumption DEF Body, Entry, Files, Kinds
    <3> QED
      BY <1>1, <1>2, <2>2, <3>1, PutType
  <2> QED
    BY <2>1, <2>2
<1>7. r \in Request(q.file, "create")
  BY <1>2, <1>3, <1>6 DEF Request, Target
<1>8. RequestOK(r)
  <2>1. /\ r.file = q.file /\ r.op = "create" /\ r.seen = c /\ r.write = w
        /\ r.step = "save" /\ r.id = i
    BY <1>1, <1>3 DEF Request
  <2>2. "create" \in Ops(q.file)
    BY DEF Ops
  <2> HIDE DEF r, w
  <2> QED
    BY <1>1, <1>2, <1>6, <1>7, <2>1, <2>2 DEF RequestOK
<1>9. Proceed(h, r)
  BY <1>5
<1> HIDE DEF r
<1> QED
  BY <1>8, <1>9, ProceedStep

LEMMA ReadsNextType ==
  ASSUME TypeOK, NEW h \in Handlers, ReadsNext(h)
  PROVE  TypeOK'
<1> DEFINE q == requests[h]
           r == [q EXCEPT !.seen = readList(q.file), !.step = "check"]
<1>1. q # Idle /\ q.op # "create" /\ store[q.file] # Junk
  BY DEF ReadsNext, At
<1>2. q.file \in Files /\ q.op \in Ops(q.file) /\ q \in Request(q.file, q.op)
  BY <1>1, Reading
<1>3. readList(q.file) \in Contents(q.file)
  BY <1>1, <1>2, ReadListType
<1>4. RequestOK(r)
  <2>1. r.file = q.file /\ r.op = q.op /\ r.step = "check" /\ r.seen = readList(q.file)
    BY <1>2 DEF Request
  <2>2. r \in Request(q.file, q.op)
    BY <1>2, <1>3 DEF Request
  <2> HIDE DEF r
  <2> QED
    BY <1>1, <1>2, <1>3, <2>1, <2>2 DEF RequestOK
<1>5. Proceed(h, r)
  BY DEF ReadsNext
<1> HIDE DEF r
<1> QED
  BY <1>4, <1>5, ProceedStep

LEMMA DecideType ==
  ASSUME TypeOK, NEW h \in Handlers, Decide(h)
  PROVE  TypeOK'
<1> DEFINE q == requests[h]
<1>0. /\ q # Idle /\ q.step = "check" /\ q.file \in Files
      /\ q \in Request(q.file, q.op) /\ q.seen \in Contents(q.file)
  <2>1. q # Idle /\ q.step = "check"
    BY DEF Decide, PutResource, DeleteResource, PutProject, DeleteProject, PutProfile,
           DeleteProfile, Bind, Cascade, At
  <2> QED
    BY <2>1, Reading
<1> SUFFICES \E c \in Contents(q.file) : Write(h, c)
  BY <1>0, WriteStep
<1>1. CASE PutResource(h)
  <2>1. q.file \in Kinds /\ q.op = "update" /\ Write(h, [q.seen EXCEPT ![q.id] = q.body])
    BY <1>1 DEF PutResource, At
  <2>2. q.file # "ipsec" /\ q.body \in Entry(q.file)
    BY <1>0, <2>1, InventoryAssumption DEF Request, Body, Entry, Kinds
  <2> QED
    BY <1>0, <2>1, <2>2, PutType
<1>2. CASE DeleteResource(h)
  <2>1. q.file \in Kinds /\ Write(h, [q.seen EXCEPT ![q.id] = Gone])
    BY <1>2 DEF DeleteResource, At
  <2> QED
    BY <1>0, <2>1, PutType DEF Kinds
<1>3. CASE PutProject(h)
  <2>1. q.file = "project" /\ q.op = "update" /\ Write(h, [q.seen EXCEPT ![q.id] = q.body])
    BY <1>3 DEF PutProject, At
  <2>2. q.body \in Entry(q.file)
    BY <1>0, <2>1 DEF Request, Body, Entry, Kinds
  <2> QED
    BY <1>0, <2>1, <2>2, PutType
<1>4. CASE DeleteProject(h)
  <2>1. q.file = "project" /\ Write(h, [q.seen EXCEPT ![q.id] = Gone])
    BY <1>4 DEF DeleteProject, At
  <2> QED
    BY <1>0, <2>1, PutType
<1>5. CASE PutProfile(h)
  <2> DEFINE c == q.seen.profiles[q.id]
             new == merged(c, q.body)
  <2>1. /\ q.file = "ipsec" /\ q.op = "update" /\ c # Gone
        /\ Write(h, [q.seen EXCEPT !.profiles[q.id] = new])
    BY <1>5 DEF PutProfile, At
  <2>2. q.body \in Edit /\ q.id \in ProfileIds
    BY <1>0, <2>1, InventoryAssumption DEF Request, Body, Kinds, Target, Ids
  <2>3. c \in Profile
    BY <1>0, <2>1, <2>2 DEF Contents, IpsecConfig
  <2>4. new \in Profile
    BY <2>2, <2>3 DEF merged, Profile, Edit
  <2> QED
    BY <1>0, <2>1, <2>4, PutProfileType
<1>6. CASE DeleteProfile(h)
  <2>1. /\ q.file = "ipsec"
        /\ Write(h, [q.seen EXCEPT !.profiles[q.id] = Gone,
                                   !.bindings = withoutBindings(q.seen, q.id)])
    BY <1>6 DEF DeleteProfile, At
  <2>2. [q.seen EXCEPT !.profiles[q.id] = Gone] \in IpsecConfig
    BY <1>0, <2>1, PutProfileType DEF Contents
  <2>3. withoutBindings(q.seen, q.id) \in [VpnIds -> ProfileIds \cup {Gone}]
    BY <1>0, <2>1 DEF withoutBindings, Contents, IpsecConfig
  <2>4. [q.seen EXCEPT !.profiles[q.id] = Gone, !.bindings = withoutBindings(q.seen, q.id)]
          \in IpsecConfig
    BY <2>2, <2>3 DEF IpsecConfig
  <2> QED
    BY <2>1, <2>4 DEF Contents
<1>7. CASE Bind(h)
  <2>1. /\ q.file = "ipsec" /\ q.op = "bind"
        /\ \/ Write(h, [q.seen EXCEPT !.bindings[q.id] = Gone])
           \/ q.body # NoProfile /\ Write(h, [q.seen EXCEPT !.bindings[q.id] = q.body])
    BY <1>7 DEF Bind, At
  <2>2. q.body \in ProfileIds \cup {NoProfile}
    BY <1>0, <2>1 DEF Request, Body, Kinds
  <2> QED
    BY <1>0, <2>1, <2>2, PutBindingType
<1>8. CASE Cascade(h)
  <2>1. q.file = "service"
    BY <1>8 DEF Cascade, At
  <2>2. q.seen \in [ServiceIds -> Record \cup {Gone}]
    BY <1>0, <2>1 DEF Contents, Ids
  <2> DEFINE kept == [s \in ServiceIds |->
                        IF /\ q.seen[s] # Gone
                           /\ q.seen[s].on = q.id
                           /\ canAccessProject(q.by, q.seen[s].project)
                        THEN Gone ELSE q.seen[s]]
  <2>3. kept \in Contents(q.file)
    BY <2>1, <2>2 DEF Contents, Ids
  <2>4. Write(h, kept)
    BY <1>8 DEF Cascade
  <2> QED
    BY <2>3, <2>4
<1> QED
  BY <1>1, <1>2, <1>3, <1>4, <1>5, <1>6, <1>7, <1>8 DEF Decide

LEMMA EndsType ==
  ASSUME TypeOK, NEW h \in Handlers, Ends(h)
  PROVE  TypeOK'
BY RequestStep DEF Ends, Proceed, TypeOK

(* A save, and what is left of one that fails.                             *)
LEMMA SavedType ==
  ASSUME TypeOK, NEW f \in Files, NEW c, c # Junk => c \in Contents(f), Saved(f, c)
  PROVE  /\ store' = [g \in Files |-> store'[g]]
         /\ \A g \in Files : store'[g] # Junk => store'[g] \in Contents(g)
         /\ taken' \in 0..MaxRequests
BY DEF TypeOK, Saved

LEMMA LetsInType ==
  ASSUME NEW q, q.op \in Ops(q.file), q \in Request(q.file, q.op),
         q.op = "create" => q.id \in Ids[q.file]
  PROVE  letsIn(q) \subseteq Projects \X Users
<1>1. CASE q.file # "project" \/ q.op = "delete"
  BY <1>1 DEF letsIn
<1>2. CASE q.file = "project" /\ q.op = "create"
  <2>1. q.id \in Projects /\ q.by \in Users
    BY <1>2 DEF Request, Ids
  <2> QED
    BY <1>2, <2>1 DEF letsIn
<1>3. CASE q.file = "project" /\ q.op = "update"
  <2>1. q.body \in SUBSET Users /\ q.id \in Projects
    BY <1>3 DEF Request, Body, Kinds, Target, Ids
  <2> QED
    BY <1>3, <2>1 DEF letsIn
<1> QED
  BY <1>1, <1>2, <1>3 DEF Ops

LEMMA SaveType ==
  ASSUME TypeOK, NEW h \in Handlers, Save(h)
  PROVE  TypeOK'
<1> DEFINE q == requests[h]
<1>1. /\ q # Idle /\ q.step = "save" /\ Saved(q.file, q.write)
      /\ requests' = [requests EXCEPT ![h] =
           IF q.file = "host" /\ q.op = "delete" THEN ThenCascade(h) ELSE Idle]
      /\ issued' = IF q.op = "create" THEN issued \cup {q.id} ELSE issued
      /\ vouched' = vouched \cup letsIn(q) \cup exposed(store'["project"], issued')
      /\ stale' = (stale \/ (q.file = "host" /\ store["host"] # q.seen))
  BY DEF Save
<1>2. /\ q.file \in Files /\ q.op \in Ops(q.file) /\ q \in Request(q.file, q.op)
      /\ q.write \in Contents(q.file)
      /\ q.op = "create" => q.id \in Ids[q.file]
  BY <1>1, Reading
<1>3. /\ store' = [g \in Files |-> store'[g]]
      /\ \A g \in Files : store'[g] # Junk => store'[g] \in Contents(g)
      /\ taken' \in 0..MaxRequests
  <2> HIDE DEF q
  <2> QED
    BY <1>1, <1>2, SavedType
<1>4. q.file = "host" /\ q.op = "delete" => RequestOK(ThenCascade(h))
  <2> SUFFICES ASSUME q.file = "host", q.op = "delete" PROVE RequestOK(ThenCascade(h))
    OBVIOUS
  <2> DEFINE r == ThenCascade(h)
  <2>1. r.file = "service" /\ r.op = "cascade" /\ r.step = "read"
    BY <1>2 DEF ThenCascade, Request
  <2>2. q.id \in HostIds /\ q.body = Absent
    BY <1>2 DEF Request, Target, Body, Ids
  <2>3. r \in Request("service", "cascade")
    BY <1>2, <2>2 DEF ThenCascade, Request, Target, Body
  <2>4. "service" \in Files /\ "cascade" \in Ops("service")
    BY DEF Files, Kinds, Ops
  <2>5. RequestOK(r)
    <3> HIDE DEF r
    <3> QED
      BY <2>1, <2>3, <2>4 DEF RequestOK
  <2> QED
    BY <2>5
<1>5. /\ requests' = [g \in Handlers |-> requests'[g]]
      /\ \A g \in Handlers : requests'[g] # Idle => RequestOK(requests'[g])
  BY <1>1, <1>4 DEF TypeOK
<1>6. issued' \subseteq AnyId
  <2>1. Ids[q.file] \subseteq AnyId
    BY <1>2 DEF AnyId
  <2> HIDE DEF q
  <2> QED
    BY <1>1, <1>2, <2>1 DEF TypeOK
<1>7. vouched' \subseteq Projects \X Users
  <2>1. letsIn(q) \subseteq Projects \X Users
    <3> HIDE DEF q
    <3> QED
      BY <1>2, LetsInType
  <2>2. exposed(store'["project"], issued') \subseteq Projects \X Users
    BY DEF exposed
  <2> QED
    BY <1>1, <2>1, <2>2 DEF TypeOK
<1>8. stale' \in BOOLEAN
  BY <1>1 DEF TypeOK
<1> QED
  BY <1>3, <1>5, <1>6, <1>7, <1>8 DEF TypeOK

LEMMA SaveFailsType ==
  ASSUME TypeOK, NEW h \in Handlers, SaveFails(h)
  PROVE  TypeOK'
<1> DEFINE q == requests[h]
<1>1. q # Idle /\ q.file \in Files
  BY Reading DEF SaveFails
<1>2. PICK left \in {store[q.file], empty(q.file), Junk} : Saved(q.file, left)
  BY DEF SaveFails
<1>3. left # Junk => left \in Contents(q.file)
  BY <1>1, <1>2, EmptyType DEF TypeOK
<1>4. /\ store' = [g \in Files |-> store'[g]]
      /\ \A g \in Files : store'[g] # Junk => store'[g] \in Contents(g)
      /\ taken' \in 0..MaxRequests
  BY <1>1, <1>2, <1>3, SavedType
<1>5. /\ requests' = [g \in Handlers |-> requests'[g]]
      /\ \A g \in Handlers : requests'[g] # Idle => RequestOK(requests'[g])
  BY DEF SaveFails, TypeOK
<1>6. vouched' \subseteq Projects \X Users
  BY DEF SaveFails, TypeOK, exposed
<1> QED
  BY <1>4, <1>5, <1>6 DEF SaveFails, TypeOK

LEMMA NextType == TypeOK /\ [Next]_vars => TypeOK'
<1> SUFFICES ASSUME TypeOK, [Next]_vars PROVE TypeOK'
  OBVIOUS
<1>1. ASSUME NEW h \in Handlers,
             Begin(h) \/ PostReads(h) \/ ReadsNext(h) \/ Decide(h) \/ Ends(h)
               \/ Save(h) \/ SaveFails(h)
      PROVE  TypeOK'
  BY <1>1, BeginType, PostReadsType, ReadsNextType, DecideType, EndsType, SaveType,
     SaveFailsType
<1>2. CASE Restart
  BY <1>2 DEF Restart, TypeOK
<1>3. CASE UNCHANGED vars
  BY <1>3 DEF vars, TypeOK
<1> QED
  BY <1>1, <1>2, <1>3 DEF Next

(* Every variable keeps its type, whatever requests overlap and whatever   *)
(* writes fail (handlers_config.go, handlers_projects.go, handlers_ipsec.go). *)
THEOREM TypeCorrect == Spec => []TypeOK
BY InitType, NextType, PTL DEF Spec

----------------------------------------------------------------------------
(* IPsec profiles: the file, what is read of it and what is to be written  *)
(* are each sound, so it does not matter which of them comes last.         *)

Legacy(i) == {Gone, Start["ipsec"].profiles[i], normalizeIkeMode(Start["ipsec"].profiles[i])}

Resolves(c) == \A v \in VpnIds : c.bindings[v] # Gone => c.profiles[c.bindings[v]] # Gone
Complete(c) == \A i \in ProfileIds :
                 c.profiles[i] \notin Legacy(i) => validateIpsecCredential(c.profiles[i])
Sound(c)    == Resolves(c) /\ Complete(c)

SoundRequest(q) ==
  q.file = "ipsec" =>
    /\ q.op = "create" => validateIpsecCredential(q.body)
    /\ q.step \in {"check", "save"} => Sound(q.seen)
    /\ q.step = "save" => Sound(q.write)

IpsecInv ==
  /\ store["ipsec"] # Junk => Sound(store["ipsec"])
  /\ \A h \in Handlers : requests[h] # Idle => SoundRequest(requests[h])

LEMMA NormalizeSound ==
  ASSUME TypeOK, store["ipsec"] # Junk, Sound(store["ipsec"])
  PROVE  Sound(readList("ipsec"))
<1> DEFINE c == store["ipsec"]
           d == readList("ipsec")
<1>1. c \in IpsecConfig
  BY DEF TypeOK, Files, Contents
<1>2. /\ d.bindings = c.bindings
      /\ \A i \in ProfileIds : d.profiles[i] = normalizeIkeMode(c.profiles[i])
  BY <1>1 DEF readList, IpsecConfig
<1>3. \A x \in Profile \cup {Gone} :
        /\ normalizeIkeMode(x) = Gone <=> x = Gone
        /\ normalizeIkeMode(normalizeIkeMode(x)) = normalizeIkeMode(x)
  BY InventoryAssumption DEF normalizeIkeMode, Profile
<1>4. \A i \in ProfileIds : c.profiles[i] \in Profile \cup {Gone}
  BY <1>1 DEF IpsecConfig
<1>5. \A v \in VpnIds : c.bindings[v] \in ProfileIds \cup {Gone}
  BY <1>1 DEF IpsecConfig
<1>6. Resolves(d)
  BY <1>2, <1>3, <1>4, <1>5 DEF Resolves, Sound
<1>7. Complete(d)
  <2> SUFFICES ASSUME NEW i \in ProfileIds, d.profiles[i] \notin Legacy(i)
               PROVE  validateIpsecCredential(d.profiles[i])
    BY DEF Complete
  <2>1. Start["ipsec"].profiles[i] \in Profile \cup {Gone}
    BY InventoryAssumption DEF Files, Contents, IpsecConfig
  <2>2. c.profiles[i] \notin Legacy(i)
    BY <1>2, <1>3, <1>4, <2>1 DEF Legacy
  <2>3. validateIpsecCredential(c.profiles[i])
    BY <2>2 DEF Sound, Complete
  <2>4. d.profiles[i] = c.profiles[i]
    BY <1>2, <2>2, <2>3, InventoryAssumption
       DEF validateIpsecCredential, normalizeIkeMode, Legacy
  <2> QED
    BY <2>3, <2>4
<1> QED
  BY <1>6, <1>7 DEF Sound

LEMMA ReadSound ==
  ASSUME TypeOK, IpsecInv, NEW f \in Files, store[f] # Junk
  PROVE  f = "ipsec" => Sound(readList(f))
BY NormalizeSound DEF IpsecInv

LEMMA SoundRequestStep ==
  ASSUME TypeOK, IpsecInv, NEW h \in Handlers, NEW q, q # Idle => SoundRequest(q),
         requests' = [requests EXCEPT ![h] = q], UNCHANGED store
  PROVE  IpsecInv'
<1>1. \A g \in Handlers : requests'[g] # Idle => SoundRequest(requests'[g])
  BY DEF TypeOK, IpsecInv
<1> QED
  BY <1>1 DEF IpsecInv

LEMMA SoundWriteStep ==
  ASSUME TypeOK, IpsecInv, NEW h \in Handlers, requests[h] # Idle,
         requests[h].step = "check", NEW c, Write(h, c),
         requests[h].file = "ipsec" => Sound(c)
  PROVE  IpsecInv'
<1> DEFINE q == [requests[h] EXCEPT !.write = c, !.step = "save"]
<1>1. requests[h] \in Request(requests[h].file, requests[h].op)
  BY Reading
<1>2. /\ q.file = requests[h].file /\ q.op = requests[h].op /\ q.body = requests[h].body
      /\ q.seen = requests[h].seen /\ q.write = c /\ q.step = "save"
  BY <1>1 DEF Request
<1>3. SoundRequest(q)
  <2>1. SoundRequest(requests[h])
    BY DEF IpsecInv
  <2> HIDE DEF q
  <2> QED
    BY <1>2, <2>1 DEF SoundRequest
<1>4. requests' = [requests EXCEPT ![h] = q] /\ UNCHANGED store
  BY DEF Write, Proceed
<1> HIDE DEF q
<1> QED
  BY <1>3, <1>4, SoundRequestStep

LEMMA IpsecInit == Init => IpsecInv
<1> SUFFICES ASSUME Init PROVE IpsecInv
  OBVIOUS
<1>1. store["ipsec"] = Start["ipsec"]
  BY DEF Init
<1>2. Resolves(Start["ipsec"])
  BY InventoryAssumption DEF Resolves
<1>3. Complete(Start["ipsec"])
  BY DEF Complete, Legacy
<1> QED
  BY <1>1, <1>2, <1>3 DEF IpsecInv, Sound, Init

LEMMA IpsecBegin ==
  ASSUME TypeOK, IpsecInv, NEW h \in Handlers, Begin(h)
  PROVE  IpsecInv'
<1>1. ASSUME NEW u, NEW f \in Files, NEW op, NEW i, NEW b, NEW step \in {"read", "check"},
             NEW seen, Ask(h, asked(u, f, op, i, b, step, seen)),
             f = "ipsec" /\ op = "create" => validateIpsecCredential(b),
             f = "ipsec" /\ step = "check" => Sound(seen)
      PROVE  IpsecInv'
  <2>1. SoundRequest(asked(u, f, op, i, b, step, seen))
    BY <1>1 DEF SoundRequest, asked
  <2> QED
    BY <1>1, <2>1, SoundRequestStep DEF Ask
<1>2. "project" \in Files /\ "ipsec" \in Files /\ Kinds \subseteq Files /\ "ipsec" \notin Kinds
  BY DEF Files, Kinds
<1>3. CASE PostResource(h)
  BY <1>1, <1>2, <1>3 DEF PostResource
<1>4. CASE PostProject(h)
  BY <1>1, <1>2, <1>4 DEF PostProject
<1>5. CASE PostProfile(h)
  BY <1>1, <1>2, <1>5 DEF PostProfile
<1>6. CASE PutReads(h)
  BY <1>1, <1>6, ReadSound DEF PutReads
<1>7. CASE DeleteReads(h)
  BY <1>1, <1>7, ReadSound DEF DeleteReads
<1>8. CASE PutBinding(h)
  BY <1>1, <1>2, <1>8 DEF PutBinding
<1> QED
  BY <1>3, <1>4, <1>5, <1>6, <1>7, <1>8 DEF Begin

LEMMA IpsecPostReads ==
  ASSUME TypeOK, IpsecInv, NEW h \in Handlers, PostReads(h)
  PROVE  IpsecInv'
<1> DEFINE q == requests[h]
           c == readList(q.file)
<1>1. q # Idle /\ q.op = "create" /\ q.file \in Files /\ store[q.file] # Junk
  BY DEF PostReads, At
<1>2. q \in Request(q.file, "create")
  BY <1>1, Reading
<1>3. PICK i \in Ids[q.file] :
        Proceed(h, [q EXCEPT !.id = i, !.seen = c, !.step = "save",
                     !.write = IF q.file = "ipsec" THEN [c EXCEPT !.profiles[i] = q.body]
                               ELSE [c EXCEPT ![i] = q.body]])
  BY DEF PostReads
<1> DEFINE w == IF q.file = "ipsec" THEN [c EXCEPT !.profiles[i] = q.body]
                ELSE [c EXCEPT ![i] = q.body]
           r == [q EXCEPT !.id = i, !.seen = c, !.step = "save", !.write = w]
<1>4. q.file = "ipsec" => Sound(c) /\ Sound(w)
  <2> SUFFICES ASSUME q.file = "ipsec" PROVE Sound(c) /\ Sound(w)
    OBVIOUS
  <2>1. Sound(c) /\ c \in IpsecConfig
    BY <1>1, ReadSound, ReadListType DEF Contents
  <2>2. q.body \in Profile /\ validateIpsecCredential(q.body)
    BY <1>1, <1>2, InventoryAssumption DEF Request, Body, Kinds, IpsecInv, SoundRequest
  <2>3. /\ w.bindings = c.bindings
        /\ \A j \in ProfileIds : w.profiles[j] = IF j = i THEN q.body ELSE c.profiles[j]
    BY <2>1 DEF IpsecConfig
  <2>4. \A v \in VpnIds : c.bindings[v] \in ProfileIds \cup {Gone}
    BY <2>1 DEF IpsecConfig
  <2>5. Resolves(w)
    BY <2>1, <2>2, <2>3, <2>4, InventoryAssumption DEF Sound, Resolves
  <2>6. Complete(w)
    BY <2>1, <2>2, <2>3 DEF Sound, Complete
  <2> QED
    BY <2>1, <2>5, <2>6 DEF Sound
<1>5. SoundRequest(r)
  <2>1. r.file = q.file /\ r.op = "create" /\ r.seen = c /\ r.write = w /\ r.body = q.body
    BY <1>1, <1>2 DEF Request
  <2>2. SoundRequest(q)
    BY <1>1 DEF IpsecInv
  <2> HIDE DEF r, w, c
  <2> QED
    BY <1>1, <1>4, <2>1, <2>2 DEF SoundRequest
<1>6. requests' = [requests EXCEPT ![h] = r] /\ UNCHANGED store
  BY <1>3 DEF Proceed
<1> HIDE DEF r
<1> QED
  BY <1>5, <1>6, SoundRequestStep

LEMMA IpsecReadsNext ==
  ASSUME TypeOK, IpsecInv, NEW h \in Handlers, ReadsNext(h)
  PROVE  IpsecInv'
<1> DEFINE q == requests[h]
           r == [q EXCEPT !.seen = readList(q.file), !.step = "check"]
<1>1. q # Idle /\ q.op # "create" /\ store[q.file] # Junk
  BY DEF ReadsNext, At
<1>2. q.file \in Files /\ q \in Request(q.file, q.op)
  BY <1>1, Reading
<1>3. r.file = q.file /\ r.op = q.op /\ r.step = "check" /\ r.seen = readList(q.file)
  BY <1>2 DEF Request
<1>4. SoundRequest(r)
  <2>1. q.file = "ipsec" => Sound(readList(q.file))
    BY <1>1, <1>2, ReadSound
  <2> HIDE DEF r
  <2> QED
    BY <1>1, <1>3, <2>1 DEF SoundRequest
<1>5. requests' = [requests EXCEPT ![h] = r] /\ UNCHANGED store
  BY DEF ReadsNext, Proceed
<1> HIDE DEF r
<1> QED
  BY <1>4, <1>5, SoundRequestStep

LEMMA IpsecDecide ==
  ASSUME TypeOK, IpsecInv, NEW h \in Handlers, Decide(h)
  PROVE  IpsecInv'
<1> DEFINE q == requests[h]
<1>0. q # Idle /\ q.step = "check"
  BY DEF Decide, PutResource, DeleteResource, PutProject, DeleteProject, PutProfile,
         DeleteProfile, Bind, Cascade, At
<1>1. CASE q.file # "ipsec"
  <2>1. \E c : Write(h, c)
    BY <1>1 DEF Decide, PutResource, DeleteResource, PutProject, DeleteProject,
                PutProfile, DeleteProfile, Bind, Cascade, At
  <2> QED
    BY <1>0, <1>1, <2>1, SoundWriteStep
<1>2. CASE q.file = "ipsec"
  <2>1. /\ q \in Request("ipsec", q.op) /\ q.seen \in IpsecConfig /\ Sound(q.seen)
    BY <1>0, <1>2, Reading DEF Contents, IpsecInv, SoundRequest
  <2>2. /\ \A v \in VpnIds : q.seen.bindings[v] \in ProfileIds \cup {Gone}
        /\ \A i \in ProfileIds : q.seen.profiles[i] \in Profile \cup {Gone}
    BY <2>1 DEF IpsecConfig
  <2> SUFFICES \E c : Sound(c) /\ Write(h, c)
    BY <1>0, SoundWriteStep
  <2>3. CASE PutProfile(h)
    <3> DEFINE c == q.seen.profiles[q.id]
               new == merged(c, q.body)
               w == [q.seen EXCEPT !.profiles[q.id] = new]
    <3>1. /\ q.op = "update" /\ c # Gone /\ validateIpsecCredential(new)
          /\ Write(h, w)
      BY <2>3 DEF PutProfile, At
    <3>2. q.body \in Edit /\ q.id \in ProfileIds
      BY <2>1, <3>1, InventoryAssumption DEF Request, Body, Kinds, Target, Ids
    <3>3. new \in Profile
      <4>1. c \in Profile
        BY <2>2, <3>1, <3>2
      <4> QED
        BY <3>2, <4>1 DEF merged, Profile, Edit
    <3> HIDE DEF new
    <3>4. /\ w.bindings = q.seen.bindings
          /\ \A j \in ProfileIds : w.profiles[j] = IF j = q.id THEN new ELSE q.seen.profiles[j]
      BY <2>1 DEF IpsecConfig
    <3>5. Resolves(w)
      BY <2>1, <2>2, <3>3, <3>4, InventoryAssumption DEF Sound, Resolves
    <3>6. Complete(w)
      BY <2>1, <3>1, <3>4 DEF Sound, Complete
    <3> QED
      BY <3>1, <3>5, <3>6 DEF Sound
  <2>4. CASE DeleteProfile(h)
    <3> DEFINE w == [q.seen EXCEPT !.profiles[q.id] = Gone,
                                   !.bindings = withoutBindings(q.seen, q.id)]
    <3>1. Write(h, w)
      BY <2>4 DEF DeleteProfile
    <3>2. /\ w.bindings = withoutBindings(q.seen, q.id)
          /\ \A j \in ProfileIds : w.profiles[j] = IF j = q.id THEN Gone ELSE q.seen.profiles[j]
      BY <2>1 DEF IpsecConfig
    <3>3. Resolves(w)
      BY <2>1, <2>2, <3>2 DEF Sound, Resolves, withoutBindings
    <3>4. Complete(w)
      BY <2>1, <3>2 DEF Sound, Complete, Legacy
    <3> QED
      BY <3>1, <3>3, <3>4 DEF Sound
  <2>5. CASE Bind(h)
    <3>1. PICK i \in ProfileIds \cup {Gone} :
            /\ i # Gone => q.seen.profiles[i] # Gone
            /\ Write(h, [q.seen EXCEPT !.bindings[q.id] = i])
      <4>1. q.body \in ProfileIds \cup {NoProfile}
        BY <2>1, <2>5 DEF Bind, At, Request, Body, Kinds
      <4> QED
        BY <2>5, <4>1 DEF Bind
    <3> DEFINE w == [q.seen EXCEPT !.bindings[q.id] = i]
    <3>2. /\ w.profiles = q.seen.profiles
          /\ \A v \in VpnIds : w.bindings[v] = IF v = q.id THEN i ELSE q.seen.bindings[v]
      BY <2>1 DEF IpsecConfig
    <3>3. Resolves(w) /\ Complete(w)
      BY <2>1, <3>1, <3>2 DEF Sound, Resolves, Complete
    <3> QED
      BY <3>1, <3>3 DEF Sound
  <2> QED
    BY <1>2, <2>3, <2>4, <2>5
       DEF Decide, PutResource, DeleteResource, PutProject, DeleteProject, Cascade, At, Kinds
<1> QED
  BY <1>1, <1>2

LEMMA IpsecSaved ==
  ASSUME TypeOK, IpsecInv, NEW f \in Files, NEW c, Saved(f, c),
         f = "ipsec" /\ c # Junk => Sound(c),
         \A g \in Handlers : requests'[g] # Idle => SoundRequest(requests'[g])
  PROVE  IpsecInv'
BY DEF TypeOK, IpsecInv, Saved

LEMMA IpsecNext == TypeOK /\ IpsecInv /\ [Next]_vars => IpsecInv'
<1> SUFFICES ASSUME TypeOK, IpsecInv, [Next]_vars PROVE IpsecInv'
  OBVIOUS
<1>1. ASSUME NEW h \in Handlers, Ends(h) PROVE IpsecInv'
  BY <1>1, SoundRequestStep DEF Ends, Proceed
<1>2. ASSUME NEW h \in Handlers, Save(h) PROVE IpsecInv'
  <2> DEFINE q == requests[h]
  <2>1. /\ q # Idle /\ q.file \in Files /\ q.step = "save" /\ Saved(q.file, q.write)
        /\ q \in Request(q.file, q.op)
        /\ requests' = [requests EXCEPT ![h] =
             IF q.file = "host" /\ q.op = "delete" THEN ThenCascade(h) ELSE Idle]
    BY <1>2, Reading DEF Save
  <2>2. q.file = "ipsec" => Sound(q.write)
    BY <2>1 DEF IpsecInv, SoundRequest
  <2>3. SoundRequest(ThenCascade(h))
    BY <2>1 DEF SoundRequest, ThenCascade, Request
  <2>4. \A g \in Handlers : requests'[g] # Idle => SoundRequest(requests'[g])
    BY <2>1, <2>3 DEF TypeOK, IpsecInv
  <2> HIDE DEF q
  <2> QED
    BY <2>1, <2>2, <2>4, IpsecSaved
<1>3. ASSUME NEW h \in Handlers, SaveFails(h) PROVE IpsecInv'
  <2> DEFINE q == requests[h]
  <2>1. q # Idle /\ q.file \in Files
    BY <1>3, Reading DEF SaveFails
  <2>2. PICK left \in {store[q.file], empty(q.file), Junk} : Saved(q.file, left)
    BY <1>3 DEF SaveFails
  <2>3. Sound(empty("ipsec"))
    BY DEF empty, Sound, Resolves, Complete, Legacy
  <2>4. \A g \in Handlers : requests'[g] # Idle => SoundRequest(requests'[g])
    BY <1>3 DEF SaveFails, TypeOK, IpsecInv
  <2> HIDE DEF q
  <2> QED
    BY <2>1, <2>2, <2>3, <2>4, IpsecSaved DEF IpsecInv
<1>4. CASE Restart
  BY <1>4 DEF Restart, IpsecInv
<1>5. CASE UNCHANGED vars
  BY <1>5 DEF vars, IpsecInv
<1> QED
  BY <1>1, <1>2, <1>3, <1>4, <1>5, IpsecBegin, IpsecPostReads, IpsecReadsNext, IpsecDecide
     DEF Next

LEMMA IpsecHolds == Spec => []IpsecInv
BY InitType, NextType, IpsecInit, IpsecNext, PTL DEF Spec

(* No order of a binding, a deletion, other saves and failed writes leaves *)
(* a VPN bound to a profile that is not there (handlers_ipsec.go:158-160). *)
THEOREM BindingsAlwaysResolve == Spec => []BindingsResolve
<1>1. IpsecInv => BindingsResolve
  BY DEF IpsecInv, Sound, Resolves, BindingsResolve, ipsecForVpn
<1> QED
  BY <1>1, IpsecHolds, PTL

(* No sequence of creations, partial edits, overlapping saves and failed   *)
(* writes stores a profile that lacks what its mode needs                  *)
(* (ipsec.go:248-310, handlers_ipsec.go:66-76).                            *)
THEOREM ProfilesStayComplete == Spec => []ProfilesComplete
<1>1. IpsecInv => ProfilesComplete
  BY InventoryAssumption
     DEF IpsecInv, Sound, Complete, Legacy, validateIpsecCredential, ProfilesComplete
<1> QED
  BY <1>1, IpsecHolds, PTL

----------------------------------------------------------------------------
(* Deleted hosts: an id is drawn once, a write of the hosts brings back no *)
(* record that is not in the list it was made from, and until somebody has *)
(* saved over a list that had changed, that list is the stored one.        *)

HostRequest(q, ids) ==
  /\ q.op \in {"delete", "cascade"} => q.id \in ids
  /\ q.op = "create" /\ q.step = "save" => q.id \notin ids
  /\ q.file = "host" /\ q.step \in {"check", "save"} => q.seen # Junk
  /\ q.file = "host" /\ q.step = "save" =>
       /\ \A i \in HostIds :
            q.seen[i] = Gone /\ q.write[i] # Gone => q.op = "create" /\ i = q.id
       /\ q.op = "delete" => q.write[q.id] = Gone

Creates(q)  == q # Idle /\ q.op = "create" /\ q.step = "save"
Cascades(q) == q # Idle /\ q.op = "cascade"

HostInv ==
  /\ CascadeAfterHost
  /\ \A h \in Handlers : requests[h] # Idle => HostRequest(requests[h], issued)
  /\ \A g, h \in Handlers :
       g # h /\ Creates(requests[g]) /\ Creates(requests[h]) => requests[g].id # requests[h].id

(* One request goes on as q, and no file changes.                          *)
LEMMA HostRequestStep ==
  ASSUME TypeOK, HostInv, NEW h \in Handlers, NEW q,
         q # Idle => HostRequest(q, issued),
         Cascades(q) => Cascades(requests[h]) /\ q.id = requests[h].id,
         Creates(q) => \A g \in Handlers \ {h} :
                         Creates(requests[g]) => requests[g].id # q.id,
         requests' = [requests EXCEPT ![h] = q], UNCHANGED <<store, issued, stale>>
  PROVE  HostInv'
<1>1. \A g \in Handlers : requests'[g] = IF g = h THEN q ELSE requests[g]
  BY DEF TypeOK
<1>2. CascadeAfterHost'
  BY <1>1 DEF HostInv, CascadeAfterHost, Cascades
<1>3. \A g \in Handlers : requests'[g] # Idle => HostRequest(requests'[g], issued')
  BY <1>1 DEF HostInv, HostRequest
<1>4. \A f, g \in Handlers :
        f # g /\ Creates(requests'[f]) /\ Creates(requests'[g]) =>
          requests'[f].id # requests'[g].id
  BY <1>1 DEF HostInv
<1> QED
  BY <1>2, <1>3, <1>4 DEF HostInv, Creates

(* An id that is known is not drawn again.                                 *)
LEMMA KnownIdsApart ==
  ASSUME HostInv, NEW h \in Handlers, NEW id \in issued
  PROVE  \A g \in Handlers : Creates(requests[g]) => requests[g].id # id
BY DEF HostInv, HostRequest, Creates

LEMMA HostInit == Init => HostInv
BY InventoryAssumption DEF Init, HostInv, CascadeAfterHost, Creates

LEMMA HostBegin ==
  ASSUME TypeOK, HostInv, NEW h \in Handlers, Begin(h)
  PROVE  HostInv'
<1>1. ASSUME NEW u, NEW f, NEW op \in {"create", "update", "delete", "bind"}, NEW i, NEW b,
             NEW step \in {"read", "check"}, NEW seen,
             Ask(h, asked(u, f, op, i, b, step, seen)),
             op = "delete" => i \in issued,
             f = "host" /\ step = "check" => seen # Junk
      PROVE  HostInv'
  <2> DEFINE q == asked(u, f, op, i, b, step, seen)
  <2>1. /\ q.file = f /\ q.op = op /\ q.id = i /\ q.step = step /\ q.seen = seen
        /\ requests' = [requests EXCEPT ![h] = q] /\ UNCHANGED <<store, issued, stale>>
    BY <1>1 DEF asked, Ask
  <2> HIDE DEF q
  <2>2. HostRequest(q, issued)
    BY <1>1, <2>1 DEF HostRequest
  <2>3. ~Creates(q) /\ ~Cascades(q)
    BY <1>1, <2>1 DEF Creates, Cascades
  <2> QED
    BY <2>1, <2>2, <2>3, HostRequestStep
<1>2. CASE PostResource(h)
  BY <1>1, <1>2 DEF PostResource
<1>3. CASE PostProject(h)
  BY <1>1, <1>3 DEF PostProject
<1>4. CASE PostProfile(h)
  BY <1>1, <1>4 DEF PostProfile
<1>5. CASE PutReads(h)
  BY <1>1, <1>5 DEF PutReads, readList
<1>6. CASE DeleteReads(h)
  BY <1>1, <1>6 DEF DeleteReads, readList
<1>7. CASE PutBinding(h)
  BY <1>1, <1>7 DEF PutBinding
<1> QED
  BY <1>2, <1>3, <1>4, <1>5, <1>6, <1>7 DEF Begin

LEMMA HostPostReads ==
  ASSUME TypeOK, HostInv, NEW h \in Handlers, PostReads(h)
  PROVE  HostInv'
<1> DEFINE q == requests[h]
           c == readList(q.file)
<1>1. q # Idle /\ q.op = "create" /\ q.file \in Files /\ store[q.file] # Junk
  BY DEF PostReads, At
<1>2. q \in Request(q.file, "create") /\ c \in Contents(q.file)
  BY <1>1, Reading, ReadListType
<1>3. PICK i \in Ids[q.file] \ (issued \cup drawn) :
        Proceed(h, [q EXCEPT !.id = i, !.seen = c, !.step = "save",
                     !.write = IF q.file = "ipsec" THEN [c EXCEPT !.profiles[i] = q.body]
                               ELSE [c EXCEPT ![i] = q.body]])
  BY DEF PostReads
<1> DEFINE w == IF q.file = "ipsec" THEN [c EXCEPT !.profiles[i] = q.body]
                ELSE [c EXCEPT ![i] = q.body]
           r == [q EXCEPT !.id = i, !.seen = c, !.step = "save", !.write = w]
<1>4. /\ r.file = q.file /\ r.op = "create" /\ r.id = i /\ r.seen = c /\ r.write = w
      /\ r.step = "save"
  BY <1>1, <1>2 DEF Request
<1>5. q.file = "host" => c # Junk /\ \A j \in HostIds : j # i => w[j] = c[j]
  BY <1>1, <1>2 DEF readList, Contents, Ids
<1>6. HostRequest(r, issued)
  <2> HIDE DEF r, w, c
  <2> QED
    BY <1>3, <1>4, <1>5 DEF HostRequest
<1>7. \A g \in Handlers \ {h} : Creates(requests[g]) => requests[g].id # r.id
  BY <1>3, <1>4 DEF drawn, Creates
<1>8. requests' = [requests EXCEPT ![h] = r] /\ UNCHANGED <<store, issued, stale>>
  BY <1>3 DEF Proceed
<1>9. ~Cascades(r)
  BY <1>4 DEF Cascades
<1> HIDE DEF r
<1> QED
  BY <1>6, <1>7, <1>8, <1>9, HostRequestStep

LEMMA HostReadsNext ==
  ASSUME TypeOK, HostInv, NEW h \in Handlers, ReadsNext(h)
  PROVE  HostInv'
<1> DEFINE q == requests[h]
           r == [q EXCEPT !.seen = readList(q.file), !.step = "check"]
<1>1. q # Idle /\ q.file # "host" /\ q.op \in {"bind", "cascade"}
  BY DEF ReadsNext, At
<1>2. q \in Request(q.file, q.op) /\ HostRequest(q, issued)
  BY <1>1, Reading DEF HostInv
<1>3. r.file = q.file /\ r.op = q.op /\ r.id = q.id /\ r.step = "check"
  BY <1>2 DEF Request
<1>4. requests' = [requests EXCEPT ![h] = r] /\ UNCHANGED <<store, issued, stale>>
  BY DEF ReadsNext, Proceed
<1> HIDE DEF r
<1>5. HostRequest(r, issued)
  BY <1>1, <1>2, <1>3 DEF HostRequest
<1>6. ~Creates(r) /\ (Cascades(r) => Cascades(q) /\ r.id = q.id)
  BY <1>1, <1>3 DEF Creates, Cascades
<1> QED
  BY <1>4, <1>5, <1>6, HostRequestStep

LEMMA HostDecide ==
  ASSUME TypeOK, HostInv, NEW h \in Handlers, Decide(h)
  PROVE  HostInv'
<1> DEFINE q == requests[h]
<1>1. q # Idle /\ q.step = "check" /\ q.op # "create"
  BY DEF Decide, PutResource, DeleteResource, PutProject, DeleteProject, PutProfile,
         DeleteProfile, Bind, Cascade, At
<1>2. q \in Request(q.file, q.op) /\ HostRequest(q, issued)
  BY <1>1, Reading DEF HostInv
<1>3. PICK c : /\ Write(h, c)
               /\ q.file = "host" =>
                    /\ \A i \in HostIds : q.seen[i] = Gone => c[i] = Gone
                    /\ q.op = "delete" => c[q.id] = Gone
  <2>1. CASE q.file # "host"
    BY <2>1 DEF Decide, PutResource, DeleteResource, PutProject, DeleteProject,
                PutProfile, DeleteProfile, Bind, Cascade, At
  <2>2. CASE q.file = "host"
    <3>1. q.id \in HostIds /\ q.seen \in [HostIds -> Record \cup {Gone}]
      <4>1. q.op \in {"update", "delete"} /\ q.seen \in Contents("host")
        BY <1>1, <2>2, Reading DEF Ops
      <4> QED
        BY <1>2, <2>2, <4>1 DEF Request, Target, Contents, Ids
    <3>2. CASE PutResource(h)
      BY <2>2, <3>1, <3>2 DEF PutResource, At
    <3>3. CASE DeleteResource(h)
      BY <2>2, <3>1, <3>3 DEF DeleteResource
    <3> QED
      BY <2>2, <3>2, <3>3 DEF Decide, PutProject, DeleteProject, PutProfile, DeleteProfile,
                              Bind, Cascade, At
  <2> QED
    BY <2>1, <2>2
<1> DEFINE r == [q EXCEPT !.write = c, !.step = "save"]
<1>4. /\ r.file = q.file /\ r.op = q.op /\ r.id = q.id /\ r.seen = q.seen /\ r.write = c
      /\ r.step = "save"
  BY <1>2 DEF Request
<1>5. requests' = [requests EXCEPT ![h] = r] /\ UNCHANGED <<store, issued, stale>>
  BY <1>3 DEF Write, Proceed
<1> HIDE DEF r
<1>6. HostRequest(r, issued)
  BY <1>1, <1>2, <1>3, <1>4 DEF HostRequest
<1>7. ~Creates(r) /\ (Cascades(r) => Cascades(q) /\ r.id = q.id)
  BY <1>1, <1>4 DEF Creates, Cascades
<1> QED
  BY <1>5, <1>6, <1>7, HostRequestStep

(* The write of the hosts brings back no host that is going with its       *)
(* services, and no request but a deletion starts such a cascade.          *)
LEMMA HostSave ==
  ASSUME TypeOK, HostInv, NEW h \in Handlers, Save(h)
  PROVE  HostInv'
<1> DEFINE q == requests[h]
           next == IF q.file = "host" /\ q.op = "delete" THEN ThenCascade(h) ELSE Idle
<1>1. /\ q # Idle /\ q.step = "save" /\ Saved(q.file, q.write)
      /\ requests' = [requests EXCEPT ![h] = next]
      /\ issued' = IF q.op = "create" THEN issued \cup {q.id} ELSE issued
      /\ stale' = (stale \/ (q.file = "host" /\ store["host"] # q.seen))
  BY DEF Save
<1>2. /\ q.file \in Files /\ q \in Request(q.file, q.op) /\ q.seen \in Contents(q.file)
      /\ q.write \in Contents(q.file) /\ HostRequest(q, issued)
  BY <1>1, Reading DEF HostInv
<1>3. q.file = "host" /\ q.op = "delete" =>
        /\ next.op = "cascade" /\ next.id = q.id /\ next.step = "read"
        /\ next.file = "service"
  BY <1>2 DEF ThenCascade, Request
<1>4. \A g \in Handlers : requests'[g] = IF g = h THEN next ELSE requests[g]
  BY <1>1 DEF TypeOK
<1>5. /\ store'["host"] = IF q.file = "host" THEN q.write ELSE store["host"]
  BY <1>1 DEF Saved, TypeOK, Files, Kinds
<1>6. next # Idle => q.file = "host" /\ q.op = "delete"
  OBVIOUS
<1> HIDE DEF next, q
<1>7. ASSUME NEW g \in Handlers, requests'[g] # Idle
      PROVE  HostRequest(requests'[g], issued')
  <2>1. CASE g = h
    BY <1>1, <1>2, <1>3, <1>4, <1>6, <1>7, <2>1 DEF HostRequest
  <2>2. CASE g # h
    <3>1. requests'[g] = requests[g] /\ HostRequest(requests[g], issued)
      BY <1>4, <1>7, <2>2 DEF HostInv
    <3>2. Creates(requests[g]) /\ q.op = "create" => requests[g].id # q.id
      BY <1>1, <2>2 DEF HostInv, Creates, q
    <3> QED
      BY <1>1, <1>7, <3>1, <3>2 DEF HostRequest, Creates
  <2> QED
    BY <2>1, <2>2
<1>8. \A f, g \in Handlers :
        f # g /\ Creates(requests'[f]) /\ Creates(requests'[g]) =>
          requests'[f].id # requests'[g].id
  BY <1>3, <1>4, <1>6 DEF HostInv, Creates
<1>9. ASSUME ~stale', NEW g \in Handlers, Cascades(requests'[g])
      PROVE  store'["host"] = Junk \/ store'["host"][requests'[g].id] = Gone
  <2>1. CASE g = h
    BY <1>1, <1>2, <1>3, <1>4, <1>5, <1>6, <1>9, <2>1 DEF HostRequest, Cascades
  <2>2. CASE g # h
    <3>1. /\ requests'[g] = requests[g] /\ requests[g].id \in issued /\ ~stale
          /\ store["host"] = Junk \/ store["host"][requests[g].id] = Gone
      BY <1>1, <1>4, <1>9, <2>2 DEF HostInv, HostRequest, CascadeAfterHost, Cascades
    <3>2. CASE q.file # "host"
      BY <1>5, <3>1, <3>2
    <3>3. CASE q.file = "host"
      <4>1. store["host"] = q.seen /\ q.seen # Junk
        BY <1>1, <1>2, <1>9, <3>3 DEF HostRequest
      <4>2. requests[g].id \in HostIds
        BY <1>9, <3>1, Reading DEF Cascades, Ops, Request, Target
      <4>3. q.op = "create" => q.id # requests[g].id
        BY <1>1, <1>2, <3>1 DEF HostRequest
      <4> QED
        BY <1>1, <1>2, <1>5, <3>1, <3>3, <4>1, <4>2, <4>3 DEF HostRequest
    <3> QED
      BY <3>2, <3>3
  <2> QED
    BY <2>1, <2>2
<1> QED
  BY <1>7, <1>8, <1>9 DEF HostInv, CascadeAfterHost, Cascades

LEMMA HostSaveFails ==
  ASSUME TypeOK, HostInv, NEW h \in Handlers, SaveFails(h)
  PROVE  HostInv'
<1>1. \A g \in Handlers : requests'[g] = IF g = h THEN Idle ELSE requests[g]
  BY DEF SaveFails, TypeOK
<1>2. UNCHANGED <<issued, stale>>
  BY DEF SaveFails
<1>3. ASSUME NEW i \in HostIds, store["host"] = Junk \/ store["host"][i] = Gone
      PROVE  store'["host"] = Junk \/ store'["host"][i] = Gone
  <2>1. store'["host"] \in {store["host"], empty("host"), Junk}
    BY DEF SaveFails, Saved, TypeOK, Files, Kinds
  <2> QED
    BY <1>3, <2>1 DEF empty, Ids
<1>4. \A g \in Handlers : Cascades(requests[g]) => requests[g].id \in HostIds
  BY Reading DEF Cascades, Ops, Request, Target
<1>5. CascadeAfterHost'
  BY <1>1, <1>2, <1>3, <1>4 DEF HostInv, CascadeAfterHost, Cascades
<1> QED
  BY <1>1, <1>2, <1>5 DEF HostInv, Creates

LEMMA HostNext == TypeOK /\ HostInv /\ [Next]_vars => HostInv'
<1> SUFFICES ASSUME TypeOK, HostInv, [Next]_vars PROVE HostInv'
  OBVIOUS
<1>1. ASSUME NEW h \in Handlers, Ends(h) PROVE HostInv'
  BY <1>1, HostRequestStep DEF Ends, Proceed, Creates, Cascades
<1>2. CASE Restart
  BY <1>2 DEF Restart, HostInv, CascadeAfterHost, Creates
<1>3. CASE UNCHANGED vars
  BY <1>3 DEF vars, HostInv, CascadeAfterHost
<1> QED
  BY <1>1, <1>2, <1>3, HostBegin, HostPostReads, HostReadsNext, HostDecide, HostSave,
     HostSaveFails DEF Next

(* A request that deletes the services of a host has had the host removed, *)
(* unless somebody has saved over a list of hosts he had not read, however *)
(* many requests overlap and whichever write fails                         *)
(* (handlers_config.go:346-378).                                           *)
THEOREM ServicesGoAfterHost == Spec => []CascadeAfterHost
<1>1. HostInv => CascadeAfterHost
  BY DEF HostInv
<1> QED
  BY <1>1, InitType, NextType, HostInit, HostNext, PTL DEF Spec

----------------------------------------------------------------------------
(* Access: everything is tagged with ids that were given out; whoever a    *)
(* project admits, in the file, in a list read or in one to be written, is *)
(* vouched for; so a check that passed gave access to nobody else, and     *)
(* what it allowed stays allowed, for nobody loses the history.            *)

Trusted(pairs, p, u) == p = Unassigned \/ <<p, u>> \in pairs

entry(f, c, i) == IF f = "ipsec" THEN c.profiles[i] ELSE c[i]
places(f, r)   == IF f = "project" THEN {} ELSE IF f = "ipsec" THEN {r.project} ELSE homes(r)

EntryKnown(f, i, r, ids) == r # Gone => i \in ids /\ places(f, r) \subseteq ids \cup {Unassigned}
ListKnown(f, c, ids)     == \A i \in Ids[f] : EntryKnown(f, i, entry(f, c, i), ids)

MembersIn(c, pairs) ==
  \A p \in Projects, u \in Users :
    c[p] # Gone /\ isProjectMember(u, c[p]) => <<p, u>> \in pairs

(* What u may write over what it read (OutsidersChangeNothing).            *)
HonestResource(f, u, was, becomes, pairs) ==
  \A i \in Ids[f] : was[i] # becomes[i] =>
    /\ was[i] # Gone => \E p \in homes(was[i]) : Trusted(pairs, p, u)
    /\ was[i] # Gone /\ becomes[i] = Gone => Trusted(pairs, was[i].project, u)
    /\ becomes[i] # Gone => \A p \in homes(becomes[i]) : Trusted(pairs, p, u)

HonestProject(u, was, becomes, pairs) ==
  \A p \in Projects : was[p] # Gone /\ was[p] # becomes[p] => Trusted(pairs, p, u)

HonestIpsec(u, was, becomes, pairs) ==
  /\ \A i \in ProfileIds : was.profiles[i] # becomes.profiles[i] =>
       \A d \in {was.profiles[i], becomes.profiles[i]} \ {Gone} : Trusted(pairs, d.project, u)
  /\ \A v \in VpnIds :
       becomes.bindings[v] # was.bindings[v] /\ becomes.bindings[v] # Gone =>
         Trusted(pairs, becomes.profiles[becomes.bindings[v]].project, u)

Honest(f, u, was, becomes, pairs) ==
  /\ f \in Kinds \ {"command"} => HonestResource(f, u, was, becomes, pairs)
  /\ f = "project" => HonestProject(u, was, becomes, pairs)
  /\ f = "ipsec" => HonestIpsec(u, was, becomes, pairs)

(* What a request sends.                                                   *)
BodyKnown(q, ids, pairs) ==
  /\ q.file \in Kinds /\ q.op \in {"create", "update"} =>
       homes(q.body) \subseteq ids \cup {Unassigned}
  /\ q.file \in Kinds \ {"command"} /\ q.op = "create" =>
       \A p \in homes(q.body) : Trusted(pairs, p, q.by)
  /\ q.file = "ipsec" /\ q.op = "create" =>
       q.body.project \in ids \cup {Unassigned} /\ Trusted(pairs, q.body.project, q.by)
  /\ q.file = "ipsec" /\ q.op = "update" =>
       q.body.project = Absent \/ q.body.project \in ids \cup {Unassigned}
  /\ q.file = "project" /\ q.op = "create" => q.body = {q.by}
  /\ q.file = "project" /\ q.op = "update" => q.body # {}

(* Whom a write of the projects admits.                                    *)
Admits(q) == IF q.op \in {"create", "update"} THEN {q.id} \X q.body ELSE {}
Draws(q)  == IF q.op = "create" THEN {q.id} ELSE {}

AccessRequest(q, ids, pairs) ==
  /\ BodyKnown(q, ids, pairs)
  /\ q.step \in {"check", "save"} =>
       /\ ListKnown(q.file, q.seen, ids)
       /\ q.file = "project" => MembersIn(q.seen, pairs)
  /\ q.step = "save" =>
       /\ ListKnown(q.file, q.write, ids \cup Draws(q))
       /\ q.file = "project" => MembersIn(q.write, pairs \cup Admits(q))
       /\ q.file = "project" /\ q.op = "update" => <<q.id, q.by>> \in pairs
       /\ Honest(q.file, q.by, q.seen, q.write, pairs)

AccessInv ==
  /\ store["project"] # Junk => MembersIn(store["project"], vouched)
  /\ exposed(store["project"], issued) \subseteq vouched
  /\ \A f \in Files : store[f] # Junk => ListKnown(f, store[f], issued)
  /\ \A h \in Handlers : requests[h] # Idle => AccessRequest(requests[h], issued, vouched)

LEMMA AccessGrows ==
  ASSUME NEW q, NEW ids, NEW pairs, AccessRequest(q, ids, pairs),
         NEW ids2, NEW pairs2, ids \subseteq ids2, pairs \subseteq pairs2
  PROVE  AccessRequest(q, ids2, pairs2)
<1>1. \A p, u : Trusted(pairs, p, u) => Trusted(pairs2, p, u)
  BY DEF Trusted
<1>2. \A f, i, r, new : EntryKnown(f, i, r, ids \cup new) => EntryKnown(f, i, r, ids2 \cup new)
  BY DEF EntryKnown
<1>3. \A f, c : ListKnown(f, c, ids) => ListKnown(f, c, ids2)
  BY DEF EntryKnown, ListKnown
<1>4. \A f, c, new : ListKnown(f, c, ids \cup new) => ListKnown(f, c, ids2 \cup new)
  BY <1>2 DEF ListKnown
<1>5. \A c, new : MembersIn(c, pairs \cup new) => MembersIn(c, pairs2 \cup new)
  BY DEF MembersIn
<1>6. \A c : MembersIn(c, pairs) => MembersIn(c, pairs2)
  BY DEF MembersIn
<1>7. BodyKnown(q, ids2, pairs2)
  BY <1>1 DEF AccessRequest, BodyKnown
<1>8. \A f, u, was, becomes :
        Honest(f, u, was, becomes, pairs) => Honest(f, u, was, becomes, pairs2)
  <2> TAKE f, u, was, becomes
  <2>1. HonestResource(f, u, was, becomes, pairs) => HonestResource(f, u, was, becomes, pairs2)
    BY <1>1 DEF HonestResource
  <2>2. HonestProject(u, was, becomes, pairs) => HonestProject(u, was, becomes, pairs2)
    BY <1>1 DEF HonestProject
  <2>3. HonestIpsec(u, was, becomes, pairs) => HonestIpsec(u, was, becomes, pairs2)
    BY <1>1 DEF HonestIpsec
  <2> QED
    BY <2>1, <2>2, <2>3 DEF Honest
<1> QED
  BY <1>3, <1>4, <1>5, <1>6, <1>7, <1>8 DEF AccessRequest

(* A check that passes: who may open a project is vouched for.             *)
LEMMA CanAccess ==
  ASSUME TypeOK, AccessInv, NEW u \in Users, NEW p \in Buckets,
         p \in issued \cup {Unassigned}, canAccessProject(u, p)
  PROVE  Trusted(vouched, p, u)
<1> SUFFICES ASSUME p # Unassigned PROVE <<p, u>> \in vouched
  BY DEF Trusted
<1>1. p \in Projects \cap issued
  BY DEF Buckets
<1>2. CASE find("project", p) = Gone
  BY <1>1, <1>2 DEF find, exposed, AccessInv
<1>3. CASE find("project", p) # Gone
  BY <1>1, <1>3 DEF canAccessProject, find, AccessInv, MembersIn
<1> QED
  BY <1>2, <1>3

LEMMA HomesType ==
  ASSUME NEW r \in Record
  PROVE  homes(r) \subseteq Buckets /\ r.project \in homes(r)
BY DEF homes, Record, Buckets

(* What may be sent or touched, for records whose projects are known.      *)
LEMMA MaySend ==
  ASSUME TypeOK, AccessInv, NEW u \in Users, NEW k \in Kinds \ {"command"}, NEW r \in Record,
         homes(r) \subseteq issued \cup {Unassigned}, maySend(u, k, r)
  PROVE  \A p \in homes(r) : Trusted(vouched, p, u)
BY HomesType, CanAccess DEF maySend, canShareInto, homes

LEMMA MayTouch ==
  ASSUME TypeOK, AccessInv, NEW u \in Users, NEW k \in Kinds \ {"command"}, NEW r \in Record,
         homes(r) \subseteq issued \cup {Unassigned}, mayTouch(u, k, r)
  PROVE  \E p \in homes(r) : Trusted(vouched, p, u)
BY HomesType, CanAccess DEF mayTouch, canAccessVpn

LEMMA MayDrop ==
  ASSUME TypeOK, AccessInv, NEW u \in Users, NEW k \in Kinds \ {"command"}, NEW r \in Record,
         homes(r) \subseteq issued \cup {Unassigned}, mayDrop(u, k, r)
  PROVE  Trusted(vouched, r.project, u)
BY HomesType, CanAccess DEF mayDrop

LEMMA ReadKnown ==
  ASSUME TypeOK, AccessInv, NEW f \in Files, store[f] # Junk
  PROVE  /\ ListKnown(f, readList(f), issued)
         /\ f = "project" => MembersIn(readList(f), vouched)
<1>1. CASE f # "ipsec"
  BY <1>1 DEF readList, AccessInv
<1>2. CASE f = "ipsec"
  <2>1. store["ipsec"] \in IpsecConfig /\ ListKnown("ipsec", store["ipsec"], issued)
    BY <1>2 DEF TypeOK, Contents, AccessInv
  <2>2. \A i \in ProfileIds : readList("ipsec").profiles[i] = normalizeIkeMode(store["ipsec"].profiles[i])
    BY <2>1 DEF readList, IpsecConfig
  <2>3. \A i \in ProfileIds : store["ipsec"].profiles[i] \in Profile \cup {Gone}
    BY <2>1 DEF IpsecConfig
  <2>4. \A x \in Profile \cup {Gone} :
          normalizeIkeMode(x) # Gone => x # Gone /\ normalizeIkeMode(x).project = x.project
    BY DEF normalizeIkeMode, Profile
  <2> QED
    BY <1>2, <2>1, <2>2, <2>3, <2>4 DEF ListKnown, EntryKnown, entry, places, Ids
<1> QED
  BY <1>1, <1>2

LEMMA AccessRequestStep ==
  ASSUME TypeOK, AccessInv, NEW h \in Handlers, NEW q,
         q # Idle => AccessRequest(q, issued, vouched),
         requests' = [requests EXCEPT ![h] = q], UNCHANGED <<store, issued, vouched>>
  PROVE  AccessInv'
<1>1. \A g \in Handlers : requests'[g] # Idle => AccessRequest(requests'[g], issued', vouched')
  BY DEF TypeOK, AccessInv
<1> QED
  BY <1>1 DEF AccessInv, exposed

LEMMA AccessInit == Init => AccessInv
<1> SUFFICES ASSUME Init PROVE AccessInv
  OBVIOUS
<1>1. MembersIn(store["project"], vouched)
  BY DEF Init, MembersIn, isProjectMember
<1>2. exposed(store["project"], issued) \subseteq vouched
  BY DEF Init
<1>3. ASSUME NEW f \in Files PROVE ListKnown(f, store[f], issued)
  <2>1. stored(f, Start[f]) \subseteq Known /\ homesIn(f, Start[f]) \subseteq Known \cup {Unassigned}
    BY InventoryAssumption
  <2> SUFFICES ASSUME NEW i \in Ids[f], entry(f, Start[f], i) # Gone
               PROVE  /\ i \in Known
                      /\ places(f, entry(f, Start[f], i)) \subseteq Known \cup {Unassigned}
    BY DEF Init, ListKnown, EntryKnown
  <2>2. i \in stored(f, Start[f])
    BY DEF stored, entry
  <2>3. places(f, entry(f, Start[f], i)) \subseteq homesIn(f, Start[f])
    BY DEF places, homesIn, entry, Ids
  <2> QED
    BY <2>1, <2>2, <2>3
<1> QED
  BY <1>1, <1>2, <1>3 DEF AccessInv, Init

LEMMA AccessBegin ==
  ASSUME TypeOK, AccessInv, NEW h \in Handlers, Begin(h)
  PROVE  AccessInv'
<1>1. ASSUME NEW u, NEW f, NEW op, NEW i, NEW b, NEW step \in {"read", "check"}, NEW seen,
             Ask(h, asked(u, f, op, i, b, step, seen)),
             BodyKnown(asked(u, f, op, i, b, step, seen), issued, vouched),
             step = "check" => /\ ListKnown(f, seen, issued)
                               /\ f = "project" => MembersIn(seen, vouched)
      PROVE  AccessInv'
  <2> DEFINE q == asked(u, f, op, i, b, step, seen)
  <2>1. /\ q.file = f /\ q.step = step /\ q.seen = seen
        /\ requests' = [requests EXCEPT ![h] = q] /\ UNCHANGED <<store, issued, vouched>>
    BY <1>1 DEF asked, Ask
  <2>2. BodyKnown(q, issued, vouched)
    BY <1>1
  <2> HIDE DEF q
  <2>3. AccessRequest(q, issued, vouched)
    BY <1>1, <2>1, <2>2 DEF AccessRequest
  <2> QED
    BY <2>1, <2>3, AccessRequestStep
<1>2. ASSUME NEW k \in Kinds, NEW r \in Records[k], named(r)
      PROVE  r \in Record /\ homes(r) \subseteq issued \cup {Unassigned}
  <2>1. r \in Record
    BY InventoryAssumption
  <2>2. homes(r) \subseteq Projects \cup {Unassigned}
    BY <2>1, HomesType DEF Buckets
  <2> QED
    BY <1>2, <2>1, <2>2, InventoryAssumption DEF named, known
<1>3. CASE PostResource(h)
  <2>1. PICK u \in Users, k \in Kinds : \E r \in Records[k] :
          named(r) /\ maySend(u, k, r) /\ Ask(h, asked(u, k, "create", Unread, r, "read", Unread))
    BY <1>3 DEF PostResource
  <2>2. PICK r \in Records[k] :
          named(r) /\ maySend(u, k, r) /\ Ask(h, asked(u, k, "create", Unread, r, "read", Unread))
    BY <2>1
  <2>3. homes(r) \subseteq issued \cup {Unassigned} /\ r \in Record
    BY <1>2, <2>2
  <2>4. k # "command" => \A p \in homes(r) : Trusted(vouched, p, u)
    BY <2>2, <2>3, MaySend
  <2>5. BodyKnown(asked(u, k, "create", Unread, r, "read", Unread), issued, vouched)
    BY <2>3, <2>4 DEF BodyKnown, asked, Kinds
  <2> QED
    BY <1>1, <2>2, <2>5
<1>4. CASE PostProject(h)
  <2>1. PICK u \in Users : Ask(h, asked(u, "project", "create", Unread, {u}, "read", Unread))
    BY <1>4 DEF PostProject
  <2>2. BodyKnown(asked(u, "project", "create", Unread, {u}, "read", Unread), issued, vouched)
    BY DEF BodyKnown, asked, Kinds
  <2> QED
    BY <1>1, <2>1, <2>2
<1>5. CASE PostProfile(h)
  <2>1. PICK u \in Users, c \in NewProfiles :
          /\ c.project \in known /\ canAccessProject(u, c.project)
          /\ Ask(h, asked(u, "ipsec", "create", Unread, c, "read", Unread))
    BY <1>5 DEF PostProfile
  <2>2. c.project \in Buckets /\ c.project \in issued \cup {Unassigned}
    BY <2>1, InventoryAssumption DEF Profile, Buckets, known
  <2>3. Trusted(vouched, c.project, u)
    BY <2>1, <2>2, CanAccess
  <2>4. BodyKnown(asked(u, "ipsec", "create", Unread, c, "read", Unread), issued, vouched)
    BY <2>2, <2>3 DEF BodyKnown, asked, Kinds
  <2> QED
    BY <1>1, <2>1, <2>4
<1>6. CASE PutReads(h)
  <2>1. PICK u \in Users, f \in Files : \E i \in Ids[f] \cap issued, b \in Body(f, "update") :
          /\ f \in Kinds => named(b)
          /\ f = "project" => keepsMember(b)
          /\ f = "ipsec" => b.project \in known
          /\ store[f] # Junk
          /\ Ask(h, asked(u, f, "update", i, b, "check", readList(f)))
    BY <1>6 DEF PutReads
  <2>2. PICK i \in Ids[f] \cap issued, b \in Body(f, "update") :
          /\ f \in Kinds => named(b)
          /\ f = "project" => keepsMember(b)
          /\ f = "ipsec" => b.project \in known
          /\ store[f] # Junk
          /\ Ask(h, asked(u, f, "update", i, b, "check", readList(f)))
    BY <2>1
  <2>3. f \in Kinds => homes(b) \subseteq issued \cup {Unassigned}
    BY <1>2, <2>2 DEF Body
  <2>4. f = "ipsec" => b.project = Absent \/ b.project \in issued \cup {Unassigned}
    <3>1. f = "ipsec" => b \in Edit
      BY InventoryAssumption DEF Body, Kinds
    <3>2. f = "ipsec" => b.project \in Projects \cup {Unassigned, Absent}
      BY <3>1 DEF Edit, Buckets
    <3> QED
      BY <2>2, <3>2, InventoryAssumption DEF known
  <2>5. BodyKnown(asked(u, f, "update", i, b, "check", readList(f)), issued, vouched)
    BY <2>2, <2>3, <2>4 DEF BodyKnown, asked, keepsMember
  <2> QED
    BY <1>1, <2>2, <2>5, ReadKnown
<1>7. CASE DeleteReads(h)
  <2>1. PICK u \in Users, f \in Files : \E i \in Ids[f] \cap issued :
          store[f] # Junk /\ Ask(h, asked(u, f, "delete", i, Absent, "check", readList(f)))
    BY <1>7 DEF DeleteReads
  <2>2. PICK i \in Ids[f] \cap issued :
          store[f] # Junk /\ Ask(h, asked(u, f, "delete", i, Absent, "check", readList(f)))
    BY <2>1
  <2>3. BodyKnown(asked(u, f, "delete", i, Absent, "check", readList(f)), issued, vouched)
    BY DEF BodyKnown, asked
  <2> QED
    BY <1>1, <2>2, <2>3, ReadKnown
<1>8. CASE PutBinding(h)
  <2>1. PICK u \in Users, v \in VpnIds, c \in (ProfileIds \cap issued) \cup {NoProfile} :
          Ask(h, asked(u, "ipsec", "bind", v, c, "read", Unread))
    BY <1>8 DEF PutBinding
  <2>2. BodyKnown(asked(u, "ipsec", "bind", v, c, "read", Unread), issued, vouched)
    BY DEF BodyKnown, asked
  <2> QED
    BY <1>1, <2>1, <2>2
<1> QED
  BY <1>3, <1>4, <1>5, <1>6, <1>7, <1>8 DEF Begin

LEMMA AccessReadsNext ==
  ASSUME TypeOK, AccessInv, NEW h \in Handlers, ReadsNext(h)
  PROVE  AccessInv'
<1> DEFINE q == requests[h]
           r == [q EXCEPT !.seen = readList(q.file), !.step = "check"]
<1>1. q # Idle /\ store[q.file] # Junk
  BY DEF ReadsNext, At
<1>2. q.file \in Files /\ q \in Request(q.file, q.op) /\ BodyKnown(q, issued, vouched)
  BY <1>1, Reading DEF AccessInv, AccessRequest
<1>3. /\ r.file = q.file /\ r.op = q.op /\ r.body = q.body /\ r.by = q.by
      /\ r.step = "check" /\ r.seen = readList(q.file)
  BY <1>2 DEF Request
<1>4. /\ ListKnown(q.file, readList(q.file), issued)
      /\ q.file = "project" => MembersIn(readList(q.file), vouched)
  BY <1>1, <1>2, ReadKnown
<1>5. requests' = [requests EXCEPT ![h] = r] /\ UNCHANGED <<store, issued, vouched>>
  BY DEF ReadsNext, Proceed
<1> HIDE DEF r, q
<1>6. BodyKnown(r, issued, vouched)
  BY <1>2, <1>3 DEF BodyKnown
<1>7. AccessRequest(r, issued, vouched)
  BY <1>3, <1>4, <1>6 DEF AccessRequest
<1> QED
  BY <1>5, <1>7, AccessRequestStep

(* A new record: nothing with its id was there.                            *)
LEMMA AccessPostReads ==
  ASSUME TypeOK, AccessInv, NEW h \in Handlers, PostReads(h)
  PROVE  AccessInv'
<1> DEFINE q == requests[h]
           f == q.file
           c == readList(f)
<1>1. q # Idle /\ q.op = "create" /\ f \in Files /\ store[f] # Junk
  BY DEF PostReads, At
<1>2. /\ q \in Request(f, "create") /\ c \in Contents(f) /\ BodyKnown(q, issued, vouched)
      /\ ListKnown(f, c, issued) /\ (f = "project" => MembersIn(c, vouched))
  BY <1>1, Reading, ReadListType, ReadKnown DEF AccessInv, AccessRequest
<1>3. PICK i \in Ids[f] \ (issued \cup drawn) :
        Proceed(h, [q EXCEPT !.id = i, !.seen = c, !.step = "save",
                     !.write = IF f = "ipsec" THEN [c EXCEPT !.profiles[i] = q.body]
                               ELSE [c EXCEPT ![i] = q.body]])
  BY DEF PostReads
<1> DEFINE w == IF f = "ipsec" THEN [c EXCEPT !.profiles[i] = q.body]
                ELSE [c EXCEPT ![i] = q.body]
           r == [q EXCEPT !.id = i, !.seen = c, !.step = "save", !.write = w]
<1>4. /\ r.file = f /\ r.op = "create" /\ r.by = q.by /\ r.body = q.body /\ r.id = i
      /\ r.seen = c /\ r.write = w /\ r.step = "save"
  BY <1>1, <1>2 DEF Request
<1>5. requests' = [requests EXCEPT ![h] = r] /\ UNCHANGED <<store, issued, vouched>>
  BY <1>3 DEF Proceed
<1>6. /\ f = "ipsec" => w.bindings = c.bindings
      /\ \A j \in Ids[f] : entry(f, w, j) = IF j = i THEN q.body ELSE entry(f, c, j)
  <2>1. CASE f = "ipsec"
    BY <1>2, <2>1 DEF entry, Contents, IpsecConfig, Ids
  <2>2. CASE f # "ipsec"
    <3>1. c \in [Ids[f] -> Entry(f) \cup {Gone}]
      BY <1>1, <1>2, <2>2, ListType
    <3> QED
      BY <2>2, <3>1 DEF entry
  <2> QED
    BY <2>1, <2>2
<1>7. entry(f, c, i) = Gone
  BY <1>2, <1>3 DEF ListKnown, EntryKnown
<1>8. q.body \in Body(f, "create")
  BY <1>2 DEF Request
<1> HIDE DEF r, w, c
<1>9. BodyKnown(r, issued, vouched)
  BY <1>1, <1>2, <1>4 DEF BodyKnown
<1>10. places(f, q.body) \subseteq issued \cup {Unassigned}
  BY <1>1, <1>2 DEF BodyKnown, places, Files
<1>11. ListKnown(f, w, issued \cup Draws(r))
  BY <1>2, <1>4, <1>6, <1>10 DEF ListKnown, EntryKnown, Draws
<1>12. f = "project" => MembersIn(w, vouched \cup Admits(r))
  <2> SUFFICES ASSUME f = "project", NEW p \in Projects, NEW u \in Users,
                      w[p] # Gone, isProjectMember(u, w[p])
               PROVE  <<p, u>> \in vouched \cup Admits(r)
    BY DEF MembersIn
  <2>1. w[p] = IF p = i THEN q.body ELSE c[p]
    BY <1>6 DEF entry, Ids
  <2>2. q.body = {q.by}
    BY <1>1, <1>2 DEF BodyKnown
  <2>3. CASE p = i
    BY <1>4, <2>1, <2>2, <2>3 DEF Admits, isProjectMember
  <2>4. CASE p # i
    BY <1>2, <2>1, <2>4 DEF MembersIn
  <2> QED
    BY <2>3, <2>4
<1>13. Honest(f, q.by, c, w, vouched)
  <2>1. f \in Kinds \ {"command"} => HonestResource(f, q.by, c, w, vouched)
    <3> SUFFICES ASSUME f \in Kinds \ {"command"}, NEW j \in Ids[f], c[j] # w[j]
                 PROVE  c[j] = Gone /\ \A p \in homes(w[j]) : Trusted(vouched, p, q.by)
      BY DEF HonestResource
    <3>1. j = i /\ w[j] = q.body /\ c[j] = Gone
      BY <1>6, <1>7 DEF entry, Kinds
    <3> QED
      BY <1>1, <1>2, <3>1 DEF BodyKnown
  <2>2. f = "project" => HonestProject(q.by, c, w, vouched)
    BY <1>6, <1>7 DEF HonestProject, entry, Ids
  <2>3. f = "ipsec" => HonestIpsec(q.by, c, w, vouched)
    BY <1>1, <1>2, <1>6, <1>7 DEF HonestIpsec, entry, Ids, BodyKnown
  <2> QED
    BY <2>1, <2>2, <2>3 DEF Honest
<1>14. AccessRequest(r, issued, vouched)
  BY <1>2, <1>4, <1>9, <1>11, <1>12, <1>13 DEF AccessRequest
<1> QED
  BY <1>5, <1>14, AccessRequestStep

LEMMA AccessWriteStep ==
  ASSUME TypeOK, AccessInv, NEW h \in Handlers, requests[h] # Idle,
         requests[h].step = "check", NEW c, Write(h, c),
         ListKnown(requests[h].file, c, issued),
         requests[h].file = "project" =>
           /\ MembersIn(c, vouched \cup Admits(requests[h]))
           /\ <<requests[h].id, requests[h].by>> \in vouched,
         Honest(requests[h].file, requests[h].by, requests[h].seen, c, vouched)
  PROVE  AccessInv'
<1> DEFINE q == requests[h]
           r == [q EXCEPT !.write = c, !.step = "save"]
<1>1. q \in Request(q.file, q.op) /\ AccessRequest(q, issued, vouched)
  BY Reading DEF AccessInv
<1>2. /\ r.file = q.file /\ r.op = q.op /\ r.by = q.by /\ r.body = q.body /\ r.id = q.id
      /\ r.seen = q.seen /\ r.write = c /\ r.step = "save"
  BY <1>1 DEF Request
<1>3. requests' = [requests EXCEPT ![h] = r] /\ UNCHANGED <<store, issued, vouched>>
  BY DEF Write, Proceed
<1>4. Admits(r) = Admits(q) /\ BodyKnown(q, issued, vouched)
  BY <1>1, <1>2 DEF Admits, AccessRequest
<1> HIDE DEF r
<1>5. BodyKnown(r, issued, vouched)
  BY <1>2, <1>4 DEF BodyKnown
<1>6. ListKnown(q.file, c, issued \cup Draws(r))
  BY DEF ListKnown, EntryKnown
<1>7. AccessRequest(r, issued, vouched)
  BY <1>1, <1>2, <1>4, <1>5, <1>6 DEF AccessRequest
<1> QED
  BY <1>3, <1>7, AccessRequestStep

LEMMA AccessDecide ==
  ASSUME TypeOK, AccessInv, NEW h \in Handlers, Decide(h)
  PROVE  AccessInv'
<1> DEFINE q == requests[h]
           f == q.file
<1>1. q # Idle /\ q.step = "check"
  BY DEF Decide, PutResource, DeleteResource, PutProject, DeleteProject, PutProfile,
         DeleteProfile, Bind, Cascade, At
<1>2. /\ f \in Files /\ q \in Request(f, q.op) /\ q.seen \in Contents(f) /\ q.by \in Users
      /\ q.id \in Target(f, q.op) /\ q.body \in Body(f, q.op)
      /\ BodyKnown(q, issued, vouched) /\ ListKnown(f, q.seen, issued)
      /\ (f = "project" => MembersIn(q.seen, vouched))
  BY <1>1, Reading DEF AccessInv, AccessRequest, Request
<1> SUFFICES \E c : /\ Write(h, c)
                    /\ ListKnown(f, c, issued)
                    /\ f = "project" => /\ MembersIn(c, vouched \cup Admits(q))
                                        /\ <<q.id, q.by>> \in vouched
                    /\ Honest(f, q.by, q.seen, c, vouched)
  BY <1>1, AccessWriteStep
<1>3. CASE f \in Kinds
  <2>1. /\ f # "ipsec" /\ f # "project" /\ q.seen \in [Ids[f] -> Record \cup {Gone}]
        /\ \A i \in Ids[f] : q.seen[i] # Gone =>
             i \in issued /\ homes(q.seen[i]) \subseteq issued \cup {Unassigned}
    BY <1>2, <1>3 DEF Kinds, Contents, ListKnown, EntryKnown, entry, places
  <2>2. CASE PutResource(h)
    <3> DEFINE w == [q.seen EXCEPT ![q.id] = q.body]
    <3>1. /\ q.op = "update" /\ q.seen[q.id] # Gone /\ mayTouch(q.by, f, q.seen[q.id])
          /\ maySend(q.by, f, q.body) /\ Write(h, w)
      BY <2>2 DEF PutResource, At
    <3>2. q.id \in Ids[f] /\ q.body \in Record
      BY <1>2, <1>3, <2>1, <3>1, InventoryAssumption DEF Target, Body
    <3>3. homes(q.body) \subseteq issued \cup {Unassigned}
      BY <1>2, <1>3, <3>1 DEF BodyKnown
    <3>4. \A i \in Ids[f] : w[i] = IF i = q.id THEN q.body ELSE q.seen[i]
      BY <2>1
    <3> HIDE DEF w
    <3>5. ListKnown(f, w, issued)
      BY <2>1, <3>1, <3>2, <3>3, <3>4 DEF ListKnown, EntryKnown, entry, places
    <3>6. f # "command" =>
            /\ \E p \in homes(q.seen[q.id]) : Trusted(vouched, p, q.by)
            /\ \A p \in homes(q.body) : Trusted(vouched, p, q.by)
      <4> SUFFICES ASSUME f # "command"
                   PROVE  /\ \E p \in homes(q.seen[q.id]) : Trusted(vouched, p, q.by)
                          /\ \A p \in homes(q.body) : Trusted(vouched, p, q.by)
        OBVIOUS
      <4>1. q.seen[q.id] \in Record /\ homes(q.seen[q.id]) \subseteq issued \cup {Unassigned}
        BY <2>1, <3>1, <3>2
      <4> QED
        BY <1>2, <1>3, <3>1, <3>2, <3>3, <4>1, MayTouch, MaySend
    <3>7. f # "command" => HonestResource(f, q.by, q.seen, w, vouched)
      BY <3>2, <3>4, <3>6, InventoryAssumption DEF HonestResource
    <3> QED
      BY <2>1, <3>1, <3>5, <3>7 DEF Honest
  <2>3. CASE DeleteResource(h)
    <3> DEFINE w == [q.seen EXCEPT ![q.id] = Gone]
    <3>1. /\ q.op = "delete" /\ Write(h, w)
          /\ q.seen[q.id] # Gone => mayDrop(q.by, f, q.seen[q.id])
      BY <2>3 DEF DeleteResource, At
    <3>2. \A i \in Ids[f] : w[i] = IF i = q.id THEN Gone ELSE q.seen[i]
      BY <2>1
    <3> HIDE DEF w
    <3>3. ListKnown(f, w, issued)
      BY <2>1, <3>2 DEF ListKnown, EntryKnown, entry, places
    <3>4. f # "command" /\ q.id \in Ids[f] /\ q.seen[q.id] # Gone =>
            Trusted(vouched, q.seen[q.id].project, q.by)
      <4> SUFFICES ASSUME f # "command", q.id \in Ids[f], q.seen[q.id] # Gone
                   PROVE  Trusted(vouched, q.seen[q.id].project, q.by)
        OBVIOUS
      <4>1. q.seen[q.id] \in Record /\ homes(q.seen[q.id]) \subseteq issued \cup {Unassigned}
        BY <2>1
      <4> QED
        BY <1>2, <1>3, <3>1, <4>1, MayDrop
    <3>5. f # "command" => HonestResource(f, q.by, q.seen, w, vouched)
      BY <3>2, <3>4 DEF HonestResource, homes
    <3> QED
      BY <2>1, <3>1, <3>3, <3>5 DEF Honest
  <2>4. CASE Cascade(h)
    <3> DEFINE w == [s \in ServiceIds |->
                       IF /\ q.seen[s] # Gone
                          /\ q.seen[s].on = q.id
                          /\ canAccessProject(q.by, q.seen[s].project)
                       THEN Gone ELSE q.seen[s]]
    <3>1. f = "service" /\ Write(h, w)
      BY <2>4 DEF Cascade, At
    <3>2. \A i \in ServiceIds : /\ w[i] \in {Gone, q.seen[i]}
                                /\ w[i] # q.seen[i] => /\ q.seen[i] # Gone
                                     /\ canAccessProject(q.by, q.seen[i].project)
      OBVIOUS
    <3> HIDE DEF w
    <3>3. ListKnown(f, w, issued)
      BY <2>1, <3>1, <3>2 DEF ListKnown, EntryKnown, entry, places, Ids
    <3>4. ASSUME NEW i \in ServiceIds, w[i] # q.seen[i]
          PROVE  Trusted(vouched, q.seen[i].project, q.by)
      <4>1. q.seen[i] \in Record /\ homes(q.seen[i]) \subseteq issued \cup {Unassigned}
        BY <2>1, <3>1, <3>2, <3>4 DEF Ids
      <4> QED
        BY <1>2, <3>2, <3>4, <4>1, HomesType, CanAccess
    <3>5. HonestResource(f, q.by, q.seen, w, vouched)
      BY <3>1, <3>2, <3>4 DEF HonestResource, homes, Ids
    <3> QED
      BY <2>1, <3>1, <3>3, <3>5 DEF Honest
  <2> QED
    BY <1>3, <2>1, <2>2, <2>3, <2>4
       DEF Decide, PutProject, DeleteProject, PutProfile, DeleteProfile, Bind, At
<1>4. CASE f = "project"
  <2>1. /\ q.seen \in [Projects -> (SUBSET Users) \cup {Gone}]
        /\ \A p \in Projects : q.seen[p] # Gone => p \in issued
    BY <1>2, <1>4 DEF Contents, ListKnown, EntryKnown, entry, Ids
  <2>2. CASE PutProject(h)
    <3> DEFINE w == [q.seen EXCEPT ![q.id] = q.body]
    <3>1. /\ q.op = "update" /\ q.seen[q.id] # Gone /\ isProjectMember(q.by, q.seen[q.id])
          /\ Write(h, w)
      BY <2>2 DEF PutProject, At
    <3>2. q.id \in Projects /\ q.body # {}
      BY <1>2, <1>4, <3>1 DEF Target, Ids, BodyKnown
    <3>3. <<q.id, q.by>> \in vouched
      BY <1>2, <1>4, <3>1, <3>2 DEF MembersIn
    <3>4. \A p \in Projects : w[p] = IF p = q.id THEN q.body ELSE q.seen[p]
      BY <2>1
    <3> HIDE DEF w
    <3>5. ListKnown(f, w, issued)
      BY <1>4, <2>1, <3>1, <3>2, <3>4 DEF ListKnown, EntryKnown, entry, places, Ids
    <3>6. MembersIn(w, vouched \cup Admits(q))
      <4> SUFFICES ASSUME NEW p \in Projects, NEW u \in Users, w[p] # Gone,
                          isProjectMember(u, w[p])
                   PROVE  <<p, u>> \in vouched \cup Admits(q)
        BY DEF MembersIn
      <4>1. CASE p = q.id
        BY <3>1, <3>2, <3>4, <4>1 DEF isProjectMember, Admits
      <4>2. CASE p # q.id
        BY <1>2, <1>4, <3>4, <4>2 DEF MembersIn
      <4> QED
        BY <4>1, <4>2
    <3>7. HonestProject(q.by, q.seen, w, vouched)
      BY <3>3, <3>4 DEF HonestProject, Trusted
    <3> QED
      BY <1>4, <3>1, <3>3, <3>5, <3>6, <3>7 DEF Honest, Kinds
  <2>3. CASE DeleteProject(h)
    <3> DEFINE w == [q.seen EXCEPT ![q.id] = Gone]
    <3>1. /\ q.op = "delete" /\ find("project", q.id) # Gone
          /\ isProjectMember(q.by, find("project", q.id)) /\ Write(h, w)
      BY <2>3 DEF DeleteProject, At
    <3>2. q.id \in Projects
      BY <1>2, <1>4, <3>1 DEF Target, Ids
    <3>3. <<q.id, q.by>> \in vouched
      BY <1>2, <3>1, <3>2 DEF find, AccessInv, MembersIn
    <3>4. \A p \in Projects : w[p] = IF p = q.id THEN Gone ELSE q.seen[p]
      BY <2>1
    <3> HIDE DEF w
    <3>5. ListKnown(f, w, issued)
      BY <1>4, <2>1, <3>4 DEF ListKnown, EntryKnown, entry, places, Ids
    <3>6. MembersIn(w, vouched \cup Admits(q))
      BY <1>2, <1>4, <3>4 DEF MembersIn
    <3>7. HonestProject(q.by, q.seen, w, vouched)
      BY <3>3, <3>4 DEF HonestProject, Trusted
    <3> QED
      BY <1>4, <3>1, <3>3, <3>5, <3>6, <3>7 DEF Honest, Kinds
  <2> QED
    BY <1>4, <2>2, <2>3
       DEF Decide, PutResource, DeleteResource, PutProfile, DeleteProfile, Bind, Cascade, At,
           Kinds
<1>5. CASE f = "ipsec"
  <2>1. q.seen \in IpsecConfig
    BY <1>2, <1>5 DEF Contents
  <2>2. /\ \A i \in ProfileIds : /\ q.seen.profiles[i] \in Profile \cup {Gone}
                                 /\ q.seen.profiles[i] # Gone =>
                                      /\ i \in issued
                                      /\ q.seen.profiles[i].project \in issued \cup {Unassigned}
    BY <1>2, <1>5, <2>1 DEF IpsecConfig, ListKnown, EntryKnown, entry, places, Ids
  <2>3. ASSUME NEW i \in ProfileIds, q.seen.profiles[i] # Gone,
               canAccessProject(q.by, q.seen.profiles[i].project)
        PROVE  Trusted(vouched, q.seen.profiles[i].project, q.by)
    <3>1. q.seen.profiles[i].project \in Buckets
      BY <2>2, <2>3 DEF Profile
    <3> QED
      BY <1>2, <2>2, <2>3, <3>1, CanAccess
  <2>4. CASE PutProfile(h)
    <3> DEFINE c == q.seen.profiles[q.id]
               new == merged(c, q.body)
               w == [q.seen EXCEPT !.profiles[q.id] = new]
    <3>1. /\ q.op = "update" /\ c # Gone /\ Write(h, w)
          /\ canAccessProject(q.by, c.project) /\ canAccessProject(q.by, new.project)
      BY <2>4 DEF PutProfile, At
    <3>2. q.body \in Edit /\ q.id \in ProfileIds
      <4>1. q.body \in Body("ipsec", "update") /\ q.id \in Target("ipsec", "update")
        BY <1>2, <1>5, <3>1
      <4>2. Body("ipsec", "update") = Edits
        BY DEF Body, Kinds
      <4> QED
        BY <4>1, <4>2, InventoryAssumption DEF Target, Ids
    <3>3. c \in Profile
      BY <2>2, <3>1, <3>2
    <3>4. new.project \in {c.project, q.body.project} /\ new.project \in Buckets
          /\ (q.body.project = Absent => new.project = c.project)
      BY <3>2, <3>3 DEF merged, Profile, Edit
    <3>5. new.project \in issued \cup {Unassigned}
      BY <1>2, <1>5, <2>2, <3>1, <3>2, <3>4 DEF BodyKnown
    <3>6. Trusted(vouched, c.project, q.by) /\ Trusted(vouched, new.project, q.by)
      BY <1>2, <2>3, <3>1, <3>2, <3>4, <3>5, CanAccess
    <3> HIDE DEF new
    <3>7. /\ w.bindings = q.seen.bindings
          /\ \A j \in ProfileIds : w.profiles[j] = IF j = q.id THEN new ELSE q.seen.profiles[j]
      BY <2>1 DEF IpsecConfig
    <3> HIDE DEF w
    <3>8. ListKnown(f, w, issued)
      BY <1>5, <2>2, <3>1, <3>2, <3>5, <3>7 DEF ListKnown, EntryKnown, entry, places, Ids
    <3>9. HonestIpsec(q.by, q.seen, w, vouched)
      BY <3>6, <3>7 DEF HonestIpsec
    <3> QED
      BY <1>5, <3>1, <3>8, <3>9 DEF Honest, Kinds
  <2>5. CASE DeleteProfile(h)
    <3> DEFINE w == [q.seen EXCEPT !.profiles[q.id] = Gone,
                                   !.bindings = withoutBindings(q.seen, q.id)]
    <3>1. /\ q.op = "delete" /\ Write(h, w) /\ q.seen.profiles[q.id] # Gone
          /\ canAccessProject(q.by, q.seen.profiles[q.id].project)
      BY <2>5 DEF DeleteProfile, At
    <3>2. q.id \in ProfileIds
      BY <1>2, <1>5, <3>1 DEF Target, Ids
    <3>3. /\ w.bindings = withoutBindings(q.seen, q.id)
          /\ \A j \in ProfileIds : w.profiles[j] = IF j = q.id THEN Gone ELSE q.seen.profiles[j]
      BY <2>1 DEF IpsecConfig
    <3> HIDE DEF w
    <3>4. ListKnown(f, w, issued)
      BY <1>5, <2>2, <3>3 DEF ListKnown, EntryKnown, entry, places, Ids
    <3>5. HonestIpsec(q.by, q.seen, w, vouched)
      BY <2>3, <3>1, <3>2, <3>3 DEF HonestIpsec, withoutBindings
    <3> QED
      BY <1>5, <3>1, <3>4, <3>5 DEF Honest, Kinds
  <2>6. CASE Bind(h)
    <3>1. PICK i \in ProfileIds \cup {Gone} :
            /\ i # Gone => /\ q.seen.profiles[i] # Gone
                           /\ canAccessProject(q.by, q.seen.profiles[i].project)
            /\ Write(h, [q.seen EXCEPT !.bindings[q.id] = i])
      <4>1. q.body \in ProfileIds \cup {NoProfile}
        BY <1>2, <1>5, <2>6 DEF Bind, At, Body, Kinds
      <4> QED
        BY <2>6, <4>1 DEF Bind
    <3> DEFINE w == [q.seen EXCEPT !.bindings[q.id] = i]
    <3>2. /\ w.profiles = q.seen.profiles
          /\ \A v \in VpnIds : w.bindings[v] = IF v = q.id THEN i ELSE q.seen.bindings[v]
      BY <2>1 DEF IpsecConfig
    <3>3. Write(h, w)
      BY <3>1
    <3> HIDE DEF w
    <3>4. ListKnown(f, w, issued)
      BY <1>5, <2>2, <3>2 DEF ListKnown, EntryKnown, entry, places, Ids
    <3>5. HonestIpsec(q.by, q.seen, w, vouched)
      BY <2>3, <3>1, <3>2 DEF HonestIpsec
    <3> QED
      BY <1>5, <3>3, <3>4, <3>5 DEF Honest, Kinds
  <2> QED
    BY <1>5, <2>4, <2>5, <2>6
       DEF Decide, PutResource, DeleteResource, PutProject, DeleteProject, Cascade, At, Kinds
<1> QED
  BY <1>2, <1>3, <1>4, <1>5 DEF Files

LEMMA AccessSaved ==
  ASSUME TypeOK, AccessInv, NEW f \in Files, NEW c, Saved(f, c),
         issued \subseteq issued', vouched \subseteq vouched',
         exposed(store'["project"], issued') \subseteq vouched',
         c # Junk => /\ ListKnown(f, c, issued')
                     /\ f = "project" => MembersIn(c, vouched'),
         \A g \in Handlers :
           requests'[g] # Idle => AccessRequest(requests'[g], issued', vouched')
  PROVE  AccessInv'
<1>1. \A g \in Files : store'[g] = IF g = f THEN c ELSE store[g]
  BY DEF Saved, TypeOK
<1>2. "project" \in Files
  BY DEF Files
<1>3. \A g \in Files : store[g] # Junk => ListKnown(g, store[g], issued')
  BY DEF AccessInv, ListKnown, EntryKnown
<1>4. store["project"] # Junk => MembersIn(store["project"], vouched')
  BY DEF AccessInv, MembersIn
<1> QED
  BY <1>1, <1>2, <1>3, <1>4 DEF AccessInv

LEMMA AccessSave ==
  ASSUME TypeOK, AccessInv, NEW h \in Handlers, Save(h)
  PROVE  AccessInv'
<1> DEFINE q == requests[h]
           next == IF q.file = "host" /\ q.op = "delete" THEN ThenCascade(h) ELSE Idle
<1>1. /\ q # Idle /\ q.step = "save" /\ Saved(q.file, q.write)
      /\ requests' = [requests EXCEPT ![h] = next]
      /\ issued' = IF q.op = "create" THEN issued \cup {q.id} ELSE issued
      /\ vouched' = vouched \cup letsIn(q) \cup exposed(store'["project"], issued')
  BY DEF Save
<1>2. /\ q.file \in Files /\ q.op \in Ops(q.file) /\ q \in Request(q.file, q.op)
      /\ AccessRequest(q, issued, vouched)
  BY <1>1, Reading DEF AccessInv
<1>3. issued' = issued \cup Draws(q)
  BY <1>1 DEF Draws
<1>4. /\ issued \subseteq issued' /\ vouched \subseteq vouched'
      /\ exposed(store'["project"], issued') \subseteq vouched'
  BY <1>1
<1>5. q.file = "project" => Admits(q) \subseteq vouched \cup letsIn(q)
  <2> SUFFICES ASSUME q.file = "project", NEW x \in Admits(q) PROVE x \in vouched \cup letsIn(q)
    OBVIOUS
  <2>1. q.op \in {"create", "update"}
    BY DEF Admits
  <2>2. PICK u \in q.body : x = <<q.id, u>>
    BY <2>1 DEF Admits
  <2>3. CASE q.op = "create"
    BY <1>2, <2>2, <2>3 DEF AccessRequest, BodyKnown, letsIn
  <2>4. CASE q.op = "update"
    BY <1>1, <1>2, <2>2, <2>4 DEF AccessRequest, letsIn
  <2> QED
    BY <2>1, <2>3, <2>4
<1>6. /\ ListKnown(q.file, q.write, issued')
      /\ q.file = "project" => MembersIn(q.write, vouched')
  <2>1. q.file = "project" => MembersIn(q.write, vouched \cup Admits(q))
    BY <1>1, <1>2 DEF AccessRequest
  <2>2. q.file = "project" => vouched \cup Admits(q) \subseteq vouched'
    BY <1>1, <1>5
  <2>3. q.file = "project" => MembersIn(q.write, vouched')
    BY <2>1, <2>2 DEF MembersIn
  <2> QED
    BY <1>1, <1>2, <1>3, <2>3 DEF AccessRequest
<1>7. next # Idle => AccessRequest(next, issued', vouched')
  <2>1. next # Idle => next.file = "service" /\ next.op = "cascade" /\ next.step = "read"
    BY <1>2 DEF ThenCascade, Request
  <2> HIDE DEF next
  <2> QED
    BY <2>1 DEF AccessRequest, BodyKnown
<1> HIDE DEF next, q
<1>8. \A g \in Handlers :
        requests'[g] # Idle => AccessRequest(requests'[g], issued', vouched')
  BY <1>1, <1>4, <1>7, AccessGrows DEF TypeOK, AccessInv
<1> QED
  BY <1>1, <1>2, <1>4, <1>6, <1>8, AccessSaved

LEMMA AccessSaveFails ==
  ASSUME TypeOK, AccessInv, NEW h \in Handlers, SaveFails(h)
  PROVE  AccessInv'
<1> DEFINE f == requests[h].file
<1>1. f \in Files
  BY Reading DEF SaveFails
<1>2. PICK left \in {store[f], empty(f), Junk} : Saved(f, left)
  BY DEF SaveFails
<1>3. /\ requests' = [requests EXCEPT ![h] = Idle] /\ issued' = issued
      /\ vouched' = vouched \cup exposed(store'["project"], issued)
  BY DEF SaveFails
<1> HIDE DEF f
<1>4. ListKnown(f, empty(f), issued) /\ (f = "project" => MembersIn(empty(f), vouched'))
  BY DEF empty, ListKnown, EntryKnown, entry, MembersIn, Ids
<1>5. left # Junk => /\ ListKnown(f, left, issued')
                     /\ f = "project" => MembersIn(left, vouched')
  <2>1. store[f] # Junk => /\ ListKnown(f, store[f], issued)
                           /\ f = "project" => MembersIn(store[f], vouched')
    BY <1>1, <1>3 DEF AccessInv, MembersIn
  <2> QED
    BY <1>2, <1>3, <1>4, <2>1
<1>6. \A g \in Handlers :
        requests'[g] # Idle => AccessRequest(requests'[g], issued', vouched')
  BY <1>3, AccessGrows DEF TypeOK, AccessInv
<1> QED
  BY <1>1, <1>2, <1>3, <1>5, <1>6, AccessSaved

LEMMA AccessNext == TypeOK /\ AccessInv /\ [Next]_vars => AccessInv'
<1> SUFFICES ASSUME TypeOK, AccessInv, [Next]_vars PROVE AccessInv'
  OBVIOUS
<1>1. ASSUME NEW h \in Handlers, Ends(h) PROVE AccessInv'
  BY <1>1, AccessRequestStep DEF Ends, Proceed
<1>2. CASE Restart
  BY <1>2 DEF Restart, AccessInv
<1>3. CASE UNCHANGED vars
  BY <1>3 DEF vars, AccessInv
<1> QED
  BY <1>1, <1>2, <1>3, AccessBegin, AccessPostReads, AccessReadsNext, AccessDecide,
     AccessSave, AccessSaveFails DEF Next

LEMMA AccessHolds == Spec => [](TypeOK /\ AccessInv)
BY InitType, NextType, AccessInit, AccessNext, PTL DEF Spec

(* Nobody is shown a project, or a record of one, that he was not let into *)
(* by somebody in it, did not create, and that was never open, however     *)
(* requests overlap and writes fail (access.go:20-118).                    *)
THEOREM NothingShownToOutsiders == Spec => []OutsidersSeeNothing
<1>1. TypeOK /\ AccessInv => OutsidersSeeNothing
  <2> SUFFICES ASSUME TypeOK, AccessInv, NEW u \in Users
               PROVE  /\ store["project"] # Junk => \A p \in shownProjects(u) : trusts(p, u)
                      /\ \A k \in Kinds \ {"command"} : store[k] # Junk =>
                           \A r \in shown(u, k) \cup UNION {shownIn(u, k, p) : p \in Buckets} :
                             \E p \in homes(r) : trusts(p, u)
    BY DEF OutsidersSeeNothing
  <2>1. \A p : trusts(p, u) <=> Trusted(vouched, p, u)
    BY DEF trusts, Trusted
  <2>2. store["project"] # Junk => \A p \in shownProjects(u) : trusts(p, u)
    BY DEF shownProjects, AccessInv, MembersIn, trusts
  <2>3. ASSUME NEW k \in Kinds \ {"command"}, store[k] # Junk,
               NEW r \in shown(u, k) \cup UNION {shownIn(u, k, p) : p \in Buckets}
        PROVE  \E p \in homes(r) : Trusted(vouched, p, u)
    <3>1. r \in {store[k][i] : i \in Ids[k]} \ {Gone}
      BY DEF shown, shownIn
    <3>2. r \in Record /\ homes(r) \subseteq issued \cup {Unassigned}
      <4>1. k \in Files /\ k # "ipsec" /\ k # "project"
        BY DEF Files, Kinds
      <4>2. ListKnown(k, store[k], issued) /\ store[k] \in [Ids[k] -> Record \cup {Gone}]
        BY <2>3, <4>1 DEF AccessInv, TypeOK, Contents
      <4> QED
        BY <3>1, <4>1, <4>2 DEF ListKnown, EntryKnown, entry, places
    <3>3. CASE r \in shown(u, k)
      BY <3>2, <3>3, MayTouch DEF shown
    <3>4. CASE \E p \in Buckets : r \in shownIn(u, k, p)
      <4>1. PICK p \in Buckets : r \in shownIn(u, k, p)
        BY <3>4
      <4>2. p \in homes(r) /\ canAccessProject(u, p)
        BY <4>1 DEF shownIn, vpnInProject, homes
      <4> QED
        BY <3>2, <4>2, CanAccess
    <3> QED
      BY <3>3, <3>4
  <2> QED
    BY <2>1, <2>2, <2>3
<1> QED
  BY <1>1, AccessHolds, PTL

(* Nor does a request of his write anything but what he was let into, by   *)
(* whatever list it was checked (handlers_config.go, handlers_ipsec.go,    *)
(* handlers_projects.go).                                                  *)
THEOREM NothingChangedByOutsiders == Spec => []OutsidersChangeNothing
<1>1. AccessInv => OutsidersChangeNothing
  <2> SUFFICES ASSUME AccessInv, NEW h \in Handlers, requests[h] # Idle,
                      requests[h].step = "save"
               PROVE  LET q == requests[h] IN
                      /\ q.file \in Kinds \ {"command"} =>
                           HonestResource(q.file, q.by, q.seen, q.write, vouched)
                      /\ q.file = "project" => HonestProject(q.by, q.seen, q.write, vouched)
                      /\ q.file = "ipsec" => HonestIpsec(q.by, q.seen, q.write, vouched)
    BY DEF OutsidersChangeNothing, HonestResource, HonestProject, HonestIpsec, trusts, Trusted
  <2> QED
    BY DEF AccessInv, AccessRequest, Honest
<1> QED
  BY <1>1, AccessHolds, PTL

----------------------------------------------------------------------------
(* The readings of hosts.  A call under way has the entry of its host, or  *)
(* one that was evicted; who collects into an entry is alone with it, and  *)
(* begins a lifetime after its latest reading, so samples are that far     *)
(* apart.                                                                  *)

(* Samples are at least CacheTTL apart.                                    *)
Spaced(s) == \A i, j \in 1..Len(s) : i < j => s[i] + (j - i) * CacheTTL <= s[j]
Within(s) == \A i \in 1..Len(s) : s[Len(s)] <= s[i] + HistoryWindow

HistoryOK(e) ==
  LET s == history[e]
  IN  /\ s \in Seq(Nat) /\ sampled[e] \subseteq Nat
      /\ Spaced(s) /\ Within(s)
      /\ s = <<>> => sampled[e] = {}
      /\ \A i \in 1..Len(s) : s[i] \in sampled[e]
      /\ \A t \in sampled[e] : /\ latest[e] # Never /\ t <= latest[e] /\ t <= s[Len(s)]
                               /\ s[Len(s)] <= t + HistoryWindow => \E i \in 1..Len(s) : s[i] = t

GetOK(n) ==
  underWay(n) =>
    /\ gets[n].host \in Watched /\ gets[n].entry \in 1..made
    /\ entries[gets[n].host] = gets[n].entry \/ gets[n].entry \in dropped
    /\ gets[n].stage = "collecting" =>
         /\ gets[n].begun \in Nat /\ gets[n].begun <= now
         /\ latest[gets[n].entry] # Never => latest[gets[n].entry] + CacheTTL <= gets[n].begun

OneCollector == \A m, n \in Calls :
  gets[m].stage = "collecting" /\ gets[n].stage = "collecting" /\ gets[m].entry = gets[n].entry
    => m = n

MetricsTypes ==
  /\ entries \in [Watched -> 1..made \cup {NoEntry}]
  /\ latest \in [Calls -> Nat \cup {Never}]
  /\ history = [e \in Calls |-> history[e]] /\ sampled = [e \in Calls |-> sampled[e]]
  /\ gets \in [Calls -> [stage : {"none", "waiting", "collecting", "over"},
                         host : Watched \cup {NoEntry}, entry : Calls \cup {NoEntry},
                         begun : Nat \cup {Never}]]
  /\ made \in 0..MaxGets /\ now \in Nat

MetricsInv == /\ MetricsTypes /\ OneCollector
              /\ \A n \in Calls : GetOK(n) /\ HistoryOK(n)

LEMMA Scales == /\ CacheTTL \in Nat /\ CacheTTL >= 1 /\ HistoryMax \in Nat /\ HistoryMax >= 1
                /\ HistoryWindow \in Nat /\ HistoryWindow < HistoryMax * CacheTTL
                /\ MaxGets \in Nat /\ EntryIdleTTL \in Nat
  BY MetricsAssumption

LEMMA Multiples == ASSUME NEW a \in Nat, NEW b \in Nat, NEW c \in Nat, a >= b
                   PROVE  a * c >= b * c
<1>1. PICK d \in Nat : a = b + d
  <2>1. a - b \in Nat /\ a = b + (a - b)
    OBVIOUS
  <2> QED BY <2>1
<1>2. a * c = b * c + d * c /\ d * c \in Nat
  BY <1>1
<1> QED BY <1>2

LEMMA LeastOf ==
  ASSUME NEW T \in SUBSET Nat, T # {}
  PROVE  \E m \in T : \A k \in T : m <= k
<1> DEFINE R == {x \in Nat \X Nat : x[1] < x[2]}
<1>1. R = OpToRel(<, Nat)
  BY DEF OpToRel
<1>2. IsWellFoundedOn(R, Nat)
  BY <1>1, NatLessThanWellFounded
<1> HIDE DEF R
<1>3. PICK m \in T : \A y \in T : ~(<<y, m>> \in R)
  BY <1>2, WFMin
<1>4. ASSUME NEW y \in T PROVE m <= y
  <2>1. y < m => <<y, m>> \in R
    BY DEF R
  <2> QED BY <1>3, <2>1
<1> QED BY <1>4

(* Spaced samples within the window are no more than are kept.             *)
LEMMA WindowIsShort ==
  ASSUME NEW s \in Seq(Nat), Spaced(s), Within(s)
  PROVE  Len(s) <= HistoryMax
<1>0. Len(s) \in Nat
  OBVIOUS
<1>1. SUFFICES ASSUME Len(s) > HistoryMax PROVE FALSE
  BY <1>0, Scales
<1> DEFINE k == Len(s)
<1>2. k \in Nat /\ k >= 2 /\ 1 \in 1..k /\ k \in 1..k /\ s[1] \in Nat /\ s[k] \in Nat
  BY <1>0, <1>1, Scales
<1>3. s[1] + (k - 1) * CacheTTL <= s[k] /\ s[k] <= s[1] + HistoryWindow
  BY <1>2 DEF Spaced, Within
<1>4. k - 1 \in Nat /\ k - 1 >= HistoryMax
  BY <1>1, <1>2, Scales
<1>5. (k - 1) * CacheTTL >= HistoryMax * CacheTTL
  BY <1>4, Scales, Multiples
<1>6. (k - 1) * CacheTTL \in Nat /\ HistoryMax * CacheTTL \in Nat
  BY <1>4, Scales
<1> QED BY <1>2, <1>3, <1>5, <1>6, Scales

(* What appending a sample keeps.                                          *)
Appended(r, s, t) ==
  /\ r \in Seq(Nat) /\ Spaced(r) /\ Within(r) /\ r # <<>> /\ r[Len(r)] = t
  /\ \A i \in 1..Len(r) : r[i] = t \/ \E j \in 1..Len(s) : r[i] = s[j]
  /\ \A j \in 1..Len(s) : t <= s[j] + HistoryWindow => \E i \in 1..Len(r) : r[i] = s[j]

Follows(s, t) == s # <<>> => s[Len(s)] + CacheTTL <= t

LEMMA SampleAppended ==
  ASSUME NEW s \in Seq(Nat), NEW t \in Nat, Spaced(s), Follows(s, t)
  PROVE  Appended(appendSample(s, t), s, t)
<1> DEFINE all == Append(s, t)
           k == Len(s) + 1
           ok(i) == t <= all[i] + HistoryWindow /\ \A j \in 1..(i - 1) : all[j] + HistoryWindow < t
<1>1. /\ all \in Seq(Nat) /\ Len(all) = k /\ k \in Nat /\ k >= 1 /\ all[k] = t
      /\ \A j \in 1..Len(s) : all[j] = s[j]
  OBVIOUS
<1>0. Len(s) \in Nat /\ k = Len(s) + 1
  OBVIOUS
<1>2. Spaced(all)
  <2>1. SUFFICES ASSUME NEW i \in 1..k, NEW j \in 1..k, i < j
                 PROVE  all[i] + (j - i) * CacheTTL <= all[j]
    BY <1>1 DEF Spaced
  <2>2. CASE j < k
    BY <1>1, <2>1, <2>2 DEF Spaced
  <2>3. CASE j = k
    <3> DEFINE l == Len(s)
    <3>1. l \in Nat /\ l >= 1 /\ i \in 1..l /\ s[i] \in Nat /\ s[l] \in Nat /\ l = j - 1
      BY <1>1, <2>1, <2>3
    <3>2. s[i] + (l - i) * CacheTTL <= s[l]
      <4>1. CASE i = l
        <5>1. (l - i) * CacheTTL = 0
          BY <3>1, <4>1, Scales
        <5> QED BY <3>1, <4>1, <5>1
      <4>2. CASE i < l
        BY <3>1, <4>2 DEF Spaced
      <4> QED BY <3>1, <4>1, <4>2
    <3>3. (j - i) * CacheTTL = (l - i) * CacheTTL + CacheTTL
      BY <3>1, Scales
    <3>4. s[l] + CacheTTL <= t
      BY <3>1 DEF Follows
    <3>5. (l - i) * CacheTTL \in Nat
      BY <3>1, Scales
    <3> QED BY <1>1, <2>3, <3>1, <3>2, <3>3, <3>4, <3>5, Scales
  <2> QED BY <1>1, <2>1, <2>2, <2>3
<1> HIDE DEF all, k
<1>3. \E i \in 1..k : ok(i)
  <2> DEFINE T == {i \in 1..k : t <= all[i] + HistoryWindow}
  <2>1. T \in SUBSET Nat /\ k \in T
    BY <1>1, Scales
  <2>2. PICK m \in T : \A i \in T : m <= i
    BY <2>1, LeastOf
  <2>3. ASSUME NEW j \in 1..(m - 1) PROVE all[j] + HistoryWindow < t
    <3>1. j \in 1..k /\ m \in Nat /\ ~(m <= j)
      BY <1>1, <2>2, <2>3
    <3>2. j \notin T
      BY <2>2, <3>1
    <3>3. all[j] \in Nat
      BY <1>1, <3>1
    <3> QED BY <3>1, <3>2, <3>3, Scales
  <2>4. ok(m)
    BY <2>2, <2>3
  <2> QED BY <2>2, <2>4
<1> DEFINE first == CHOOSE i \in 1..k : ok(i)
           w == SubSeq(all, first, k)
<1>4. first \in 1..k /\ ok(first)
  BY <1>3
<1>5. appendSample(s, t) = withinMax(w)
  BY <1>1 DEF appendSample, all, k
<1>12. first \in Nat /\ first >= 1 /\ first <= k
  BY <1>1, <1>4
<1> HIDE DEF first
<1>6. /\ w \in Seq(Nat) /\ Len(w) = k - first + 1 /\ Len(w) >= 1
      /\ \A i \in 1..Len(w) : w[i] = all[first + i - 1] /\ first + i - 1 \in 1..k
  BY <1>1, <1>4, <1>12
<1> HIDE DEF w
<1>7. Spaced(w) /\ Within(w) /\ w[Len(w)] = t
  <2> DEFINE l == Len(w)
  <2>0. l \in 1..Len(w) /\ first + l - 1 = k
    BY <1>1, <1>12, <1>6
  <2>1. w[Len(w)] = t
    BY <1>1, <1>6, <2>0
  <2>2. Spaced(w)
    <3>1. SUFFICES ASSUME NEW i \in 1..Len(w), NEW j \in 1..Len(w), i < j
                   PROVE  w[i] + (j - i) * CacheTTL <= w[j]
      BY DEF Spaced
    <3> DEFINE a == first + i - 1
               b == first + j - 1
    <3>2. a \in 1..k /\ b \in 1..k /\ a < b /\ b - a = j - i /\ w[i] = all[a] /\ w[j] = all[b]
      BY <1>1, <1>12, <1>6, <3>1
    <3>3. all[a] + (b - a) * CacheTTL <= all[b]
      BY <1>1, <1>2, <3>2 DEF Spaced
    <3> QED BY <3>2, <3>3
  <2>3. Within(w)
    <3>1. SUFFICES ASSUME NEW i \in 1..Len(w) PROVE t <= w[i] + HistoryWindow
      BY <2>1 DEF Within
    <3> DEFINE a == first + i - 1
    <3>2. a \in 1..k /\ first <= a /\ w[i] = all[a]
      BY <1>1, <1>12, <1>6, <3>1
    <3>3. CASE a = first
      BY <1>4, <3>2, <3>3
    <3>4. CASE first < a
      <4>1. all[first] + (a - first) * CacheTTL <= all[a]
        BY <1>1, <1>2, <1>4, <3>2, <3>4 DEF Spaced
      <4>2. (a - first) * CacheTTL \in Nat
        BY <1>1, <1>12, <3>2, <3>4, Scales
      <4>3. all[first] \in Nat /\ all[a] \in Nat /\ t <= all[first] + HistoryWindow
        BY <1>1, <1>4, <1>12, <3>2
      <4> QED BY <3>2, <4>1, <4>2, <4>3, Scales
    <3> QED BY <1>1, <1>12, <3>2, <3>3, <3>4
  <2> QED BY <2>1, <2>2, <2>3
<1>8. appendSample(s, t) = w
  BY <1>5, <1>6, <1>7, WindowIsShort DEF withinMax
<1>9. \A i \in 1..Len(w) : w[i] = t \/ \E j \in 1..Len(s) : w[i] = s[j]
  <2>1. SUFFICES ASSUME NEW i \in 1..Len(w) PROVE w[i] = t \/ \E j \in 1..Len(s) : w[i] = s[j]
    OBVIOUS
  <2> DEFINE a == first + i - 1
  <2>2. a \in 1..k /\ w[i] = all[a]
    BY <1>6, <2>1
  <2>3. a = k \/ a \in 1..Len(s)
    BY <1>0, <2>2
  <2> QED BY <1>1, <2>2, <2>3
<1>10. ASSUME NEW j \in 1..Len(s), t <= s[j] + HistoryWindow
       PROVE  \E i \in 1..Len(w) : w[i] = s[j]
  <2>1. j \in 1..k /\ all[j] = s[j] /\ s[j] \in Nat
    BY <1>0, <1>1
  <2>2. first <= j
    <3>1. CASE j < first
      <4>1. j \in 1..(first - 1)
        BY <1>12, <2>1, <3>1
      <4>2. all[j] + HistoryWindow < t
        BY <1>4, <4>1
      <4> QED BY <1>10, <2>1, <4>2, Scales
    <3> QED BY <1>12, <2>1, <3>1
  <2> DEFINE i == j - first + 1
  <2>3. i \in 1..Len(w) /\ first + i - 1 = j
    BY <1>1, <1>12, <1>6, <2>1, <2>2
  <2> QED BY <1>6, <2>1, <2>3
<1>11. w # <<>>
  BY <1>6
<1>13. Appended(w, s, t)
  BY <1>6, <1>7, <1>9, <1>10, <1>11 DEF Appended
<1> QED BY <1>8, <1>13

LEMMA MetricsStart == MetricsInit => MetricsInv
<1>1. SUFFICES ASSUME MetricsInit PROVE MetricsInv
  OBVIOUS
<1>2. MetricsTypes
  BY <1>1, Scales DEF MetricsInit, MetricsTypes, noGet
<1>3. \A n \in Calls : gets[n].stage = "none"
  BY <1>1 DEF MetricsInit, noGet
<1>4. \A n \in Calls : HistoryOK(n)
  BY <1>1 DEF MetricsInit, HistoryOK, Spaced, Within
<1> QED BY <1>2, <1>3, <1>4 DEF MetricsInv, OneCollector, GetOK, underWay

(* What the samples of an entry are kept by: a step that changes neither   *)
(* them nor its latest reading.                                            *)
LEMMA HistoryKept ==
  ASSUME NEW e \in Calls, HistoryOK(e),
         latest'[e] = latest[e], history'[e] = history[e], sampled'[e] = sampled[e]
  PROVE  HistoryOK(e)'
BY DEF HistoryOK

LEMMA LookupKeeps ==
  ASSUME MetricsInv, NEW h \in Watched, Lookup(h)
  PROVE  MetricsInv'
<1> DEFINE old == {g \in Watched \ {h} : entries[g] # NoEntry /\ Stale(entries[g])}
           own == IF entries[h] = NoEntry THEN made' ELSE entries[h]
           call == [stage |-> "waiting", host |-> h, entry |-> own, begun |-> Never]
<1> HIDE DEF old, own, call
<1>1. /\ made < MaxGets /\ made' = made + 1 /\ made \in Nat
      /\ entries' = [g \in Watched |-> IF g = h THEN own
                                       ELSE IF g \in old THEN NoEntry ELSE entries[g]]
      /\ gets' = [gets EXCEPT ![made'] = call]
      /\ dropped' = dropped \cup ({entries[g] : g \in old} \cap
                                  {gets[n].entry : n \in {m \in Calls : underWay(m)}})
      /\ UNCHANGED <<latest, history, now, sampled>>
  BY Scales DEF Lookup, MetricsInv, MetricsTypes, old, own, call
<1>2. made' \in Calls /\ made' \in 0..MaxGets /\ 1..made \subseteq 1..made'
  BY <1>1, Scales DEF Calls
<1>3. own \in 1..made'
  BY <1>1, <1>2, Scales DEF MetricsInv, MetricsTypes, own
<1>4. gets' = [n \in Calls |-> IF n = made' THEN call ELSE gets[n]]
  BY <1>1 DEF MetricsInv, MetricsTypes
<1>5. MetricsTypes'
  <2>1. entries' \in [Watched -> 1..made' \cup {NoEntry}]
    BY <1>1, <1>2, <1>3 DEF MetricsInv, MetricsTypes
  <2>2. own \in Calls
    BY <1>2, <1>3, Scales DEF Calls
  <2>3. gets' \in [Calls -> [stage : {"none", "waiting", "collecting", "over"},
                            host : Watched \cup {NoEntry}, entry : Calls \cup {NoEntry},
                            begun : Nat \cup {Never}]]
    BY <1>4, <2>2 DEF MetricsInv, MetricsTypes, call
  <2> QED BY <1>1, <1>2, <2>1, <2>3 DEF MetricsInv, MetricsTypes
<1>6. OneCollector'
  BY <1>4 DEF MetricsInv, OneCollector, call
<1>7. ASSUME NEW n \in Calls PROVE GetOK(n)'
  <2>1. CASE n = made'
    BY <1>1, <1>2, <1>3, <1>4, <2>1 DEF GetOK, underWay, call
  <2>2. CASE n # made'
    <3>1. gets'[n] = gets[n] /\ (underWay(n)' => underWay(n)) /\ GetOK(n)
      BY <1>4, <2>2 DEF MetricsInv, underWay
    <3>2. SUFFICES ASSUME underWay(n) PROVE GetOK(n)'
      BY <3>1 DEF GetOK
    <3>3. /\ gets[n].host \in Watched /\ gets[n].entry \in 1..made
          /\ entries[gets[n].host] = gets[n].entry \/ gets[n].entry \in dropped
      BY <3>1, <3>2 DEF GetOK
    <3>4. gets[n].entry # NoEntry
      BY <1>1, <3>3, MetricsAssumption, Scales
    <3>5. entries'[gets[n].host] = gets[n].entry \/ gets[n].entry \in dropped'
      <4>1. CASE gets[n].entry \in dropped
        BY <1>1, <4>1
      <4>2. CASE entries[gets[n].host] = gets[n].entry /\ gets[n].host = h
        BY <1>1, <3>4, <4>2 DEF own
      <4>3. CASE entries[gets[n].host] = gets[n].entry /\ gets[n].host \in old
        BY <1>1, <3>2, <4>3
      <4>4. CASE entries[gets[n].host] = gets[n].entry /\ gets[n].host # h /\ gets[n].host \notin old
        BY <1>1, <3>3, <4>4
      <4> QED BY <3>3, <4>1, <4>2, <4>3, <4>4
    <3>6. gets[n].entry \in 1..made'
      BY <1>2, <3>3
    <3> QED BY <1>1, <3>1, <3>2, <3>3, <3>5, <3>6 DEF GetOK
  <2> QED BY <2>1, <2>2
<1>8. ASSUME NEW n \in Calls PROVE HistoryOK(n)'
  BY <1>1, HistoryKept DEF MetricsInv
<1> QED BY <1>5, <1>6, <1>7, <1>8 DEF MetricsInv

(* A call that only waits for a lock and takes it, or is done.             *)
LEMMA GetStep ==
  ASSUME MetricsInv, NEW n \in Calls, NEW q,
         q \in [stage : {"none", "waiting", "collecting", "over"},
                host : Watched \cup {NoEntry}, entry : Calls \cup {NoEntry},
                begun : Nat \cup {Never}],
         gets' = [gets EXCEPT ![n] = q],
         q.stage = "collecting" => free(gets[n].entry) /\ q.entry = gets[n].entry,
         GetOK(n)',
         UNCHANGED <<entries, latest, history, made, now, sampled, dropped>>
  PROVE  MetricsInv'
<1>1. gets' = [m \in Calls |-> IF m = n THEN q ELSE gets[m]]
  BY DEF MetricsInv, MetricsTypes
<1>2. MetricsTypes'
  <2>1. gets' \in [Calls -> [stage : {"none", "waiting", "collecting", "over"},
                            host : Watched \cup {NoEntry}, entry : Calls \cup {NoEntry},
                            begun : Nat \cup {Never}]]
    BY <1>1 DEF MetricsInv, MetricsTypes
  <2> QED BY <2>1 DEF MetricsInv, MetricsTypes
<1>3. OneCollector'
  <2>1. SUFFICES ASSUME NEW m \in Calls, NEW l \in Calls, m # l,
                        gets'[m].stage = "collecting", gets'[l].stage = "collecting",
                        gets'[m].entry = gets'[l].entry
                 PROVE  FALSE
    BY DEF OneCollector
  <2>2. CASE m # n /\ l # n
    BY <1>1, <2>1, <2>2 DEF MetricsInv, OneCollector
  <2>3. CASE m = n
    BY <1>1, <2>1, <2>3 DEF free
  <2>4. CASE l = n
    BY <1>1, <2>1, <2>4 DEF free
  <2> QED BY <2>2, <2>3, <2>4
<1>4. ASSUME NEW m \in Calls PROVE GetOK(m)'
  <2>1. CASE m # n
    <3>1. gets'[m] = gets[m] /\ GetOK(m)
      BY <1>1, <2>1 DEF MetricsInv
    <3> QED BY <3>1 DEF GetOK, underWay
  <2> QED BY <2>1
<1>5. ASSUME NEW m \in Calls PROVE HistoryOK(m)'
  BY HistoryKept DEF MetricsInv
<1> QED BY <1>2, <1>3, <1>4, <1>5 DEF MetricsInv

LEMMA CollectKeeps ==
  ASSUME MetricsInv, NEW n \in Calls, Collect(n)
  PROVE  MetricsInv'
<1> DEFINE q == [gets[n] EXCEPT !.stage = "collecting", !.begun = now]
<1> HIDE DEF q
<1>1. /\ gets[n].stage = "waiting" /\ free(gets[n].entry) /\ ~fresh(gets[n].entry)
      /\ gets' = [gets EXCEPT ![n] = q]
      /\ UNCHANGED <<entries, latest, history, made, now, sampled, dropped>>
  BY DEF Collect, q
<1>2. gets[n] \in [stage : {"none", "waiting", "collecting", "over"},
                  host : Watched \cup {NoEntry}, entry : Calls \cup {NoEntry},
                  begun : Nat \cup {Never}] /\ now \in Nat
  BY DEF MetricsInv, MetricsTypes
<1>3. /\ q \in [stage : {"none", "waiting", "collecting", "over"},
                host : Watched \cup {NoEntry}, entry : Calls \cup {NoEntry},
                begun : Nat \cup {Never}]
      /\ q.stage = "collecting" /\ q.begun = now
      /\ q.entry = gets[n].entry /\ q.host = gets[n].host
  BY <1>2 DEF q
<1>4. GetOK(n) /\ underWay(n)
  BY <1>1 DEF MetricsInv, underWay
<1>5. gets'[n] = q
  BY <1>1 DEF MetricsInv, MetricsTypes
<1>6. latest[q.entry] # Never => latest[q.entry] + CacheTTL <= now
  <2>1. gets[n].entry \in Calls
    BY <1>4, Scales DEF GetOK, Calls, MetricsInv, MetricsTypes
  <2>2. latest[gets[n].entry] \in Nat \cup {Never}
    BY <2>1 DEF MetricsInv, MetricsTypes
  <2> QED BY <1>1, <1>2, <1>3, <2>2, Scales DEF fresh
<1>7. GetOK(n)'
  BY <1>1, <1>2, <1>3, <1>4, <1>5, <1>6 DEF GetOK
<1> QED BY <1>1, <1>3, <1>7, GetStep

LEMMA CachedKeeps ==
  ASSUME MetricsInv, NEW n \in Calls, Cached(n)
  PROVE  MetricsInv'
<1>1. over \in [stage : {"none", "waiting", "collecting", "over"},
               host : Watched \cup {NoEntry}, entry : Calls \cup {NoEntry},
               begun : Nat \cup {Never}] /\ over.stage = "over"
  BY DEF over, noGet
<1>2. gets'[n] = over
  BY DEF Cached, MetricsInv, MetricsTypes
<1>3. GetOK(n)'
  BY <1>1, <1>2 DEF GetOK, underWay
<1> QED BY <1>1, <1>3, GetStep DEF Cached

LEMMA CollectedKeeps ==
  ASSUME MetricsInv, NEW n \in Calls, Collected(n)
  PROVE  MetricsInv'
<1>e. PICK e : e = gets[n].entry
  OBVIOUS
<1>t. PICK t : t = gets[n].begun
  OBVIOUS
<1>s. PICK s : s = history[e]
  OBVIOUS
<1>1. GetOK(n) /\ underWay(n) /\ gets[n].stage = "collecting"
  BY DEF MetricsInv, Collected, underWay
<1>2. /\ e \in Calls /\ t \in Nat /\ t <= now
      /\ latest[e] \in Nat \cup {Never} /\ (latest[e] # Never => latest[e] + CacheTTL <= t)
  BY <1>1, <1>e, <1>t, Scales DEF GetOK, Calls, MetricsInv, MetricsTypes
<1>3. HistoryOK(e)
  BY <1>2 DEF MetricsInv
<1>4. /\ latest' = [latest EXCEPT ![e] = t]
      /\ gets' = [gets EXCEPT ![n] = over]
      /\ UNCHANGED <<entries, made, now, dropped>>
      /\ \/ /\ history' = [history EXCEPT ![e] = appendSample(s, t)]
            /\ sampled' = [sampled EXCEPT ![e] = sampled[e] \cup {t}]
         \/ UNCHANGED <<history, sampled>>
  BY <1>e, <1>t, <1>s DEF Collected
<1>5. gets' = [m \in Calls |-> IF m = n THEN over ELSE gets[m]]
  BY <1>4 DEF MetricsInv, MetricsTypes
<1>6. latest' = [f \in Calls |-> IF f = e THEN t ELSE latest[f]]
  BY <1>4 DEF MetricsInv, MetricsTypes
<1>7. over.stage = "over" /\ over \in [stage : {"none", "waiting", "collecting", "over"},
               host : Watched \cup {NoEntry}, entry : Calls \cup {NoEntry},
               begun : Nat \cup {Never}]
  BY DEF over, noGet
<1>8. /\ history' = [f \in Calls |-> history'[f]] /\ sampled' = [f \in Calls |-> sampled'[f]]
      /\ \A f \in Calls \ {e} : history'[f] = history[f] /\ sampled'[f] = sampled[f]
      /\ \/ history'[e] = appendSample(s, t) /\ sampled'[e] = sampled[e] \cup {t}
         \/ history'[e] = s /\ sampled'[e] = sampled[e]
  <2>1. history = [f \in Calls |-> history[f]] /\ sampled = [f \in Calls |-> sampled[f]]
    BY DEF MetricsInv, MetricsTypes
  <2>2. CASE UNCHANGED <<history, sampled>>
    BY <1>2, <1>s, <2>1, <2>2
  <2>3. CASE /\ history' = [history EXCEPT ![e] = appendSample(s, t)]
             /\ sampled' = [sampled EXCEPT ![e] = sampled[e] \cup {t}]
    BY <1>2, <2>1, <2>3
  <2> QED BY <1>4, <2>2, <2>3
<1>9. MetricsTypes'
  <2>1. latest' \in [Calls -> Nat \cup {Never}]
    BY <1>2, <1>6 DEF MetricsInv, MetricsTypes
  <2>2. gets' \in [Calls -> [stage : {"none", "waiting", "collecting", "over"},
                            host : Watched \cup {NoEntry}, entry : Calls \cup {NoEntry},
                            begun : Nat \cup {Never}]]
    BY <1>5, <1>7 DEF MetricsInv, MetricsTypes
  <2> QED BY <1>4, <1>8, <2>1, <2>2 DEF MetricsInv, MetricsTypes
<1>10. OneCollector'
  BY <1>5, <1>7 DEF MetricsInv, OneCollector
<1>11. ASSUME NEW m \in Calls PROVE GetOK(m)'
  <2>1. CASE m = n
    BY <1>5, <1>7, <2>1 DEF GetOK, underWay
  <2>2. CASE m # n
    <3>1. gets'[m] = gets[m] /\ GetOK(m)
      BY <1>5, <2>2 DEF MetricsInv
    <3>2. gets[m].stage = "collecting" => gets[m].entry # e
      BY <1>1, <1>e, <2>2 DEF MetricsInv, OneCollector
    <3>3. underWay(m) => gets[m].entry \in Calls
      BY <3>1, Scales DEF GetOK, Calls, MetricsInv, MetricsTypes
    <3>4. gets[m].stage = "collecting" => latest'[gets[m].entry] = latest[gets[m].entry]
      BY <1>6, <3>2, <3>3 DEF underWay
    <3> QED BY <1>4, <3>1, <3>4 DEF GetOK, underWay
  <2> QED BY <2>1, <2>2
<1>12. s = history[e] /\ s \in Seq(Nat) /\ sampled[e] \subseteq Nat /\ latest'[e] = t
  BY <1>2, <1>3, <1>6, <1>s DEF HistoryOK
<1>13. \A u \in sampled[e] : u \in Nat /\ u <= t
  BY <1>2, <1>3, Scales DEF HistoryOK
<1>14. HistoryOK(e)'
  <2>1. CASE history'[e] = s /\ sampled'[e] = sampled[e]
    <3>1. /\ Spaced(s) /\ Within(s) /\ (s = <<>> => sampled[e] = {})
          /\ \A i \in 1..Len(s) : s[i] \in sampled[e]
          /\ \A u \in sampled[e] : /\ u <= s[Len(s)]
                                   /\ s[Len(s)] <= u + HistoryWindow
                                        => \E i \in 1..Len(s) : s[i] = u
      BY <1>3, <1>s DEF HistoryOK
    <3>2. latest'[e] # Never
      BY <1>2, <1>12, MetricsAssumption
    <3> QED BY <1>12, <1>13, <2>1, <3>1, <3>2 DEF HistoryOK
  <2>2. CASE history'[e] = appendSample(s, t) /\ sampled'[e] = sampled[e] \cup {t}
    <3>r. PICK r : r = history'[e]
      OBVIOUS
    <3>1. s # <<>> => s[Len(s)] \in sampled[e] /\ s[Len(s)] + CacheTTL <= t
      <4>1. SUFFICES ASSUME s # <<>> PROVE s[Len(s)] \in sampled[e] /\ s[Len(s)] + CacheTTL <= t
        OBVIOUS
      <4>2. Len(s) \in 1..Len(s)
        BY <1>12, <4>1
      <4>3. s[Len(s)] \in sampled[e] /\ latest[e] # Never /\ s[Len(s)] <= latest[e]
        BY <1>3, <1>12, <4>2 DEF HistoryOK
      <4> QED BY <1>2, <1>12, <4>3, Scales
    <3>2. Spaced(s)
      BY <1>3, <1>12 DEF HistoryOK
    <3>3. /\ r \in Seq(Nat) /\ Spaced(r) /\ Within(r) /\ r # <<>> /\ r[Len(r)] = t
          /\ \A i \in 1..Len(r) : r[i] = t \/ \E j \in 1..Len(s) : r[i] = s[j]
          /\ \A j \in 1..Len(s) : t <= s[j] + HistoryWindow => \E i \in 1..Len(r) : r[i] = s[j]
      <4>1. Follows(s, t)
        BY <3>1 DEF Follows
      <4>2. s \in Seq(Nat) /\ t \in Nat
        BY <1>2, <1>12
      <4>3. Appended(appendSample(s, t), s, t)
        BY <3>2, <4>1, <4>2, SampleAppended
      <4> QED BY <2>2, <3>r, <4>3 DEF Appended
    <3>4. \A i \in 1..Len(r) : r[i] \in sampled'[e]
      BY <1>3, <1>12, <2>2, <3>3 DEF HistoryOK
    <3>5. ASSUME NEW u \in sampled'[e], t <= u + HistoryWindow
          PROVE  \E i \in 1..Len(r) : r[i] = u
      <4>1. CASE u = t
        <5>1. Len(r) \in 1..Len(r)
          BY <3>3
        <5> QED BY <3>3, <4>1, <5>1
      <4>2. CASE u \in sampled[e]
        <5>1. s # <<>> /\ u \in Nat
          BY <1>3, <1>12, <4>2 DEF HistoryOK
        <5>2. s[Len(s)] \in Nat /\ s[Len(s)] <= t
          BY <1>12, <1>13, <3>1, <5>1
        <5>3. s[Len(s)] <= u + HistoryWindow
          BY <1>2, <3>5, <5>1, <5>2, Scales
        <5>4. \E j \in 1..Len(s) : s[j] = u
          BY <1>3, <1>12, <4>2, <5>3 DEF HistoryOK
        <5> QED BY <3>3, <3>5, <5>4
      <4> QED BY <2>2, <4>1, <4>2
    <3>6. sampled'[e] \subseteq Nat /\ \A u \in sampled'[e] : u <= t
      BY <1>2, <1>12, <1>13, <2>2
    <3>7. latest'[e] # Never
      BY <1>2, <1>12, MetricsAssumption
    <3> QED BY <1>12, <3>r, <3>3, <3>4, <3>5, <3>6, <3>7 DEF HistoryOK
  <2> QED BY <1>8, <2>1, <2>2
<1>15. ASSUME NEW f \in Calls PROVE HistoryOK(f)'
  <2>1. CASE f # e
    <3>1. latest'[f] = latest[f] /\ history'[f] = history[f] /\ sampled'[f] = sampled[f]
      BY <1>6, <1>8, <2>1
    <3>2. HistoryOK(f)
      BY DEF MetricsInv
    <3> QED BY <3>1, <3>2, HistoryKept
  <2> QED BY <1>14, <2>1
<1> QED BY <1>9, <1>10, <1>11, <1>15 DEF MetricsInv

LEMMA RestartKeeps ==
  ASSUME MetricsInv, RestartMetrics
  PROVE  MetricsInv'
<1>1. over.stage = "over" /\ over \in [stage : {"none", "waiting", "collecting", "over"},
               host : Watched \cup {NoEntry}, entry : Calls \cup {NoEntry},
               begun : Nat \cup {Never}]
  BY DEF over, noGet
<1>2. MetricsTypes'
  BY <1>1 DEF RestartMetrics, MetricsInv, MetricsTypes
<1>3. \A n \in Calls : ~underWay(n)'
  BY <1>1 DEF RestartMetrics, underWay
<1>4. OneCollector' /\ \A n \in Calls : GetOK(n)'
  BY <1>3 DEF OneCollector, GetOK, underWay
<1>5. \A n \in Calls : HistoryOK(n)'
  BY DEF RestartMetrics, HistoryOK, Spaced, Within
<1> QED BY <1>2, <1>4, <1>5 DEF MetricsInv

LEMMA MetricsStep == MetricsInv /\ [MetricsNext]_metricsVars => MetricsInv'
<1>1. SUFFICES ASSUME MetricsInv, [MetricsNext]_metricsVars PROVE MetricsInv'
  OBVIOUS
<1>2. CASE PassTime
  <2>1. /\ now \in Nat /\ now' = now + 1
        /\ UNCHANGED <<entries, latest, history, gets, made, sampled, dropped>>
    BY <1>1, <1>2 DEF PassTime, MetricsInv, MetricsTypes
  <2>2. MetricsTypes' /\ OneCollector'
    BY <1>1, <2>1 DEF MetricsInv, MetricsTypes, OneCollector
  <2>3. ASSUME NEW n \in Calls PROVE GetOK(n)' /\ HistoryOK(n)'
    <3>1. GetOK(n) /\ HistoryOK(n)
      BY <1>1 DEF MetricsInv
    <3> QED BY <2>1, <3>1 DEF GetOK, underWay, HistoryOK
  <2> QED BY <2>2, <2>3 DEF MetricsInv
<1>3. CASE UNCHANGED metricsVars
  BY <1>1, <1>3 DEF metricsVars, MetricsInv, MetricsTypes, OneCollector, GetOK, underWay, HistoryOK
<1> QED BY <1>1, <1>2, <1>3, LookupKeeps, CollectKeeps, CachedKeeps, CollectedKeeps, RestartKeeps
        DEF MetricsNext

LEMMA MetricsHolds == MetricsSpec => []MetricsInv
BY MetricsStart, MetricsStep, PTL DEF MetricsSpec

(* The lock of an entry is enough for a host to be collected from once at  *)
(* a time, as long as nobody's entry is evicted.                           *)
THEOREM OneConnectionPerHost == MetricsSpec => []OneConnection
<1>1. MetricsInv => OneConnection
  <2>1. SUFFICES ASSUME MetricsInv, NEW m \in Calls, NEW n \in Calls, m # n,
                        gets[m].stage = "collecting", gets[n].stage = "collecting",
                        gets[m].host = gets[n].host,
                        gets[m].entry \notin dropped, gets[n].entry \notin dropped
                 PROVE  FALSE
    BY DEF OneConnection
  <2>2. entries[gets[m].host] = gets[m].entry /\ entries[gets[n].host] = gets[n].entry
    BY <2>1 DEF MetricsInv, GetOK, underWay
  <2> QED BY <2>1, <2>2 DEF MetricsInv, OneCollector
<1> QED BY <1>1, MetricsHolds, PTL

(* Readings into an entry are begun one cache lifetime apart, so that the  *)
(* limit on a history never takes a sample the window would keep.          *)
THEOREM HistoriesAreWindows == MetricsSpec => []HistoryIsWindow
<1>1. ASSUME MetricsInv, NEW e \in Calls
      PROVE  LET s == history[e]
             IN  /\ \A i, j \in 1..Len(s) : i < j => s[i] < s[j]
                 /\ {s[i] : i \in 1..Len(s)}
                      = {t \in sampled[e] : \A u \in sampled[e] : u <= t + HistoryWindow}
  <2> DEFINE s == history[e]
  <2>1. /\ s \in Seq(Nat) /\ sampled[e] \subseteq Nat
        /\ Spaced(s) /\ Within(s)
        /\ s = <<>> => sampled[e] = {}
        /\ \A i \in 1..Len(s) : s[i] \in sampled[e]
        /\ \A t \in sampled[e] : /\ latest[e] # Never /\ t <= latest[e] /\ t <= s[Len(s)]
                                 /\ s[Len(s)] <= t + HistoryWindow
                                      => \E i \in 1..Len(s) : s[i] = t
    BY <1>1 DEF MetricsInv, HistoryOK
  <2> HIDE DEF s
  <2>2. ASSUME NEW i \in 1..Len(s), NEW j \in 1..Len(s), i < j PROVE s[i] < s[j]
    <3>1. Len(s) \in Nat /\ s[i] \in Nat /\ s[j] \in Nat
      BY <2>1
    <3>2. j - i \in Nat /\ j - i >= 1
      BY <2>2, <3>1
    <3>3. (j - i) * CacheTTL >= 1 * CacheTTL /\ (j - i) * CacheTTL \in Nat
      BY <3>2, Multiples, Scales
    <3>4. s[i] + (j - i) * CacheTTL <= s[j]
      BY <2>1, <2>2 DEF Spaced
    <3> QED BY <3>1, <3>3, <3>4, Scales
  <2>3. ASSUME NEW i \in 1..Len(s)
        PROVE  s[i] \in sampled[e] /\ \A u \in sampled[e] : u <= s[i] + HistoryWindow
    <3>1. Len(s) \in 1..Len(s)
      BY <2>1
    <3>2. s[i] \in Nat /\ s[Len(s)] \in Nat /\ s[Len(s)] <= s[i] + HistoryWindow
      BY <2>1, <3>1 DEF Within
    <3> QED BY <2>1, <3>2, Scales
  <2>4. ASSUME NEW t \in sampled[e], \A u \in sampled[e] : u <= t + HistoryWindow
        PROVE  \E i \in 1..Len(s) : s[i] = t
    <3>1. Len(s) \in 1..Len(s)
      BY <2>1
    <3>2. s[Len(s)] \in sampled[e]
      BY <2>1, <3>1
    <3> QED BY <2>1, <2>4, <3>2
  <2>5. {s[i] : i \in 1..Len(s)}
          = {t \in sampled[e] : \A u \in sampled[e] : u <= t + HistoryWindow}
    BY <2>3, <2>4
  <2> QED BY <2>2, <2>5 DEF s
<1>2. MetricsInv => HistoryIsWindow
  BY <1>1 DEF HistoryIsWindow
<1> QED BY <1>2, MetricsHolds, PTL
=============================================================================
