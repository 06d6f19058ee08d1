------------------------ MODULE MonitorMasterProofs ------------------------
(***************************************************************************)
(* Proofs about MonitorMaster, for any number of workers, checks, request  *)
(* handlers and failing saves.  The inductive invariant says what the file *)
(* holds relative to the memory, so that a restart can be argued about.    *)
(***************************************************************************)
EXTENDS MonitorMaster, TLAPS

(* The promises, of a given state and given last alerts.                   *)
Follows(t, s) == \A c \in CheckIds :
  (t[c] = "failed") <=> (s.status[c].known /\ ~s.status[c].ok)

Agrees(tw, s) == \A w \in WorkerIds :
  s.workers[w] # NoWorker => ((tw[w] = "silent") <=> s.workers[w].silent)

Accounted(s, tw, ids) == \A w \in WorkerIds :
  s.workers[w] # NoWorker \/ tw[w] # "none" => w \in ids

(* Without a failed save the file lags by the results of the loop alone.   *)
SavedInv ==
  ~unsaved => /\ disk.workers = mem.workers
              /\ disk.checks = mem.checks
              /\ unlocked => disk.status = mem.status

LoopInv ==
  ~unlocked /\ ~unsaved =>
    /\ ~lost => Follows(loop.told, disk)
    /\ \A c \in CheckIds : mem.status[c] # disk.status[c] => owned(c, loop.worker)

IssuedInv == Accounted(mem, toldW, issued) /\ Accounted(disk, toldW, issued)

AlertsInv == ~lost => Follows(told, mem) /\ Agrees(toldW, mem)

IInv ==
  /\ TypeOK
  /\ NoOrphans
  /\ SavedInv
  /\ LoopInv
  /\ IssuedInv
  /\ AlertsInv

LEMMA Nones == /\ NoWorker \notin Worker /\ NoCheck \notin CheckDef
               /\ NoCall \notin Call /\ NoLoop \notin Loop
               /\ MaxFailures \in Nat
  BY MonitorAssumption DEF MonitorAssumption

LEMMA UnknownStatus == Unknown \in CheckStatus /\ ~Unknown.known
  BY DEF Unknown, CheckStatus

----------------------------------------------------------------------------
LEMMA InitIInv == Init => IInv
<1> SUFFICES ASSUME Init PROVE IInv
  OBVIOUS
<1>1. Empty \in State
  BY UnknownStatus DEF Empty, State
<1>2. TypeOK
  <2>1. 0 \in 0..MaxFailures
    BY Nones
  <2>2. mem \in State /\ disk \in State
    BY <1>1 DEF Init
  <2>3. told \in [CheckIds -> Said] /\ toldW \in [WorkerIds -> SaidW]
    BY DEF Init, Said, SaidW
  <2> QED BY <2>1, <2>2, <2>3 DEF Init, TypeOK
<1>3. NoOrphans
  BY DEF Init, NoOrphans, NoOrphansIn, Empty
<1>4. Follows(told, mem) /\ Agrees(toldW, mem)
  BY DEF Init, Follows, Agrees, Empty, Unknown
<1>5. IssuedInv
  BY DEF Init, IssuedInv, Accounted, Empty
<1> QED BY <1>2, <1>3, <1>4, <1>5 DEF Init, IInv, SavedInv, LoopInv, AlertsInv, unlocked

(* An operation that ends by saving `s` and leaves the lock free keeps the *)
(* invariant when `s` and the alerts decided keep the promises.            *)
LEMMA CommitKeeps ==
  ASSUME IInv, NEW s \in State, Commit(s), loop' = NoLoop,
         late' \in [WorkerIds -> BOOLEAN],
         call' \in [Handlers -> Call \cup {NoCall}],
         issued \subseteq issued',
         issued' \subseteq WorkerIds \cup CheckIds \cup Tokens,
         told' \in [CheckIds -> Said], toldW' \in [WorkerIds -> SaidW],
         NoOrphansIn(s), Accounted(s, toldW', issued'),
         ~lost => Follows(told', s) /\ Agrees(toldW', s)
  PROVE  IInv'
<1> USE DEF IInv
<1>1. /\ mem' = s /\ lost' = lost
      /\ \/ disk' = s /\ unsaved' = FALSE /\ failures' = failures
         \/ disk' = disk /\ unsaved' = TRUE /\ failures' \in 0..MaxFailures
  BY Nones DEF Commit, TypeOK
<1>2. TypeOK'
  BY <1>1 DEF TypeOK
<1>3. NoOrphans'
  BY <1>1 DEF NoOrphans, NoOrphansIn
<1>4. SavedInv' /\ LoopInv'
  BY <1>1 DEF SavedInv, LoopInv, unlocked
<1>5. IssuedInv'
  BY <1>1 DEF IssuedInv, Accounted
<1>6. AlertsInv'
  BY <1>1 DEF AlertsInv, Follows, Agrees
<1> QED BY <1>2, <1>3, <1>4, <1>5, <1>6

----------------------------------------------------------------------------
(* The admin routes. *)

LEMMA CreateWorkerKeeps ==
  ASSUME IInv, NEW n \in Names, CreateWorker(n)
  PROVE  IInv'
<1> USE DEF IInv
<1>1. PICK w \in WorkerIds \ issued, t \in Tokens \ issued :
        /\ issued' = issued \cup {w, t}
        /\ Commit([mem EXCEPT !.workers[w] =
             [name |-> n, token |-> t, seen |-> FALSE, silent |-> FALSE]])
  BY DEF CreateWorker
<1> DEFINE new == [name |-> n, token |-> t, seen |-> FALSE, silent |-> FALSE]
           s == [mem EXCEPT !.workers[w] = new]
<1>2. new \in Worker /\ new # NoWorker /\ ~new.silent
  <2>1. new \in Worker
    BY DEF Worker
  <2> QED BY <2>1, Nones
<1>3. /\ s \in State /\ s.checks = mem.checks /\ s.status = mem.status
      /\ s.workers = [mem.workers EXCEPT ![w] = new]
  BY <1>2 DEF TypeOK, State
<1>4. toldW[w] = "none"
  BY <1>1 DEF IssuedInv, Accounted
<1>5. NoOrphansIn(s)
  BY <1>2, <1>3 DEF NoOrphans, NoOrphansIn, TypeOK, State
<1>6. Accounted(s, toldW, issued')
  BY <1>1, <1>3 DEF IssuedInv, Accounted, TypeOK, State
<1>7. ~lost => Follows(told, s) /\ Agrees(toldW, s)
  BY <1>2, <1>3, <1>4 DEF AlertsInv, Follows, Agrees, TypeOK, State
<1> HIDE DEF new, s
<1>8. Commit(s)
  BY <1>1 DEF s, new
<1> QED BY <1>1, <1>3, <1>5, <1>6, <1>7, <1>8, CommitKeeps DEF CreateWorker, TypeOK, unlocked

LEMMA RotateKeeps ==
  ASSUME IInv, NEW w \in WorkerIds, RotateWorkerToken(w)
  PROVE  IInv'
<1> USE DEF IInv
<1>1. PICK t \in Tokens \ issued :
        issued' = issued \cup {t} /\ Commit([mem EXCEPT !.workers[w].token = t])
  BY DEF RotateWorkerToken
<1> DEFINE new == [mem.workers[w] EXCEPT !.token = t]
           s == [mem EXCEPT !.workers[w].token = t]
<1>2. new \in Worker /\ new # NoWorker /\ new.silent = mem.workers[w].silent
  BY Nones DEF Worker, TypeOK, State, RotateWorkerToken, present
<1>3. /\ s \in State /\ s.checks = mem.checks /\ s.status = mem.status
      /\ s.workers = [mem.workers EXCEPT ![w] = new]
  BY <1>2 DEF TypeOK, State
<1>5. NoOrphansIn(s)
  BY <1>2, <1>3 DEF NoOrphans, NoOrphansIn, TypeOK, State
<1>6. Accounted(s, toldW, issued')
  BY <1>1, <1>3 DEF IssuedInv, Accounted, TypeOK, State, RotateWorkerToken, present
<1>7. ~lost => Follows(told, s) /\ Agrees(toldW, s)
  BY <1>2, <1>3 DEF AlertsInv, Follows, Agrees, TypeOK, State, RotateWorkerToken, present
<1> HIDE DEF new, s
<1>8. Commit(s)
  BY <1>1 DEF s
<1> QED BY <1>1, <1>3, <1>5, <1>6, <1>7, <1>8, CommitKeeps DEF RotateWorkerToken, TypeOK, unlocked

LEMMA DeleteWorkerKeeps ==
  ASSUME IInv, NEW w \in WorkerIds, DeleteWorker(w)
  PROVE  IInv'
<1> USE DEF IInv
<1> DEFINE s == without(w)
<1>3. /\ s \in State
      /\ s.workers = [mem.workers EXCEPT ![w] = NoWorker]
      /\ s.checks = [c \in CheckIds |-> IF owned(c, w) THEN NoCheck ELSE mem.checks[c]]
      /\ s.status = [c \in CheckIds |-> IF owned(c, w) THEN Unknown ELSE mem.status[c]]
  BY UnknownStatus DEF without, TypeOK, State
<1>4. /\ told' = [c \in CheckIds |-> IF owned(c, w) THEN "none" ELSE told[c]]
      /\ told' \in [CheckIds -> Said]
  BY DEF DeleteWorker, TypeOK, Said
<1> HIDE DEF s
<1>5. NoOrphansIn(s)
  <2> SUFFICES ASSUME NEW c \in CheckIds
               PROVE  IF s.checks[c] = NoCheck THEN s.status[c] = Unknown
                      ELSE s.workers[s.checks[c].worker] # NoWorker
    BY DEF NoOrphansIn
  <2>1. CASE owned(c, w)
    BY <2>1, <1>3
  <2>2. CASE ~owned(c, w)
    <3>1. s.checks[c] = mem.checks[c] /\ s.status[c] = mem.status[c]
      BY <2>2, <1>3
    <3>2. CASE mem.checks[c] = NoCheck
      BY <3>1, <3>2 DEF NoOrphans, NoOrphansIn
    <3>3. CASE mem.checks[c] # NoCheck
      <4>1. mem.checks[c].worker \in WorkerIds /\ mem.checks[c].worker # w
        BY <2>2, <3>3 DEF owned, defined, TypeOK, State, CheckDef
      <4> QED BY <3>1, <3>3, <4>1, <1>3 DEF NoOrphans, NoOrphansIn, TypeOK, State
    <3> QED BY <3>2, <3>3
  <2> QED BY <2>1, <2>2
<1>6. Accounted(s, toldW, issued)
  BY <1>3 DEF IssuedInv, Accounted, TypeOK, State
<1>7. ~lost => Follows(told', s) /\ Agrees(toldW, s)
  BY <1>3, <1>4, UnknownStatus DEF AlertsInv, Follows, Agrees, TypeOK, State
<1>8. Commit(s)
  BY DEF DeleteWorker, s
<1> QED BY <1>3, <1>4, <1>5, <1>6, <1>7, <1>8, CommitKeeps DEF DeleteWorker, TypeOK, unlocked

LEMMA CreateCheckKeeps ==
  ASSUME IInv, NEW def \in CheckDef, CreateCheck(def)
  PROVE  IInv'
<1> USE DEF IInv
<1>1. PICK c \in CheckIds \ issued :
        issued' = issued \cup {c} /\ Commit([mem EXCEPT !.checks[c] = def])
  BY DEF CreateCheck
<1> DEFINE s == [mem EXCEPT !.checks[c] = def]
<1>3. /\ s \in State /\ s.workers = mem.workers /\ s.status = mem.status
      /\ s.checks = [mem.checks EXCEPT ![c] = def]
  BY DEF TypeOK, State
<1> HIDE DEF s
<1>5. NoOrphansIn(s)
  BY <1>3, Nones DEF NoOrphans, NoOrphansIn, TypeOK, State, CreateCheck, present
<1>6. Accounted(s, toldW, issued')
  BY <1>1, <1>3 DEF IssuedInv, Accounted
<1>7. ~lost => Follows(told, s) /\ Agrees(toldW, s)
  BY <1>3 DEF AlertsInv, Follows, Agrees
<1>8. Commit(s)
  BY <1>1 DEF s
<1> QED BY <1>1, <1>3, <1>5, <1>6, <1>7, <1>8, CommitKeeps DEF CreateCheck, TypeOK, unlocked

LEMMA UpdateCheckKeeps ==
  ASSUME IInv, NEW c \in CheckIds, NEW def \in CheckDef, UpdateCheck(c, def)
  PROVE  IInv'
<1> USE DEF IInv
<1> DEFINE again == another(mem.checks[c], def)
           st == IF again THEN Unknown ELSE mem.status[c]
           s == [mem EXCEPT !.checks[c] = def, !.status[c] = st]
<1>1. Commit(s)
  BY DEF UpdateCheck, resets, TypeOK, State
<1>2. st \in CheckStatus
  BY UnknownStatus DEF TypeOK, State
<1>3. /\ s \in State /\ s.workers = mem.workers
      /\ s.status = [mem.status EXCEPT ![c] = st]
      /\ s.checks = [mem.checks EXCEPT ![c] = def]
  BY <1>2 DEF TypeOK, State
<1>4. /\ told' = [told EXCEPT ![c] = IF again THEN "none" ELSE told[c]]
      /\ told' \in [CheckIds -> Said]
  BY DEF UpdateCheck, TypeOK, Said
<1> HIDE DEF s
<1>5. NoOrphansIn(s)
  BY <1>3, Nones DEF NoOrphans, NoOrphansIn, TypeOK, State, UpdateCheck, present
<1>6. Accounted(s, toldW, issued)
  BY <1>3 DEF IssuedInv, Accounted
<1>7. ~lost => Follows(told', s) /\ Agrees(toldW, s)
  BY <1>3, <1>4, UnknownStatus DEF AlertsInv, Follows, Agrees, TypeOK, State
<1> QED BY <1>1, <1>3, <1>4, <1>5, <1>6, <1>7, CommitKeeps DEF UpdateCheck, TypeOK, unlocked

LEMMA DeleteCheckKeeps ==
  ASSUME IInv, NEW c \in CheckIds, DeleteCheck(c)
  PROVE  IInv'
<1> USE DEF IInv
<1> DEFINE s == [mem EXCEPT !.checks[c] = NoCheck, !.status[c] = Unknown]
<1>1. Commit(s)
  BY DEF DeleteCheck
<1>3. /\ s \in State /\ s.workers = mem.workers
      /\ s.status = [mem.status EXCEPT ![c] = Unknown]
      /\ s.checks = [mem.checks EXCEPT ![c] = NoCheck]
  BY UnknownStatus DEF TypeOK, State
<1>4. /\ told' = [told EXCEPT ![c] = "none"]
      /\ told' \in [CheckIds -> Said]
  BY DEF DeleteCheck, TypeOK, Said
<1> HIDE DEF s
<1>5. NoOrphansIn(s)
  BY <1>3 DEF NoOrphans, NoOrphansIn, TypeOK, State
<1>6. Accounted(s, toldW, issued)
  BY <1>3 DEF IssuedInv, Accounted
<1>7. ~lost => Follows(told', s) /\ Agrees(toldW, s)
  BY <1>3, <1>4, UnknownStatus DEF AlertsInv, Follows, Agrees, TypeOK, State
<1> QED BY <1>1, <1>3, <1>4, <1>5, <1>6, <1>7, CommitKeeps DEF DeleteCheck, TypeOK, unlocked

----------------------------------------------------------------------------
(* The worker routes. *)

(* Steps that touch only the requests served. *)
LEMMA CallsKeep ==
  ASSUME IInv, UNCHANGED <<mem, saving, late, loop, issued, told, toldW>>,
         call' \in [Handlers -> Call \cup {NoCall}]
  PROVE  IInv'
  BY DEF IInv, TypeOK, NoOrphans, NoOrphansIn, SavedInv, LoopInv, IssuedInv, Accounted,
         AlertsInv, Follows, Agrees, unlocked, owned, defined, saving

LEMMA AuthenticateKeeps ==
  ASSUME IInv, NEW h \in Handlers, NEW t \in Tokens, NEW fetch \in BOOLEAN,
         NEW batch \in Seq(Result), Authenticate(h, t, fetch, batch)
  PROVE  IInv'
<1>1. PICK w \in WorkerIds : call' = [call EXCEPT ![h] =
        [worker |-> w, step |-> "touch", fetch |-> fetch, results |-> batch]]
  BY DEF Authenticate
<1>2. [worker |-> w, step |-> "touch", fetch |-> fetch, results |-> batch] \in Call
  BY DEF Call
<1>3. call' \in [Handlers -> Call \cup {NoCall}]
  BY <1>1, <1>2 DEF IInv, TypeOK
<1> QED BY <1>3, CallsKeep DEF Authenticate

LEMMA AnswerKeeps ==
  ASSUME IInv, NEW h \in Handlers, Answer(h)
  PROVE  IInv'
<1>1. call' \in [Handlers -> Call \cup {NoCall}]
  BY DEF Answer, IInv, TypeOK
<1> QED BY <1>1, CallsKeep DEF Answer

LEMMA TouchKeeps ==
  ASSUME IInv, NEW h \in Handlers, TouchWorker(h)
  PROVE  IInv'
<1> USE DEF IInv
<1>1. call' \in [Handlers -> Call \cup {NoCall}]
  <2>1. call[h] \in Call /\ call' = [call EXCEPT ![h].step = "handle"]
    BY DEF TouchWorker, TypeOK
  <2>2. [call[h] EXCEPT !.step = "handle"] \in Call
    BY <2>1 DEF Call
  <2> QED BY <2>1, <2>2 DEF TypeOK
<1> DEFINE w == call[h].worker
<1>2. w \in WorkerIds
  BY DEF TouchWorker, TypeOK, Call
<1>3. CASE ~present(w)
  BY <1>1, <1>3, CallsKeep DEF TouchWorker
<1>4. CASE present(w)
  <2> DEFINE new == [mem.workers[w] EXCEPT !.seen = TRUE, !.silent = FALSE]
             s == touched(w)
  <2>2. new \in Worker /\ ~new.silent
    BY <1>2, <1>4 DEF Worker, TypeOK, State, present
  <2>3. /\ s \in State /\ s.checks = mem.checks /\ s.status = mem.status
        /\ s.workers = [mem.workers EXCEPT ![w] = new]
    BY <1>2, <2>2 DEF TypeOK, State, touched
  <2>4. /\ toldW' = [toldW EXCEPT ![w] = IF mem.workers[w].silent THEN "back" ELSE toldW[w]]
        /\ toldW' \in [WorkerIds -> SaidW]
        /\ late' \in [WorkerIds -> BOOLEAN]
        /\ Commit(s)
    BY <1>2, <1>4 DEF TouchWorker, TypeOK, SaidW
  <2> HIDE DEF new, s
  <2>5. new # NoWorker
    BY <2>2, Nones
  <2>6. NoOrphansIn(s)
    BY <2>3, <2>5, <1>2 DEF NoOrphans, NoOrphansIn, TypeOK, State
  <2>7. Accounted(s, toldW', issued)
    BY <2>3, <2>4, <1>2, <1>4 DEF IssuedInv, Accounted, TypeOK, State, present
  <2>8. ~lost => Follows(told, s) /\ Agrees(toldW', s)
    BY <2>2, <2>3, <2>4, <1>2, <1>4 DEF AlertsInv, Follows, Agrees, TypeOK, State, present
  <2> QED BY <1>1, <2>3, <2>4, <2>6, <2>7, <2>8, CommitKeeps DEF TouchWorker, TypeOK, unlocked
<1> QED BY <1>3, <1>4

(* The loop starts with the file up to date, unless a save had failed. *)
LEMMA RecordResultsKeeps ==
  ASSUME IInv, NEW h \in Handlers, RecordResults(h)
  PROVE  IInv'
<1> USE DEF IInv
<1>1. loop' \in Loop /\ loop'.told = told
  BY DEF RecordResults, TypeOK, Call, Loop
<1>2. UNCHANGED <<mem, saving, late, call, issued, told, toldW>> /\ unlocked
  BY DEF RecordResults
<1>3. TypeOK'
  BY <1>1, <1>2 DEF TypeOK, saving
<1>4. SavedInv'
  BY <1>2 DEF SavedInv, unlocked, saving
<1>5. LoopInv'
  BY <1>1, <1>2 DEF LoopInv, SavedInv, AlertsInv, Follows, unlocked, saving
<1>6. NoOrphans' /\ IssuedInv' /\ AlertsInv'
  BY <1>2 DEF NoOrphans, NoOrphansIn, IssuedInv, Accounted, AlertsInv, Follows, Agrees, saving
<1> QED BY <1>3, <1>4, <1>5, <1>6

(* One iteration: the file is left alone, and of the memory only the       *)
(* result of a check the reporting worker owns.                            *)
LEMMA RecordOneKeeps ==
  ASSUME IInv, RecordOne
  PROVE  IInv'
<1> USE DEF IInv
<1> DEFINE r == Head(loop.rest)
           c == r.check
           event == Transition(mem.status[c], r.ok)
           new == [known |-> TRUE, ok |-> r.ok, lastRun |-> r.ranAt]
<1>1. loop \in Loop /\ r \in Result /\ Tail(loop.rest) \in Seq(Result)
  <2>1. loop \in Loop /\ loop.rest # <<>>
    BY DEF RecordOne, TypeOK
  <2>2. loop.rest \in Seq(Result)
    BY <2>1 DEF Loop
  <2> HIDE DEF r
  <2>3. \A q \in Seq(Result) : q # <<>> => Head(q) \in Result /\ Tail(q) \in Seq(Result)
    OBVIOUS
  <2> QED BY <2>1, <2>2, <2>3 DEF r
<1>0. ~unlocked
  BY DEF RecordOne, unlocked
<1>2. /\ loop' \in Loop /\ loop'.told = loop.told /\ loop'.worker = loop.worker
      /\ loop' # NoLoop
      /\ UNCHANGED <<saving, late, call, issued, toldW>>
  BY <1>1, Nones DEF RecordOne, Loop
<1>3. CASE ~reportable(c, loop.worker)
  <2>1. UNCHANGED <<mem, told>>
    BY <1>3 DEF RecordOne
  <2>2. TypeOK'
    BY <1>2, <2>1 DEF TypeOK, saving
  <2>3. SavedInv'
    BY <1>2, <2>1 DEF SavedInv, unlocked, saving
  <2>4. LoopInv'
    BY <1>0, <1>2, <2>1 DEF LoopInv, Follows, unlocked, owned, defined, saving
  <2>5. NoOrphans' /\ IssuedInv' /\ AlertsInv'
    BY <1>2, <2>1 DEF NoOrphans, NoOrphansIn, IssuedInv, Accounted, AlertsInv, Follows,
       Agrees, saving
  <2> QED BY <2>2, <2>3, <2>4, <2>5
<1>4. CASE reportable(c, loop.worker)
  <2>1. c \in CheckIds /\ owned(c, loop.worker) /\ r.ok \in BOOLEAN
        /\ new \in CheckStatus /\ new.known /\ new.ok = r.ok
    BY <1>1, <1>4 DEF reportable, Result, CheckStatus
  <2>2. /\ mem' = [mem EXCEPT !.status[c] = new]
        /\ told' = [told EXCEPT ![c] = IF event = "" THEN told[c] ELSE event]
    BY <1>4, <2>1 DEF RecordOne, TypeOK
  <2>3. /\ mem' \in State /\ mem'.workers = mem.workers /\ mem'.checks = mem.checks
        /\ mem'.status = [mem.status EXCEPT ![c] = new]
    BY <2>1, <2>2 DEF TypeOK, State
  <2>4. mem.status[c] \in CheckStatus /\ event \in {"", "failed", "recovered"}
    BY <2>1 DEF TypeOK, State, Transition
  <2>5. told' \in [CheckIds -> Said]
    BY <2>2, <2>4 DEF TypeOK, Said
  <2> HIDE DEF new
  <2>6. TypeOK'
    BY <1>2, <2>3, <2>5 DEF TypeOK, saving
  <2>7. NoOrphans'
    BY <1>2, <2>1, <2>3 DEF NoOrphans, NoOrphansIn, TypeOK, State, owned, defined, saving
  <2>8. SavedInv'
    BY <1>2, <2>3 DEF SavedInv, unlocked, saving
  <2>9. LoopInv'
    <3>1. ASSUME ~unsaved, ~lost PROVE Follows(loop'.told, disk')
      BY <1>0, <1>2, <3>1 DEF LoopInv, Follows, saving
    <3>2. ASSUME ~unsaved, NEW d \in CheckIds, mem'.status[d] # disk'.status[d]
          PROVE  owned(d, loop.worker)
      <4>1. CASE d = c
        BY <2>1, <4>1
      <4>2. CASE d # c
        <5>1. mem'.status[d] = mem.status[d] /\ disk' = disk
          BY <1>2, <2>3, <4>2 DEF saving, TypeOK, State
        <5> QED BY <1>0, <3>2, <5>1 DEF LoopInv
      <4> QED BY <4>1, <4>2
    <3> QED BY <1>2, <2>3, <3>1, <3>2 DEF LoopInv, owned, defined, saving
  <2>10. IssuedInv'
    BY <1>2, <2>3 DEF IssuedInv, Accounted, saving
  <2>11. ASSUME ~lost PROVE (told'[c] = "failed") <=> ~r.ok
    <3>1. (told[c] = "failed") <=> (mem.status[c].known /\ ~mem.status[c].ok)
      BY <2>1, <2>11 DEF AlertsInv, Follows
    <3>2. /\ ~r.ok => event = "failed" \/ (event = "" /\ told[c] = "failed")
          /\ r.ok => event = "recovered" \/ (event = "" /\ told[c] # "failed")
      BY <2>1, <2>4, <3>1 DEF Transition, CheckStatus
    <3>3. told'[c] = IF event = "" THEN told[c] ELSE event
      BY <2>1, <2>2 DEF TypeOK
    <3> QED BY <2>4, <3>2, <3>3
  <2>12. AlertsInv'
    <3> SUFFICES ASSUME ~lost, NEW d \in CheckIds
                 PROVE  (told'[d] = "failed") <=> (mem'.status[d].known /\ ~mem'.status[d].ok)
      BY <1>2, <2>3 DEF AlertsInv, Follows, Agrees, saving
    <3>1. CASE d = c
      BY <2>1, <2>3, <2>11, <3>1 DEF TypeOK, State
    <3>2. CASE d # c
      BY <2>2, <2>3, <3>2 DEF AlertsInv, Follows, TypeOK, State
    <3> QED BY <3>1, <3>2
  <2> QED BY <2>6, <2>7, <2>8, <2>9, <2>10, <2>12
<1> QED BY <1>3, <1>4

LEMMA RecordedKeeps ==
  ASSUME IInv, Recorded
  PROVE  IInv'
<1> USE DEF IInv
<1>1. call' \in [Handlers -> Call \cup {NoCall}]
  BY DEF Recorded, TypeOK, Loop
<1>2. mem \in State /\ NoOrphansIn(mem) /\ Accounted(mem, toldW, issued)
  BY DEF TypeOK, NoOrphans, IssuedInv
<1> QED BY <1>1, <1>2, CommitKeeps DEF Recorded, TypeOK, AlertsInv

----------------------------------------------------------------------------
(* Time, the sweep and restarts. *)

LEMMA FallBehindKeeps ==
  ASSUME IInv, NEW w \in WorkerIds, FallBehind(w)
  PROVE  IInv'
  BY DEF FallBehind, IInv, TypeOK, NoOrphans, NoOrphansIn, SavedInv, LoopInv, IssuedInv,
         Accounted, AlertsInv, Follows, Agrees, unlocked, owned, defined, saving

LEMMA SweepKeeps ==
  ASSUME IInv, MarkSilentWorkers
  PROVE  IInv'
<1> USE DEF IInv
<1> DEFINE new == [w \in WorkerIds |->
                    IF w \in silenced THEN [mem.workers[w] EXCEPT !.silent = TRUE]
                                      ELSE mem.workers[w]]
           s == [mem EXCEPT !.workers = new]
<1>1. \A w \in WorkerIds :
        /\ new[w] \in Worker \cup {NoWorker}
        /\ new[w] = NoWorker <=> mem.workers[w] = NoWorker
        /\ w \in silenced => new[w].silent
        /\ w \notin silenced => new[w] = mem.workers[w]
  <2> SUFFICES ASSUME NEW w \in WorkerIds
               PROVE  /\ new[w] \in Worker \cup {NoWorker}
                      /\ new[w] = NoWorker <=> mem.workers[w] = NoWorker
                      /\ w \in silenced => new[w].silent
                      /\ w \notin silenced => new[w] = mem.workers[w]
    OBVIOUS
  <2>1. CASE w \in silenced
    <3>1. mem.workers[w] \in Worker
      BY <2>1 DEF silenced, present, TypeOK, State
    <3>2. new[w] \in Worker /\ new[w].silent
      BY <2>1, <3>1 DEF Worker
    <3> QED BY <2>1, <3>1, <3>2, Nones
  <2>2. CASE w \notin silenced
    BY <2>2 DEF TypeOK, State
  <2> QED BY <2>1, <2>2
<1>2. /\ s \in State /\ s.workers = new
      /\ s.checks = mem.checks /\ s.status = mem.status
  BY <1>1 DEF TypeOK, State
<1>3. /\ toldW' = [w \in WorkerIds |-> IF w \in silenced THEN "silent" ELSE toldW[w]]
      /\ toldW' \in [WorkerIds -> SaidW]
  BY DEF MarkSilentWorkers, TypeOK, SaidW
<1>4. Commit(s)
  BY DEF MarkSilentWorkers
<1> HIDE DEF new, s
<1>5. NoOrphansIn(s)
  <2>1. \A c \in CheckIds : mem.checks[c] # NoCheck => mem.checks[c].worker \in WorkerIds
    BY DEF TypeOK, State, CheckDef
  <2> QED BY <1>1, <1>2, <2>1 DEF NoOrphans, NoOrphansIn
<1>6. Accounted(s, toldW', issued)
  BY <1>1, <1>2, <1>3 DEF IssuedInv, Accounted, silenced, present
<1>7. ~lost => Follows(told, s) /\ Agrees(toldW', s)
  BY <1>1, <1>2, <1>3 DEF AlertsInv, Follows, Agrees
<1> QED BY <1>2, <1>3, <1>4, <1>5, <1>6, <1>7, CommitKeeps
        DEF MarkSilentWorkers, TypeOK, unlocked

(* What the file holds is what the memory held before the loop, unless a   *)
(* save had failed: then `lost` remembers it.                              *)
LEMMA RestartKeeps ==
  ASSUME IInv, Restart
  PROVE  IInv'
<1> USE DEF IInv
<1>1. /\ mem' = disk /\ disk' = disk /\ loop' = NoLoop /\ unsaved' = FALSE
      /\ lost' = (lost \/ unsaved)
      /\ told' = IF unlocked THEN told ELSE loop.told
      /\ UNCHANGED <<late, issued, toldW, failures>>
  BY DEF Restart
<1>2. TypeOK'
  <2>1. told' \in [CheckIds -> Said]
    BY <1>1 DEF TypeOK, Loop, unlocked
  <2>2. call' \in [Handlers -> Call \cup {NoCall}]
    BY DEF Restart
  <2> QED BY <1>1, <2>1, <2>2 DEF TypeOK
<1>3. NoOrphans'
  BY <1>1 DEF NoOrphans, NoOrphansIn
<1>4. SavedInv' /\ LoopInv'
  BY <1>1 DEF SavedInv, LoopInv, unlocked
<1>5. IssuedInv'
  BY <1>1 DEF IssuedInv, Accounted
<1>6. AlertsInv'
  <2> SUFFICES ASSUME ~lost, ~unsaved PROVE Follows(told', disk) /\ Agrees(toldW, disk)
    BY <1>1 DEF AlertsInv, Follows, Agrees
  <2>1. Agrees(toldW, disk)
    BY DEF AlertsInv, SavedInv, Agrees
  <2>2. Follows(told', disk)
    BY <1>1 DEF AlertsInv, SavedInv, LoopInv, Follows
  <2> QED BY <2>1, <2>2
<1> QED BY <1>2, <1>3, <1>4, <1>5, <1>6

----------------------------------------------------------------------------
LEMMA NextIInv == IInv /\ [Next]_vars => IInv'
<1> SUFFICES ASSUME IInv, [Next]_vars PROVE IInv'
  OBVIOUS
<1>1. CASE UNCHANGED vars
  BY <1>1 DEF vars, IInv, TypeOK, NoOrphans, NoOrphansIn, SavedInv, LoopInv, IssuedInv,
              Accounted, AlertsInv, Follows, Agrees, unlocked, owned, defined
<1>2. CASE Admin
  BY <1>2, CreateWorkerKeeps, RotateKeeps, DeleteWorkerKeeps, CreateCheckKeeps,
     DeleteCheckKeeps, UpdateCheckKeeps DEF Admin
<1>3. ASSUME NEW h \in Handlers, Serving(h) PROVE IInv'
  <2>1. <<>> \in Seq(Result) /\ Batches \subseteq Seq(Result)
    BY MonitorAssumption DEF MonitorAssumption
  <2> QED BY <1>3, <2>1, AuthenticateKeeps, TouchKeeps, AnswerKeeps, RecordResultsKeeps
          DEF Serving
<1>4. CASE RecordOne \/ Recorded
  BY <1>4, RecordOneKeeps, RecordedKeeps
<1>5. CASE MarkSilentWorkers \/ Restart \/ \E w \in WorkerIds : FallBehind(w)
  BY <1>5, SweepKeeps, RestartKeeps, FallBehindKeeps
<1> QED BY <1>1, <1>2, <1>3, <1>4, <1>5 DEF Next

(* The inductive invariant, whatever requests, losses of the disk and      *)
(* restarts do.                                                            *)
THEOREM InvariantHolds == Spec => []IInv
  BY InitIInv, NextIInv, PTL DEF Spec

(* Every variable keeps its type. *)
THEOREM TypeCorrect == Spec => []TypeOK
<1>1. IInv => TypeOK
  BY DEF IInv
<1> QED BY <1>1, InvariantHolds, PTL

(* Deleting leaves no check without a worker and no result without a       *)
(* check, in memory or in the file (DeleteWorker, DeleteCheck).            *)
THEOREM NothingOrphaned == Spec => []NoOrphans
<1>1. IInv => NoOrphans
  BY DEF IInv
<1> QED BY <1>1, InvariantHolds, PTL

(* A check is failing exactly when the last alert decided about it said so *)
(* (Transition, RecordResults, UpdateCheck, OpenStore).                    *)
THEOREM AlertsFollow == Spec => []AlertsFollowStatus
<1>1. IInv => AlertsFollowStatus
  BY DEF IInv, AlertsInv, Follows, AlertsFollowStatus
<1> QED BY <1>1, InvariantHolds, PTL

(* worker_silent and worker_back alternate (TouchWorker,                   *)
(* MarkSilentWorkers).                                                     *)
THEOREM SilenceFollows == Spec => []SilenceFollowsAlerts
<1>1. IInv => SilenceFollowsAlerts
  BY DEF IInv, AlertsInv, Agrees, SilenceFollowsAlerts, present
<1> QED BY <1>1, InvariantHolds, PTL

(* Whoever holds no lock and failed no save has saved everything. *)
THEOREM RestartSafe == Spec => []RestartIsHarmless
<1>1. IInv => RestartIsHarmless
  BY DEF IInv, SavedInv, RestartIsHarmless, TypeOK, State
<1> QED BY <1>1, InvariantHolds, PTL
(* Every step but an iteration of the loop and a restart leaves each       *)
(* result alone or clears it.                                              *)
Reported(c) ==
  ~lost' /\ mem'.status[c] # mem.status[c] /\ mem'.status[c].known =>
    loop # NoLoop /\ mem.checks[c] # NoCheck /\ mem.checks[c].worker = loop.worker

LEMMA SavingKeepsResults ==
  ASSUME TypeOK, NEW c \in CheckIds,
         Admin \/ MarkSilentWorkers \/ Recorded \/ \E h \in Handlers : Serving(h)
  PROVE  mem'.status[c] = mem.status[c] \/ mem'.status[c] = Unknown
<1>1. ASSUME NEW w \in WorkerIds, NEW x, mem' = [mem EXCEPT !.workers[w] = x]
      PROVE  mem'.status = mem.status
  BY <1>1 DEF TypeOK, State
<1>2. CASE Admin
  <2>1. ASSUME NEW n \in Names, CreateWorker(n) PROVE mem'.status = mem.status
    BY <2>1, <1>1 DEF CreateWorker, Commit
  <2>2. ASSUME NEW w \in WorkerIds, RotateWorkerToken(w) PROVE mem'.status = mem.status
    BY <2>2 DEF RotateWorkerToken, Commit, TypeOK, State
  <2>3. ASSUME NEW w \in WorkerIds, DeleteWorker(w)
        PROVE  mem'.status[c] \in {mem.status[c], Unknown}
    BY <2>3 DEF DeleteWorker, Commit, without
  <2>4. ASSUME NEW def \in CheckDef, CreateCheck(def) PROVE mem'.status = mem.status
    BY <2>4 DEF CreateCheck, Commit, TypeOK, State
  <2>5. ASSUME NEW d \in CheckIds, DeleteCheck(d)
        PROVE  mem'.status[c] \in {mem.status[c], Unknown}
    BY <2>5 DEF DeleteCheck, Commit, TypeOK, State
  <2>6. ASSUME NEW d \in CheckIds, NEW def \in CheckDef, UpdateCheck(d, def)
        PROVE  mem'.status[c] \in {mem.status[c], Unknown}
    BY <2>6 DEF UpdateCheck, Commit, TypeOK, State
  <2> QED BY <1>2, <2>1, <2>2, <2>3, <2>4, <2>5, <2>6 DEF Admin
<1>3. CASE MarkSilentWorkers
  BY <1>3 DEF MarkSilentWorkers, Commit, TypeOK, State
<1>4. CASE Recorded
  BY <1>4 DEF Recorded, Commit
<1>5. ASSUME NEW h \in Handlers, Serving(h) PROVE mem'.status = mem.status
  <2>1. ASSUME TouchWorker(h) PROVE mem'.status = mem.status
    BY <2>1 DEF TouchWorker, Commit, touched, TypeOK, State
  <2> QED BY <1>5, <2>1 DEF Serving, Authenticate, Answer, RecordResults
<1> QED BY <1>2, <1>3, <1>4, <1>5

LEMMA StepReported ==
  ASSUME IInv, Next, NEW c \in CheckIds
  PROVE  Reported(c)
<1> USE DEF IInv
<1>1. CASE Admin \/ MarkSilentWorkers \/ Recorded \/ \E h \in Handlers : Serving(h)
  BY <1>1, SavingKeepsResults, UnknownStatus DEF Reported
<1>2. CASE RecordOne
  <2> DEFINE r == Head(loop.rest)
  <2>1. CASE reportable(r.check, loop.worker)
    <3>1. \E x : mem' = [mem EXCEPT !.status[r.check] = x]
      BY <1>2, <2>1 DEF RecordOne
    <3>2. c # r.check => mem'.status[c] = mem.status[c]
      BY <3>1 DEF TypeOK, State
    <3> QED BY <1>2, <2>1, <3>2 DEF Reported, RecordOne, reportable, owned, defined
  <2>2. CASE ~reportable(r.check, loop.worker)
    BY <1>2, <2>2 DEF Reported, RecordOne
  <2> QED BY <2>1, <2>2
<1>3. CASE Restart
  <2>1. mem' = disk /\ lost' = (lost \/ unsaved)
    BY <1>3 DEF Restart
  <2> QED BY <2>1 DEF Reported, SavedInv, LoopInv, unlocked, owned, defined
<1>4. ASSUME NEW w \in WorkerIds, FallBehind(w) PROVE Reported(c)
  BY <1>4 DEF FallBehind, Reported
<1> QED BY <1>1, <1>2, <1>3, <1>4 DEF Next

(* A result is recorded only for a check of the worker that reports it;    *)
(* what a restart brings back is what that worker's loop was changing      *)
(* (RecordResults, OpenStore).                                             *)
THEOREM OnlyOwners == Spec => OnlyOwnersReport
<1>1. IInv /\ [Next]_vars => [\A c \in CheckIds : Reported(c)]_vars
  BY StepReported
<1>2. [\A c \in CheckIds : Reported(c)]_vars =>
      [\A c \in CheckIds :
         ~lost' /\ mem'.status[c] # mem.status[c] /\ mem'.status[c].known =>
           loop # NoLoop /\ mem.checks[c] # NoCheck
             /\ mem.checks[c].worker = loop.worker]_vars
  BY DEF Reported
<1> QED BY <1>1, <1>2, InvariantHolds, PTL DEF Spec, OnlyOwnersReport
=============================================================================
