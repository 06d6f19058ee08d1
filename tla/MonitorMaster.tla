--------------------------- MODULE MonitorMaster ---------------------------
(***************************************************************************)
(* monitor-master: the store of store.go and the routes and the sweep of   *)
(* main.go that drive it.                                                  *)
(*                                                                         *)
(* Every operation of the store runs under Store.mu and ends by saving the *)
(* whole state to one file, atomically.  A worker's request takes the lock *)
(* three times: to authenticate, to note the heartbeat, to do its work.    *)
(* The loop of RecordResults is modelled an iteration at a time, with the  *)
(* lock held: nothing but a crash can come between two of them.            *)
(***************************************************************************)
EXTENDS Naturals, Sequences

CONSTANTS WorkerIds, CheckIds, Tokens,  \* each is issued once
          Names,           \* workers' names, up to strings.EqualFold
          Commands,
          Handlers,        \* goroutines serving workers
          Batches,         \* what workers report: sequences of results
          MaxFailures,     \* bound on the saves that fail
          NoWorker, NoCheck, NoCall, NoLoop

Worker == [name : Names, token : Tokens,
           seen : BOOLEAN,         \* LastSeen is not zero
           silent : BOOLEAN]
CheckDef == [worker : WorkerIds, command : Commands, enabled : BOOLEAN]
CheckStatus == [known : BOOLEAN, ok : BOOLEAN, lastRun : Nat]
Result == [check : CheckIds, ok : BOOLEAN, ranAt : Nat]

Unknown == [known |-> FALSE, ok |-> FALSE, lastRun |-> 0]

State == [workers : [WorkerIds -> Worker \cup {NoWorker}],
          checks  : [CheckIds -> CheckDef \cup {NoCheck}],
          status  : [CheckIds -> CheckStatus]]

Said  == {"none", "failed", "recovered"}
SaidW == {"none", "silent", "back"}

(* A worker's request: GET checks, or POST results with a batch.           *)
Call == [worker : WorkerIds, step : {"touch", "handle"},
         fetch : BOOLEAN, results : Seq(Result)]
Loop == [handler : Handlers, worker : WorkerIds, rest : Seq(Result),
         told : [CheckIds -> Said]]

ASSUME MonitorAssumption ==
  /\ Batches \subseteq Seq(Result)
  /\ MaxFailures \in Nat
  /\ NoWorker \notin Worker /\ NoCheck \notin CheckDef
  /\ NoCall \notin Call /\ NoLoop \notin Loop

VARIABLES
  mem, disk,     \* Store.state, and the file it was last saved to
  late,          \* the worker's LastSeen is more than MON_STALE_AFTER ago
  call,          \* of each handler: the request it serves
  loop,          \* the loop of RecordResults, which holds Store.mu
  issued,        \* ids and tokens given out
  told, toldW,   \* history: the last alert decided about a check, a worker
  unsaved, lost, \* history: the last save failed; a restart dropped its state
  failures       \* saves that failed

saving == <<disk, unsaved, lost, failures>>
vars == <<mem, disk, late, call, loop, issued, told, toldW, unsaved, lost, failures>>

TypeOK ==
  /\ mem \in State
  /\ disk \in State
  /\ late \in [WorkerIds -> BOOLEAN]
  /\ call \in [Handlers -> Call \cup {NoCall}]
  /\ loop \in Loop \cup {NoLoop}
  /\ issued \subseteq WorkerIds \cup CheckIds \cup Tokens
  /\ told \in [CheckIds -> Said]
  /\ toldW \in [WorkerIds -> SaidW]
  /\ unsaved \in BOOLEAN /\ lost \in BOOLEAN
  /\ failures \in 0..MaxFailures

Empty == [workers |-> [w \in WorkerIds |-> NoWorker],
          checks  |-> [c \in CheckIds |-> NoCheck],
          status  |-> [c \in CheckIds |-> Unknown]]

Init ==
  /\ mem = Empty /\ disk = Empty
  /\ late = [w \in WorkerIds |-> FALSE]
  /\ call = [h \in Handlers |-> NoCall]
  /\ loop = NoLoop
  /\ issued = {}
  /\ told = [c \in CheckIds |-> "none"]
  /\ toldW = [w \in WorkerIds |-> "none"]
  /\ unsaved = FALSE /\ lost = FALSE /\ failures = 0

present(w)  == mem.workers[w] # NoWorker
defined(c)  == mem.checks[c] # NoCheck
owned(c, w) == defined(c) /\ mem.checks[c].worker = w

(* save: a temporary file, then a rename, so that the file is the new      *)
(* state or the old one.                                                   *)
Commit(state) ==
  /\ mem' = state
  /\ \/ disk' = state /\ unsaved' = FALSE /\ UNCHANGED failures
     \/ /\ failures < MaxFailures /\ failures' = failures + 1
        /\ disk' = disk /\ unsaved' = TRUE
  /\ UNCHANGED lost

unlocked == loop = NoLoop

----------------------------------------------------------------------------
(* The admin routes. *)

CreateWorker(n) ==
  /\ unlocked
  /\ \A w \in WorkerIds : present(w) => mem.workers[w].name # n
  /\ \E w \in WorkerIds \ issued, t \in Tokens \ issued :
       /\ issued' = issued \cup {w, t}
       /\ Commit([mem EXCEPT !.workers[w] =
            [name |-> n, token |-> t, seen |-> FALSE, silent |-> FALSE]])
  /\ UNCHANGED <<late, call, loop, told, toldW>>

RotateWorkerToken(w) ==
  /\ unlocked /\ present(w)
  /\ \E t \in Tokens \ issued :
       /\ issued' = issued \cup {t}
       /\ Commit([mem EXCEPT !.workers[w].token = t])
  /\ UNCHANGED <<late, call, loop, told, toldW>>

withoutItsChecks(w) == [mem EXCEPT !.workers[w] = NoWorker]         \* mutant

(* The checks of w, their definitions and results, go with it.             *)
without(w) ==
  [workers |-> [mem.workers EXCEPT ![w] = NoWorker],
   checks  |-> [c \in CheckIds |-> IF owned(c, w) THEN NoCheck ELSE mem.checks[c]],
   status  |-> [c \in CheckIds |-> IF owned(c, w) THEN Unknown ELSE mem.status[c]]]

DeleteWorker(w) ==
  /\ unlocked /\ present(w)
  /\ Commit(without(w))
  /\ told' = [c \in CheckIds |-> IF owned(c, w) THEN "none" ELSE told[c]]
  /\ UNCHANGED <<late, call, loop, issued, toldW>>

CreateCheck(def) ==
  /\ unlocked /\ present(def.worker)
  /\ \E c \in CheckIds \ issued :
       /\ issued' = issued \cup {c}
       /\ Commit([mem EXCEPT !.checks[c] = def])
  /\ UNCHANGED <<late, call, loop, told, toldW>>

(* A different command or worker is a different check: its result and the  *)
(* alerts about it say nothing of the new one.                             *)
another(old, new) == old.command # new.command \/ old.worker # new.worker

stays(old, new) == FALSE                                           \* mutant
resets(old, new) == another(old, new)

UpdateCheck(c, def) ==
  /\ unlocked /\ present(def.worker) /\ defined(c)
  /\ LET old == mem.checks[c]
     IN  /\ Commit([mem EXCEPT !.checks[c] = def,
              !.status[c] = IF resets(old, def) THEN Unknown ELSE @])
         /\ told' = [told EXCEPT ![c] = IF another(old, def) THEN "none" ELSE @]
  /\ UNCHANGED <<late, call, loop, issued, toldW>>

DeleteCheck(c) ==
  /\ unlocked /\ defined(c)
  /\ Commit([mem EXCEPT !.checks[c] = NoCheck, !.status[c] = Unknown])
  /\ told' = [told EXCEPT ![c] = "none"]
  /\ UNCHANGED <<late, call, loop, issued, toldW>>

----------------------------------------------------------------------------
(* The worker routes. *)

Authenticate(h, t, fetch, batch) ==
  /\ unlocked /\ call[h] = NoCall
  /\ \E w \in WorkerIds :
       /\ present(w) /\ mem.workers[w].token = t
       /\ call' = [call EXCEPT ![h] =
            [worker |-> w, step |-> "touch", fetch |-> fetch, results |-> batch]]
  /\ UNCHANGED <<mem, saving, late, loop, issued, told, toldW>>

touchedQuietly(w) == [mem EXCEPT !.workers[w].seen = TRUE]          \* mutant
touched(w) == [mem EXCEPT !.workers[w].seen = TRUE, !.workers[w].silent = FALSE]

(* TouchWorker; a worker deleted meanwhile is left alone.                  *)
TouchWorker(h) ==
  /\ unlocked /\ call[h] # NoCall /\ call[h].step = "touch"
  /\ LET w == call[h].worker
     IN  IF present(w)
           THEN /\ Commit(touched(w))
                /\ late' = [late EXCEPT ![w] = FALSE]
                /\ toldW' = [toldW EXCEPT ![w] =
                     IF mem.workers[w].silent THEN "back" ELSE @]
           ELSE UNCHANGED <<mem, saving, late, toldW>>
  /\ call' = [call EXCEPT ![h].step = "handle"]
  /\ UNCHANGED <<loop, issued, told>>

(* ChecksForWorker: what the answer to GET checks holds.                   *)
checksFor(w) == {c \in CheckIds : owned(c, w) /\ mem.checks[c].enabled}

(* GET checks answers; or the body of POST results is refused.             *)
Answer(h) ==
  /\ unlocked /\ call[h] # NoCall /\ call[h].step = "handle"
  /\ call' = [call EXCEPT ![h] = NoCall]
  /\ UNCHANGED <<mem, saving, late, loop, issued, told, toldW>>

RecordResults(h) ==
  /\ unlocked /\ call[h] # NoCall
  /\ call[h].step = "handle" /\ ~call[h].fetch
  /\ loop' = [handler |-> h, worker |-> call[h].worker,
              rest |-> call[h].results, told |-> told]
  /\ UNCHANGED <<mem, saving, late, call, issued, told, toldW>>

Transition(prev, ok) ==
  CASE ~prev.known /\ ~ok           -> "failed"
    [] prev.known /\ prev.ok /\ ~ok -> "failed"
    [] prev.known /\ ~prev.ok /\ ok -> "recovered"
    [] OTHER                        -> ""

anyCheck(c, w) == defined(c)                                       \* mutant
reportable(c, w) == owned(c, w)

RecordOne ==
  /\ loop # NoLoop /\ loop.rest # <<>>
  /\ LET r == Head(loop.rest)
         event == Transition(mem.status[r.check], r.ok)
     IN  IF reportable(r.check, loop.worker)
           THEN /\ mem' = [mem EXCEPT !.status[r.check] =
                     [known |-> TRUE, ok |-> r.ok, lastRun |-> r.ranAt]]
                /\ told' = [told EXCEPT ![r.check] =
                     IF event = "" THEN @ ELSE event]
           ELSE UNCHANGED <<mem, told>>
  /\ loop' = [loop EXCEPT !.rest = Tail(@)]
  /\ UNCHANGED <<saving, late, call, issued, toldW>>

RecordedUnsaved ==                                                 \* mutant
  /\ loop # NoLoop /\ loop.rest = <<>>
  /\ call' = [call EXCEPT ![loop.handler] = NoCall]
  /\ loop' = NoLoop
  /\ UNCHANGED <<mem, saving, late, issued, told, toldW>>

(* The end of RecordResults: save, unlock, and the request is answered.    *)
Recorded ==
  /\ loop # NoLoop /\ loop.rest = <<>>
  /\ Commit(mem)
  /\ call' = [call EXCEPT ![loop.handler] = NoCall]
  /\ loop' = NoLoop
  /\ UNCHANGED <<late, issued, told, toldW>>

----------------------------------------------------------------------------
(* Time, the sweep and restarts. *)

FallBehind(w) ==
  /\ present(w) /\ mem.workers[w].seen /\ ~late[w]
  /\ late' = [late EXCEPT ![w] = TRUE]
  /\ UNCHANGED <<mem, saving, call, loop, issued, told, toldW>>

silenced ==
  {w \in WorkerIds : /\ present(w) /\ mem.workers[w].seen /\ late[w]
                     /\ ~mem.workers[w].silent
                     /\ checksFor(w) # {}}

(* MarkSilentWorkers, by the sweep of main.go.                             *)
MarkSilentWorkers ==
  /\ unlocked /\ silenced # {}
  /\ Commit([mem EXCEPT !.workers = [w \in WorkerIds |->
       IF w \in silenced THEN [mem.workers[w] EXCEPT !.silent = TRUE]
                         ELSE mem.workers[w]]])
  /\ toldW' = [w \in WorkerIds |-> IF w \in silenced THEN "silent" ELSE toldW[w]]
  /\ UNCHANGED <<late, call, loop, issued, told>>

(* The process dies and OpenStore reads the file.  The alerts decided in a *)
(* loop that had not ended were not sent.                                  *)
Restart ==
  /\ mem' = disk
  /\ call' = [h \in Handlers |-> NoCall]
  /\ told' = IF unlocked THEN told ELSE loop.told
  /\ loop' = NoLoop
  /\ unsaved' = FALSE
  /\ lost' = (lost \/ unsaved)
  /\ UNCHANGED <<disk, late, issued, toldW, failures>>

----------------------------------------------------------------------------
Admin ==
  \/ \E n \in Names : CreateWorker(n)
  \/ \E w \in WorkerIds : RotateWorkerToken(w) \/ DeleteWorker(w)
  \/ \E def \in CheckDef : CreateCheck(def)
  \/ \E c \in CheckIds : DeleteCheck(c) \/ \E def \in CheckDef : UpdateCheck(c, def)

Serving(h) ==
  \/ \E t \in Tokens :
       \/ Authenticate(h, t, TRUE, <<>>)
       \/ \E batch \in Batches : Authenticate(h, t, FALSE, batch)
  \/ TouchWorker(h)
  \/ Answer(h)
  \/ RecordResults(h)

Next ==
  \/ Admin
  \/ \E h \in Handlers : Serving(h)
  \/ RecordOne \/ Recorded
  \/ MarkSilentWorkers
  \/ \E w \in WorkerIds : FallBehind(w)
  \/ Restart

Spec == Init /\ [][Next]_vars

----------------------------------------------------------------------------
(* Every check belongs to a worker that exists, and only a check that      *)
(* exists has a result: DeleteWorker and DeleteCheck leave nothing behind, *)
(* in memory or in the file, and a late request brings nothing back.       *)
NoOrphansIn(state) ==
  \A c \in CheckIds :
    IF state.checks[c] = NoCheck
      THEN state.status[c] = Unknown
      ELSE state.workers[state.checks[c].worker] # NoWorker

NoOrphans == NoOrphansIn(mem) /\ NoOrphansIn(disk)

(* A check is failing exactly when the last alert about it said so: alerts *)
(* alternate, none repeats while the state holds and none is missed,       *)
(* however results are batched, checks redefined and the master restarted  *)
(* (Transition, RecordResults).                                            *)
AlertsFollowStatus ==
  ~lost => \A c \in CheckIds :
     (told[c] = "failed") <=> (mem.status[c].known /\ ~mem.status[c].ok)

(* A worker is marked silent exactly when the last word on it was          *)
(* worker_silent, so that it is announced once and its return once.        *)
SilenceFollowsAlerts ==
  ~lost => \A w \in WorkerIds :
     present(w) => ((toldW[w] = "silent") <=> mem.workers[w].silent)

(* A result is recorded only for a check of the worker that reports it,    *)
(* even when the check changed hands while the report was under way.       *)
OnlyOwnersReport ==
  [][\A c \in CheckIds :
       ~lost' /\ mem'.status[c] # mem.status[c] /\ mem'.status[c].known =>
         loop # NoLoop /\ mem.checks[c] # NoCheck
           /\ mem.checks[c].worker = loop.worker]_vars

(* Outside the loop, a restart changes nothing unless a save has failed:   *)
(* each operation has saved what it changed before it gives the lock back. *)
RestartIsHarmless == unlocked /\ ~unsaved => disk = mem
=============================================================================
