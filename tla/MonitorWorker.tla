--------------------------- MODULE MonitorWorker ---------------------------
(***************************************************************************)
(* The scheduler of one monitor-worker (monitor-worker/main.go) and its    *)
(* requests to the master, which fail on the way there, on the way back,   *)
(* or by a timeout while the master is still to answer.                    *)
(*                                                                         *)
(* The worker's loop refreshes its list of checks, flushes the results     *)
(* that wait, and starts what is due; each run is a goroutine that, when   *)
(* its command has ended, flushes too.  Flushes therefore overlap.         *)
(*                                                                         *)
(* Of the master (MonitorMaster) there is what the worker can tell: the    *)
(* definition of its checks, and the results that RecordResults was given. *)
(* A request is handled in one step, since nobody else writes either.      *)
(***************************************************************************)
EXTENDS Naturals, Sequences, FiniteSets

CONSTANTS CheckIds, Commands,
          Slots,           \* requests under way at once
          MaxPending,      \* results a worker keeps
          BodyLimit,       \* results the master reads from one request
          MaxParallel,     \* commands a worker runs at once
          MaxRuns, MaxLosses, MaxEdits, \* bounds: runs; lost messages and
                                        \* restarts; edits of the checks
          NoCheck, NoRun, NoFlight, Nothing

Result  == [check : CheckIds, ranAt : Nat]
Def     == [command : Commands, enabled : BOOLEAN]
List    == [CheckIds -> Commands \cup {NoCheck}]
Run     == [command : Commands, begun : BOOLEAN, ranAt : Nat]
Request == [kind : {"request"}, fetch : BOOLEAN, results : Seq(Result)]
Reply   == [kind : {"checks"}, list : List] \cup [kind : {"ok", "refused"}]
Flight  == [by : {"loop", "run"}, request : Request]

ASSUME WorkerAssumption ==
  /\ {MaxPending, BodyLimit, MaxParallel} \subseteq Nat \ {0}
  /\ {MaxRuns, MaxLosses, MaxEdits} \subseteq Nat
  /\ Commands # {} /\ NoCheck \notin Commands \cup Def
  /\ NoRun \notin Run /\ NoFlight \notin Flight
  /\ Nothing \notin Request \cup Reply

VARIABLES
  checks, lastRun, heard,   \* at the master: the definitions, RanAt of the
                            \* result each check shows, all results recorded
  listed,        \* s.checks: the command of each check it was told to run
  due,           \* nextRun has come
  running,       \* the run of each check, waiting for a slot or begun
  pending,
  main,          \* the loop: "free", "asking", "flush" or "flushing"
  owed,          \* goroutines of ended runs that have still to flush
  flight,        \* the requests a goroutine waits for
  wire,          \* of each: the request or the answer that is under way
  clock, losses, edits,
  started,       \* history: the command each check was last started with
  done, dropped  \* history: runs that ended, runs whose result was cut

master   == <<checks, lastRun, heard>>
schedule == <<listed, due, running, started>>
results  == <<pending, done, dropped>>
net      == <<flight, wire>>
bounds   == <<clock, losses, edits>>
vars     == <<master, schedule, results, main, owed, net, bounds>>

Unlisted == [c \in CheckIds |-> NoCheck]

TypeOK ==
  /\ checks \in [CheckIds -> Def \cup {NoCheck}]
  /\ lastRun \in [CheckIds -> Nat]
  /\ listed \in List
  /\ due \in [CheckIds -> BOOLEAN]
  /\ running \in [CheckIds -> Run \cup {NoRun}]
  /\ pending \in Seq(Result) /\ Len(pending) <= MaxPending
  /\ main \in {"free", "asking", "flush", "flushing"}
  /\ owed \in Nat
  /\ flight \in [Slots -> Flight \cup {NoFlight}]
  /\ wire \in [Slots -> Request \cup Reply \cup {Nothing}]
  /\ clock \in 0..MaxRuns /\ losses \in 0..MaxLosses /\ edits \in 0..MaxEdits
  /\ started \in List
  /\ done \cup heard \cup dropped \subseteq 1..clock

(* The checks the worker was set up with, from the UI.                     *)
FirstDef == [command |-> CHOOSE x \in Commands : TRUE, enabled |-> TRUE]

Init ==
  /\ checks = [c \in CheckIds |-> FirstDef]
  /\ lastRun = [c \in CheckIds |-> 0] /\ heard = {}
  /\ listed = Unlisted /\ started = Unlisted
  /\ due = [c \in CheckIds |-> FALSE]
  /\ running = [c \in CheckIds |-> NoRun]
  /\ pending = <<>> /\ done = {} /\ dropped = {}
  /\ main = "free" /\ owed = 0
  /\ flight = [h \in Slots |-> NoFlight]
  /\ wire = [h \in Slots |-> Nothing]
  /\ clock = 0 /\ losses = 0 /\ edits = 0

----------------------------------------------------------------------------
(* Requests. *)

(* client.do, up to the wait for the answer.  Any free slot is as good.     *)
free(h) == flight[h] = NoFlight /\ wire[h] = Nothing

Send(by, request) ==
  /\ \E h \in Slots : free(h)
  /\ LET h == CHOOSE g \in Slots : free(g)
     IN  /\ flight' = [flight EXCEPT ![h] = [by |-> by, request |-> request]]
         /\ wire' = [wire EXCEPT ![h] = request]

ask(fetch, batch) == [kind |-> "request", fetch |-> fetch, results |-> batch]

carried(h, kind) == wire[h] # Nothing /\ wire[h].kind = kind

(* The answer goes to a client that still waits.                           *)
Answer(h, answer) ==
  wire' = [wire EXCEPT ![h] = IF flight[h] = NoFlight THEN Nothing ELSE answer]

toldToRun(c) == checks[c] # NoCheck /\ checks[c].enabled

GetChecks(h) ==
  /\ carried(h, "request") /\ wire[h].fetch
  /\ Answer(h, [kind |-> "checks", list |->
       [c \in CheckIds |-> IF toldToRun(c) THEN checks[c].command ELSE NoCheck]])
  /\ UNCHANGED <<master, schedule, results, main, owed, flight, bounds>>

(* RecordResults, for the checks that still exist: the last of a batch     *)
(* stays.                                                                  *)
last(batch, c) == {i \in 1..Len(batch) :
  /\ batch[i].check = c
  /\ \A j \in (i + 1)..Len(batch) : batch[j].check # c}

stamps(batch) == {batch[i].ranAt : i \in 1..Len(batch)}

PostResults(h) ==
  /\ carried(h, "request") /\ ~wire[h].fetch
  /\ LET batch == wire[h].results
     IN  IF Len(batch) > BodyLimit      \* http.MaxBytesReader
           THEN Answer(h, [kind |-> "refused"]) /\ UNCHANGED <<lastRun, heard>>
           ELSE /\ Answer(h, [kind |-> "ok"])
                /\ lastRun' = [c \in CheckIds |->
                     IF checks[c] = NoCheck \/ last(batch, c) = {} THEN lastRun[c]
                     ELSE batch[CHOOSE i \in last(batch, c) : TRUE].ranAt]
                /\ heard' = heard \cup stamps(batch)
  /\ UNCHANGED <<checks, schedule, results, main, owed, flight, bounds>>

(* The request or the answer is lost.                                      *)
Lose(h) ==
  /\ losses < MaxLosses /\ losses' = losses + 1
  /\ wire[h] # Nothing
  /\ wire' = [wire EXCEPT ![h] = Nothing]
  /\ UNCHANGED <<master, schedule, results, main, owed, flight, clock, edits>>

----------------------------------------------------------------------------
(* The scheduler. *)

(* The newest MaxPending results, and what is cut to keep them.            *)
overAtLimit(all) == IF Len(all) >= MaxPending                      \* mutant
                      THEN Len(all) - MaxPending + 1 ELSE 0
over(all) == IF Len(all) > MaxPending THEN Len(all) - MaxPending ELSE 0
Keep(all) ==
  /\ pending' = SubSeq(all, over(all) + 1, Len(all))
  /\ dropped' = dropped \cup {all[i].ranAt : i \in 1..over(all)}

(* flush takes all that waits; it sends nothing when nothing does.         *)
Take(by) ==
  /\ Send(by, ask(FALSE, pending))
  /\ pending' = <<>>
  /\ UNCHANGED <<done, dropped>>

LoopFlushNever ==                                                  \* mutant
  /\ main = "flush" /\ main' = "free"
  /\ UNCHANGED <<net, results, master, schedule, owed, bounds>>

LoopFlush ==
  /\ main = "flush"
  /\ \/ pending = <<>> /\ main' = "free" /\ UNCHANGED <<net, results>>
     \/ pending # <<>> /\ main' = "flushing" /\ Take("loop")
  /\ UNCHANGED <<master, schedule, owed, bounds>>

RunFlush ==
  /\ owed > 0 /\ owed' = owed - 1
  /\ \/ pending = <<>> /\ UNCHANGED <<net, results>>
     \/ pending # <<>> /\ Take("run")
  /\ UNCHANGED <<master, schedule, main, bounds>>

(* The poll tick: refresh asks for the checks.                             *)
Refresh ==
  /\ main = "free" /\ main' = "asking"
  /\ Send("loop", ask(TRUE, <<>>))
  /\ UNCHANGED <<master, schedule, results, owed, bounds>>

keepsSchedule(c, list) == list[c] # NoCheck /\                     \* mutant
                            (due[c] \/ listed[c] = NoCheck)
newlyDue(c, list) == list[c] # NoCheck /\ (due[c] \/ list[c] # listed[c])

(* Its answer.  A check that is new or changed is due at once.             *)
Refreshed(h) ==
  /\ flight[h] # NoFlight /\ carried(h, "checks")
  /\ listed' = wire[h].list
  /\ due' = [c \in CheckIds |-> newlyDue(c, wire[h].list)]
  /\ main' = "flush"
  /\ flight' = [flight EXCEPT ![h] = NoFlight]
  /\ wire' = [wire EXCEPT ![h] = Nothing]
  /\ UNCHANGED <<master, running, started, results, owed, bounds>>

(* Where the loop goes on when its request is over.                        *)
afterwards(f) == IF f.by = "run" THEN main
                 ELSE IF f.request.fetch THEN "flush" ELSE "free"

Flushed(h) ==
  /\ flight[h] # NoFlight /\ carried(h, "ok")
  /\ main' = afterwards(flight[h])
  /\ flight' = [flight EXCEPT ![h] = NoFlight]
  /\ wire' = [wire EXCEPT ![h] = Nothing]
  /\ UNCHANGED <<master, schedule, results, owed, bounds>>

requeuedOver(batch) == batch                                       \* mutant
requeued(batch) == batch \o pending

(* client.do returns an error: results go back in front of those that came *)
(* since.                                                                  *)
GiveUp(h) ==
  /\ main' = afterwards(flight[h])
  /\ IF flight[h].request.fetch
       THEN UNCHANGED <<pending, dropped>>
       ELSE Keep(requeued(flight[h].request.results))
  /\ flight' = [flight EXCEPT ![h] = NoFlight]
  /\ UNCHANGED <<master, schedule, done, owed, clock, edits>>

(* The master refused, or nothing is under way any more.                   *)
Failed(h) ==
  /\ flight[h] # NoFlight /\ (carried(h, "refused") \/ wire[h] = Nothing)
  /\ GiveUp(h)
  /\ wire' = [wire EXCEPT ![h] = Nothing]
  /\ UNCHANGED losses

(* The client's timeout; the request is still under way.                   *)
TimeOut(h) ==
  /\ losses < MaxLosses /\ losses' = losses + 1
  /\ flight[h] # NoFlight /\ carried(h, "request")
  /\ GiveUp(h)
  /\ UNCHANGED wire

(* An interval has passed.                                                 *)
FallDue(c) ==
  /\ listed[c] # NoCheck /\ ~due[c] /\ clock < MaxRuns
  /\ due' = [due EXCEPT ![c] = TRUE]
  /\ UNCHANGED <<master, listed, running, started, results, main, owed, net, bounds>>

(* startDue, on the run tick: every check that is due and not running.     *)
startable == {c \in CheckIds : listed[c] # NoCheck /\ due[c] /\ running[c] = NoRun}

StartDue ==
  /\ main = "free" /\ startable # {}
  /\ running' = [c \in CheckIds |->
       IF c \in startable THEN [command |-> listed[c], begun |-> FALSE, ranAt |-> 0]
                          ELSE running[c]]
  /\ due' = [c \in CheckIds |-> due[c] /\ c \notin startable]
  /\ started' = [c \in CheckIds |-> IF c \in startable THEN listed[c] ELSE started[c]]
  /\ UNCHANGED <<master, listed, results, main, owed, net, bounds>>

begun == {c \in CheckIds : running[c] # NoRun /\ running[c].begun}

(* execute gets a slot of the semaphore and RunCheck starts the command.   *)
Execute(c) ==
  /\ running[c] # NoRun /\ ~running[c].begun
  /\ Cardinality(begun) < MaxParallel
  /\ clock < MaxRuns /\ clock' = clock + 1
  /\ running' = [running EXCEPT ![c].begun = TRUE, ![c].ranAt = clock']
  /\ UNCHANGED <<master, listed, due, started, results, main, owed, net, losses, edits>>

(* The command ends, or is killed at its timeout: its result waits, and    *)
(* the goroutine has to flush.                                             *)
Finish(c) ==
  /\ c \in begun
  /\ Keep(Append(pending, [check |-> c, ranAt |-> running[c].ranAt]))
  /\ done' = done \cup {running[c].ranAt}
  /\ running' = [running EXCEPT ![c] = NoRun]
  /\ owed' = owed + 1
  /\ UNCHANGED <<master, listed, due, started, main, net, bounds>>

----------------------------------------------------------------------------
(* Edits from the UI, and restarts. *)

Edit(c) ==
  /\ edits < MaxEdits /\ edits' = edits + 1
  /\ checks[c] # NoCheck
  /\ \E def \in Def \cup {NoCheck} :
       /\ checks' = [checks EXCEPT ![c] = def]
       /\ lastRun' = [lastRun EXCEPT ![c] =
            IF def # NoCheck /\ def.command = checks[c].command THEN @ ELSE 0]
  /\ UNCHANGED <<heard, schedule, results, main, owed, net, clock, losses>>

(* The master's connections break; what it recorded is in its file.        *)
MasterRestarts ==
  /\ losses < MaxLosses /\ losses' = losses + 1
  /\ wire' = [h \in Slots |-> Nothing]
  /\ UNCHANGED <<master, schedule, results, main, owed, flight, clock, edits>>

WorkerRestarts ==
  /\ losses < MaxLosses /\ losses' = losses + 1
  /\ listed' = Unlisted /\ started' = Unlisted
  /\ due' = [c \in CheckIds |-> FALSE]
  /\ running' = [c \in CheckIds |-> NoRun]
  /\ pending' = <<>> /\ done' = {} /\ dropped' = {}
  /\ main' = "free" /\ owed' = 0
  /\ flight' = [h \in Slots |-> NoFlight]
  /\ wire' = [h \in Slots |-> IF carried(h, "request") THEN wire[h] ELSE Nothing]
  /\ UNCHANGED <<master, clock, edits>>

Next ==
  \/ \E h \in Slots :
       \/ GetChecks(h) \/ PostResults(h) \/ Lose(h)
       \/ Refreshed(h) \/ Flushed(h) \/ Failed(h) \/ TimeOut(h)
  \/ LoopFlush \/ RunFlush \/ Refresh \/ StartDue
  \/ \E c \in CheckIds : FallDue(c) \/ Execute(c) \/ Finish(c) \/ Edit(c)
  \/ MasterRestarts \/ WorkerRestarts

Spec == Init /\ [][Next]_vars

(* The tickers of the loop; goroutines that run; commands that end, by     *)
(* their timeout if need be; requests that are answered or time out, and   *)
(* of which MaxLosses are lost.                                            *)
Fairness ==
  /\ \A h \in Slots :
       /\ WF_vars(GetChecks(h)) /\ WF_vars(PostResults(h))
       /\ WF_vars(Refreshed(h)) /\ WF_vars(Flushed(h)) /\ WF_vars(Failed(h))
  /\ SF_vars(LoopFlush) /\ SF_vars(RunFlush) /\ SF_vars(Refresh) /\ SF_vars(StartDue)
  /\ \A c \in CheckIds : SF_vars(Execute(c)) /\ WF_vars(Finish(c))

FairSpec == Spec /\ Fairness

----------------------------------------------------------------------------
carries(batch, n) == \E i \in 1..Len(batch) : batch[i].ranAt = n

(* No result is lost between the worker and the store, whichever requests  *)
(* fail and in whatever order: it waits, a goroutine still holds it, it    *)
(* was recorded, or it was cut when more than MaxPending waited (flush).   *)
NoResultLost ==
  \A n \in done \ (heard \cup dropped) :
    \/ carries(pending, n)
    \/ \E h \in Slots : flight[h] # NoFlight /\ carries(flight[h].request.results, n)

(* The same and more, as a promise of its own: what the worker holds, its  *)
(* goroutines included, and what is under way, are an Outbox.  No result   *)
(* is recorded, kept or cut that no run produced, none is cut before the   *)
(* limit, and the worker forgets what was recorded and nothing else.       *)
kept == stamps(pending) \cup
        UNION {stamps(flight[h].request.results) : h \in {g \in Slots : flight[g] # NoFlight}}
sent == UNION {stamps(wire[h].results) : h \in {g \in Slots : carried(g, "request")}}

Promise == INSTANCE Outbox WITH Results <- 1..MaxRuns, recorded <- heard, cut <- dropped

ImplementsOutbox == Promise!Spec

(* A check whose command changed is due, even when the change came while   *)
(* the old command was running (refresh, startDue).                        *)
ChangeIsDue ==
  \A c \in CheckIds : listed[c] \notin {NoCheck, started[c]} => due[c]

(* The loop waits for one request of its own, and for none when it is free *)
(* to start checks: a failed or late request never leaves it stuck.        *)
LoopWaitsForOne ==
  Cardinality({h \in Slots : flight[h] # NoFlight /\ flight[h].by = "loop"})
    = IF main \in {"asking", "flushing"} THEN 1 ELSE 0

(* In the end each result is recorded or cut, unless its worker restarts.  *)
EveryResultIsHeard ==
  \A n \in 1..MaxRuns : (n \in done) ~> (n \in heard \cup dropped \/ n \notin done)

(* A command set on the master is started by the worker, unless it changes *)
(* again first or the bound on runs is used up.                            *)
wanted(c, x) == toldToRun(c) /\ checks[c].command = x

EveryChangeIsRun ==
  \A c \in CheckIds, x \in Commands :
    wanted(c, x) ~> (~wanted(c, x) \/ started[c] = x \/ clock = MaxRuns)

----------------------------------------------------------------------------
(* "CheckStatus is the last known outcome of a check": the outcome kept is *)
(* never replaced by that of an earlier run.  Overlapping and repeated     *)
(* flushes break it.                                                       *)
LastOutcomeKept ==
  [][\A c \in CheckIds : lastRun'[c] >= lastRun[c] \/ lastRun'[c] = 0]_vars
=============================================================================
