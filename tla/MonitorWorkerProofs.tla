------------------------ MODULE MonitorWorkerProofs ------------------------
(***************************************************************************)
(* Proofs about MonitorWorker, for any checks, commands and slots, any     *)
(* limits on what waits and on what the master reads, and any number of    *)
(* runs, edits, lost messages and restarts.                                *)
(***************************************************************************)
EXTENDS MonitorWorker, SequenceTheorems, FiniteSetTheorems, TLAPS

(* A run that has begun, and every result, has the number of an earlier    *)
(* tick of the clock.                                                      *)
Stamped ==
  /\ \A c \in CheckIds : running[c] # NoRun /\ running[c].begun => running[c].ranAt \in 1..clock
  /\ stamps(pending) \subseteq 1..clock
  /\ \A h \in Slots : flight[h] # NoFlight => stamps(flight[h].request.results) \subseteq 1..clock
  /\ \A h \in Slots : carried(h, "request") => stamps(wire[h].results) \subseteq 1..clock

(* What is under way in a slot belongs to the goroutine that waits there;  *)
(* an answer is only sent to one that does, and "ok" means recorded.       *)
Matched ==
  \A h \in Slots :
    /\ wire[h] # Nothing /\ flight[h] # NoFlight /\ wire[h].kind = "request"
         => wire[h] = flight[h].request
    /\ wire[h] # Nothing /\ wire[h].kind # "request" => flight[h] # NoFlight
    /\ carried(h, "checks") => flight[h].request.fetch
    /\ carried(h, "ok") =>
         /\ ~flight[h].request.fetch
         /\ stamps(flight[h].request.results) \subseteq heard

(* The loop's own request is the one it says it waits for.                 *)
byLoop == {h \in Slots : flight[h] # NoFlight /\ flight[h].by = "loop"}

LoopInv ==
  /\ main \notin {"asking", "flushing"} => byLoop = {}
  /\ main \in {"asking", "flushing"} => \E h \in Slots : byLoop = {h}
  /\ \A h \in Slots : flight[h] # NoFlight /\ flight[h].request.fetch =>
       h \in byLoop /\ main = "asking" /\ flight[h].request.results = <<>>
  /\ \A h \in byLoop : main = "asking" => flight[h].request.fetch

Inv == TypeOK /\ Stamped /\ Matched /\ LoopInv /\ NoResultLost /\ ChangeIsDue

----------------------------------------------------------------------------
(* Batches of results.                                                     *)

LEMMA CarriesStamps == \A batch, n : carries(batch, n) <=> n \in stamps(batch)
  BY DEF carries, stamps

LEMMA NoStamps == stamps(<<>>) = {}
  BY DEF stamps

LEMMA StampsJoined ==
  ASSUME NEW a \in Seq(Result), NEW b \in Seq(Result)
  PROVE  a \o b \in Seq(Result) /\ stamps(a \o b) = stamps(a) \cup stamps(b)
<1>1. a \o b \in Seq(Result) /\ Len(a \o b) = Len(a) + Len(b)
      /\ Len(a) \in Nat /\ Len(b) \in Nat
  BY ConcatProperties, LenProperties
<1>2. \A i \in 1..Len(a) + Len(b) :
        (a \o b)[i] = IF i <= Len(a) THEN a[i] ELSE b[i - Len(a)]
  BY ConcatProperties
<1>3. stamps(a \o b) \subseteq stamps(a) \cup stamps(b)
  BY <1>1, <1>2 DEF stamps
<1>4. stamps(a) \subseteq stamps(a \o b)
  BY <1>1, <1>2 DEF stamps
<1>5. ASSUME NEW i \in 1..Len(b) PROVE b[i].ranAt \in stamps(a \o b)
  <2>1. Len(a) + i \in 1..Len(a \o b) /\ (a \o b)[Len(a) + i] = b[i]
    BY <1>1, <1>2
  <2> QED BY <2>1 DEF stamps
<1> QED BY <1>1, <1>3, <1>4, <1>5 DEF stamps

LEMMA StampsAppended ==
  ASSUME NEW a \in Seq(Result), NEW r \in Result
  PROVE  Append(a, r) \in Seq(Result) /\ stamps(Append(a, r)) = stamps(a) \cup {r.ranAt}
<1>1. <<r>> \in Seq(Result) /\ stamps(<<r>>) = {r.ranAt}
  BY DEF stamps
<1>2. Append(a, r) = a \o <<r>>
  BY AppendIsConcat
<1> QED BY <1>1, <1>2, StampsJoined

LEMMA StampsTyped ==
  ASSUME NEW a \in Seq(Result)
  PROVE  stamps(a) \subseteq Nat
<1>1. \A i \in 1..Len(a) : a[i] \in Result
  BY LenProperties
<1> QED BY <1>1 DEF stamps, Result

(* What is kept and what is cut is all there was.                          *)
LEMMA KeepOK ==
  ASSUME NEW all \in Seq(Result), Keep(all)
  PROVE  /\ pending' \in Seq(Result) /\ Len(pending') <= MaxPending
         /\ stamps(pending') \subseteq stamps(all)
         /\ dropped \subseteq dropped' /\ dropped' \subseteq dropped \cup stamps(all)
         /\ stamps(all) \subseteq stamps(pending') \cup dropped'
<1> DEFINE k == over(all)
           n == Len(all)
<1> USE WorkerAssumption
<1>1. n \in Nat /\ k \in 0..n /\ n - k <= MaxPending
  BY LenProperties DEF over
<1>2. \A i \in 1..n : all[i] \in Result
  BY LenProperties
<1>3. pending' = SubSeq(all, k + 1, n)
  BY DEF Keep
<1> HIDE DEF k, n
<1>4. pending' \in Seq(Result) /\ Len(pending') = n - k
  BY <1>1, <1>2, <1>3, SubSeqProperties
<1>5. \A i \in 1..(n - k) : pending'[i] = all[k + i]
  BY <1>1, <1>3
<1>6. ASSUME NEW i \in 1..(n - k) PROVE pending'[i].ranAt \in stamps(all)
  <2>1. k + i \in 1..n
    BY <1>1
  <2> QED BY <1>5, <2>1 DEF stamps, n
<1>7. dropped' = dropped \cup {all[i].ranAt : i \in 1..k}
  BY DEF Keep, k
<1>8. ASSUME NEW i \in 1..n PROVE all[i].ranAt \in stamps(pending') \cup dropped'
  <2>1. CASE i <= k
    BY <1>1, <1>7, <2>1
  <2>2. CASE i > k
    <3>1. i - k \in 1..(n - k) /\ pending'[i - k] = all[i]
      BY <1>1, <1>5, <2>2
    <3> QED BY <1>4, <3>1 DEF stamps
  <2> QED BY <1>1, <2>1, <2>2
<1>9. /\ stamps(pending') \subseteq stamps(all)
      /\ stamps(all) \subseteq stamps(pending') \cup dropped'
  BY <1>4, <1>6, <1>8 DEF stamps, n
<1>10. \A i \in 1..k : all[i].ranAt \in stamps(all)
  BY <1>1 DEF stamps, n
<1> QED BY <1>1, <1>4, <1>7, <1>9, <1>10

----------------------------------------------------------------------------
(* Slots.                                                                  *)

LEMMA SendTakesFree ==
  ASSUME NEW by, NEW request, Send(by, request)
  PROVE  \E h \in Slots :
           /\ free(h)
           /\ flight' = [flight EXCEPT ![h] = [by |-> by, request |-> request]]
           /\ wire' = [wire EXCEPT ![h] = request]
  BY DEF Send

LEMMA Kinds ==
  ASSUME TypeOK, NEW h \in Slots
  PROVE  /\ flight[h] # NoFlight => flight[h] \in Flight
         /\ carried(h, "request") => wire[h] \in Request
         /\ carried(h, "checks") => wire[h].list \in List
         /\ wire[h] # Nothing => \E k \in {"request", "checks", "ok", "refused"} : carried(h, k)
  BY DEF TypeOK, carried, Request, Reply

----------------------------------------------------------------------------
(* Every action keeps the invariant.                                       *)

LEMMA InitInv == ASSUME Init PROVE Inv
<1> USE WorkerAssumption DEF Init
<1>1. TypeOK
  <2>1. FirstDef \in Def
    BY DEF FirstDef, Def
  <2>2. clock \in 0..MaxRuns /\ losses \in 0..MaxLosses /\ edits \in 0..MaxEdits
    OBVIOUS
  <2> QED BY <2>1, <2>2 DEF TypeOK, Unlisted, List
<1>2. Stamped /\ Matched
  BY NoStamps DEF Stamped, Matched, carried
<1>3. LoopInv /\ NoResultLost /\ ChangeIsDue
  BY DEF LoopInv, byLoop, NoResultLost, ChangeIsDue, Unlisted
<1> QED BY <1>1, <1>2, <1>3 DEF Inv

LEMMA GetChecksInv == ASSUME Inv, NEW h \in Slots, GetChecks(h) PROVE Inv'
<1> USE WorkerAssumption DEF Inv, GetChecks
<1> DEFINE told == [c \in CheckIds |-> IF toldToRun(c) THEN checks[c].command ELSE NoCheck]
           answer == [kind |-> "checks", list |-> told]
<1>1. wire' = [wire EXCEPT ![h] = IF flight[h] = NoFlight THEN Nothing ELSE answer]
  BY DEF Answer
<1>2. answer \in Reply
  <2>1. told \in List
    BY DEF List, toldToRun, TypeOK, Def
  <2> QED BY <2>1 DEF Reply
<1>3. answer # Nothing /\ answer.kind = "checks"
  BY <1>2
<1> HIDE DEF answer
<1>4. TypeOK'
  BY <1>1, <1>2 DEF TypeOK, master, schedule, results, bounds
<1>5. Stamped' /\ LoopInv' /\ NoResultLost' /\ ChangeIsDue'
  <2>1. Stamped'
    BY <1>1, <1>3 DEF Stamped, TypeOK, carried, schedule, results, bounds
  <2>2. LoopInv' /\ ChangeIsDue'
    BY DEF LoopInv, byLoop, ChangeIsDue, schedule
  <2>3. NoResultLost'
    BY DEF NoResultLost, results, master, carries
  <2> QED BY <2>1, <2>2, <2>3
<1>6. flight[h] # NoFlight => flight[h].request.fetch
  BY DEF Matched, carried
<1>7. Matched'
  BY <1>1, <1>3, <1>6 DEF Matched, TypeOK, carried, master
<1> QED BY <1>4, <1>5, <1>7

LEMMA PostResultsInv == ASSUME Inv, NEW h \in Slots, PostResults(h) PROVE Inv'
<1> USE WorkerAssumption DEF Inv, PostResults
<1> DEFINE batch == wire[h].results
<1>1. PICK answer \in Reply :
        /\ wire' = [wire EXCEPT ![h] = IF flight[h] = NoFlight THEN Nothing ELSE answer]
        /\ answer # Nothing /\ answer.kind \in {"ok", "refused"}
        /\ heard \subseteq heard' /\ heard' \subseteq heard \cup stamps(batch)
        /\ answer.kind = "ok" => stamps(batch) \subseteq heard'
  <2>1. CASE Len(batch) > BodyLimit
    <3>1. [kind |-> "refused"] \in Reply
      BY DEF Reply
    <3> QED BY <2>1, <3>1 DEF Answer
  <2>2. CASE ~(Len(batch) > BodyLimit)
    <3>1. [kind |-> "ok"] \in Reply
      BY DEF Reply
    <3> QED BY <2>2, <3>1 DEF Answer, stamps
  <2> QED BY <2>1, <2>2
<1>2. batch \in Seq(Result)
  BY Kinds DEF Request
<1>3. lastRun' \in [CheckIds -> Nat]
  <2>1. \A i \in 1..Len(batch) : batch[i].ranAt \in Nat
    <3>1. \A i \in 1..Len(batch) : batch[i] \in Result
      BY <1>2, LenProperties
    <3> QED BY <3>1 DEF Result
  <2>2. ASSUME NEW c \in CheckIds, last(batch, c) # {}
        PROVE  batch[CHOOSE i \in last(batch, c) : TRUE].ranAt \in Nat
    BY <2>1, <2>2 DEF last
  <2>3. lastRun \in [CheckIds -> Nat]
    BY DEF TypeOK
  <2> QED BY <2>2, <2>3
<1>4. stamps(batch) \subseteq 1..clock
  BY DEF Stamped
<1>5. flight[h] # NoFlight => ~flight[h].request.fetch /\ flight[h].request.results = batch
  BY DEF Matched, carried
<1> HIDE DEF batch
<1>6. TypeOK'
  BY <1>1, <1>3, <1>4 DEF TypeOK, schedule, results, bounds
<1>7. Stamped' /\ LoopInv' /\ ChangeIsDue'
  BY <1>1 DEF Stamped, LoopInv, byLoop, ChangeIsDue, TypeOK, carried, schedule, results, bounds
<1>8. NoResultLost'
  BY <1>1 DEF NoResultLost, results, carries
<1>9. Matched'
  BY <1>1, <1>5 DEF Matched, TypeOK, carried
<1> QED BY <1>6, <1>7, <1>8, <1>9

(* What is under way can be lost, in one slot or in all.                   *)
LEMMA WireLost ==
  ASSUME Inv, UNCHANGED <<master, schedule, results, main, owed, flight, clock, edits>>,
         wire' \in [Slots -> Request \cup Reply \cup {Nothing}],
         \A g \in Slots : wire'[g] \in {wire[g], Nothing}, losses' \in 0..MaxLosses
  PROVE  Inv'
<1> USE DEF Inv, master, schedule, results
<1>1. TypeOK'
  BY DEF TypeOK
<1>2. Stamped' /\ LoopInv' /\ NoResultLost' /\ ChangeIsDue'
  BY DEF Stamped, LoopInv, byLoop, NoResultLost, ChangeIsDue, carried, carries
<1>3. Matched'
  BY DEF Matched, carried
<1> QED BY <1>1, <1>2, <1>3

LEMMA LoseInv == ASSUME Inv, NEW h \in Slots, Lose(h) PROVE Inv'
  BY WireLost, WorkerAssumption DEF Inv, TypeOK, Lose

LEMMA MasterRestartsInv == ASSUME Inv, MasterRestarts PROVE Inv'
  BY WireLost, WorkerAssumption DEF Inv, TypeOK, MasterRestarts

(* A request that is sent carries nothing that did not wait.               *)
LEMMA SentOK ==
  ASSUME Inv, NEW by \in {"loop", "run"}, NEW fetch \in BOOLEAN, NEW batch \in Seq(Result),
         Send(by, ask(fetch, batch)), stamps(batch) \subseteq stamps(pending),
         UNCHANGED <<master, schedule, done, dropped, bounds>>,
         pending' = pending \/ pending' = <<>>,
         main' \in {"free", "asking", "flush", "flushing"}, owed' \in Nat
  PROVE  /\ TypeOK' /\ Stamped' /\ Matched' /\ ChangeIsDue'
         /\ \E h \in Slots :
              /\ flight[h] = NoFlight
              /\ flight' = [flight EXCEPT ![h] = [by |-> by, request |-> ask(fetch, batch)]]
<1> USE DEF Inv, master, schedule, bounds
<1> DEFINE request == ask(fetch, batch)
           posted == [by |-> by, request |-> request]
<1>1. request \in Request /\ request.fetch = fetch /\ request.results = batch
      /\ request.kind = "request"
  BY DEF ask, Request
<1>2. posted \in Flight /\ posted.by = by /\ posted.request = request
  BY <1>1 DEF Flight
<1>3. PICK h \in Slots :
        free(h) /\ flight' = [flight EXCEPT ![h] = posted] /\ wire' = [wire EXCEPT ![h] = request]
  BY SendTakesFree
<1> HIDE DEF request, posted
<1>4. TypeOK'
  <2>1. pending' \in Seq(Result) /\ Len(pending') <= MaxPending
    <3>1. CASE pending' = pending
      BY <3>1 DEF TypeOK
    <3>2. CASE pending' = <<>>
      <4>1. <<>> \in Seq(Result) /\ Len(<<>>) = 0 /\ MaxPending \in Nat
        BY WorkerAssumption, EmptySeq
      <4> QED BY <3>2, <4>1
    <3> QED BY <3>1, <3>2
  <2> QED BY <1>1, <1>2, <1>3, <2>1 DEF TypeOK
<1>5. Stamped'
  <2>1. stamps(batch) \subseteq 1..clock /\ stamps(pending') \subseteq 1..clock
    BY NoStamps DEF Stamped
  <2> QED BY <1>1, <1>2, <1>3, <2>1 DEF Stamped, TypeOK, carried
<1>6. Matched'
  BY <1>1, <1>2, <1>3 DEF Matched, TypeOK, carried
<1>7. ChangeIsDue'
  BY DEF ChangeIsDue
<1> QED BY <1>3, <1>4, <1>5, <1>6, <1>7 DEF free, posted, request

(* Results that are taken are then in a slot.                              *)
LEMMA TakenOK ==
  ASSUME Inv, NEW by \in {"loop", "run"}, pending # <<>>, Take(by),
         UNCHANGED <<master, schedule, bounds>>,
         main' \in {"free", "asking", "flush", "flushing"}, owed' \in Nat
  PROVE  /\ TypeOK' /\ Stamped' /\ Matched' /\ ChangeIsDue' /\ NoResultLost'
         /\ \E h \in Slots :
              /\ flight[h] = NoFlight
              /\ flight' = [flight EXCEPT ![h] = [by |-> by, request |-> ask(FALSE, pending)]]
<1>1. pending \in Seq(Result)
  BY DEF Inv, TypeOK
<1>2. PICK h \in Slots :
        /\ flight[h] = NoFlight
        /\ flight' = [flight EXCEPT ![h] = [by |-> by, request |-> ask(FALSE, pending)]]
  BY <1>1, SentOK DEF Take
<1>3. TypeOK' /\ Stamped' /\ Matched' /\ ChangeIsDue'
  BY <1>1, SentOK DEF Take
<1>4. NoResultLost'
  <2> SUFFICES ASSUME NEW n \in done \ (heard \cup dropped)
               PROVE  \E g \in Slots : flight'[g] # NoFlight /\ carries(flight'[g].request.results, n)
    BY DEF NoResultLost, Take, master
  <2>1. flight \in [Slots -> Flight \cup {NoFlight}]
    BY DEF Inv, TypeOK
  <2>2. flight'[h] # NoFlight /\ flight'[h].request.results = pending
    <3>1. [by |-> by, request |-> ask(FALSE, pending)] \in Flight
      BY <1>1 DEF ask, Flight, Request
    <3> QED BY <1>2, <2>1, <3>1, WorkerAssumption DEF ask
  <2>3. CASE carries(pending, n)
    BY <2>2, <2>3
  <2>4. ASSUME NEW g \in Slots, flight[g] # NoFlight, carries(flight[g].request.results, n)
        PROVE  flight'[g] # NoFlight /\ carries(flight'[g].request.results, n)
    BY <1>2, <2>1, <2>4
  <2> QED BY <2>3, <2>4 DEF Inv, NoResultLost
<1> QED BY <1>2, <1>3, <1>4

LEMMA LoopFlushInv == ASSUME Inv, LoopFlush PROVE Inv'
<1> USE DEF Inv, LoopFlush
<1>1. CASE pending = <<>> /\ main' = "free" /\ UNCHANGED <<net, results>>
  BY <1>1 DEF TypeOK, Stamped, Matched, LoopInv, byLoop, NoResultLost, ChangeIsDue, carried,
              carries, master, schedule, results, net, bounds
<1>2. CASE pending # <<>> /\ main' = "flushing" /\ Take("loop")
  <2>1. owed' \in Nat
    BY DEF TypeOK
  <2>2. PICK h \in Slots :
          /\ flight[h] = NoFlight
          /\ flight' = [flight EXCEPT ![h] = [by |-> "loop", request |-> ask(FALSE, pending)]]
    BY <1>2, <2>1, TakenOK
  <2>3. [by |-> "loop", request |-> ask(FALSE, pending)] \in Flight
    BY DEF TypeOK, ask, Flight, Request
  <2>4. byLoop = {} /\ byLoop' = {h}
    BY <2>2, <2>3, WorkerAssumption DEF LoopInv, byLoop, TypeOK
  <2>5. LoopInv'
    BY <1>2, <2>2, <2>3, <2>4, WorkerAssumption DEF LoopInv, TypeOK, ask
  <2> QED BY <1>2, <2>1, <2>5, TakenOK
<1> QED BY <1>1, <1>2

LEMMA RunFlushInv == ASSUME Inv, RunFlush PROVE Inv'
<1> USE DEF Inv, RunFlush
<1>1. owed' \in Nat
  BY DEF TypeOK
<1>2. CASE pending = <<>> /\ UNCHANGED <<net, results>>
  BY <1>1, <1>2 DEF TypeOK, Stamped, Matched, LoopInv, byLoop, NoResultLost, ChangeIsDue,
                    carried, carries, master, schedule, results, net, bounds
<1>3. CASE pending # <<>> /\ Take("run")
  <2>1. main' \in {"free", "asking", "flush", "flushing"}
    BY DEF TypeOK
  <2>2. PICK h \in Slots :
          /\ flight[h] = NoFlight
          /\ flight' = [flight EXCEPT ![h] = [by |-> "run", request |-> ask(FALSE, pending)]]
    BY <1>1, <1>3, <2>1, TakenOK
  <2>3. [by |-> "run", request |-> ask(FALSE, pending)] \in Flight
    BY DEF TypeOK, ask, Flight, Request
  <2>4. byLoop' = byLoop
    BY <2>2, <2>3, WorkerAssumption DEF byLoop, TypeOK
  <2>5. ASSUME NEW g \in Slots, flight'[g] # NoFlight, g # h \/ flight'[g].request.fetch
        PROVE  flight'[g] = flight[g]
    BY <2>2, <2>3, <2>5 DEF TypeOK, ask
  <2>6. h \notin byLoop /\ ~flight'[h].request.fetch
    BY <2>2, <2>3 DEF byLoop, TypeOK, ask
  <2>7. LoopInv'
    <3>1. \A g \in Slots : flight'[g] # NoFlight /\ flight'[g].request.fetch =>
            g \in byLoop /\ main = "asking" /\ flight'[g].request.results = <<>>
      BY <2>5 DEF LoopInv
    <3>2. \A g \in byLoop : main = "asking" => flight'[g].request.fetch
      BY <2>5, <2>6, <2>4 DEF LoopInv, byLoop
    <3> QED BY <2>4, <3>1, <3>2 DEF LoopInv
  <2> QED BY <1>1, <1>3, <2>1, <2>7, TakenOK
<1> QED BY <1>2, <1>3

LEMMA RefreshInv == ASSUME Inv, Refresh PROVE Inv'
<1> USE DEF Inv, Refresh
<1>1. <<>> \in Seq(Result) /\ stamps(<<>>) \subseteq stamps(pending) /\ owed' \in Nat
  BY EmptySeq, NoStamps DEF TypeOK
<1>2. UNCHANGED <<done, dropped, pending>>
  BY DEF results
<1>3. PICK h \in Slots :
        /\ flight[h] = NoFlight
        /\ flight' = [flight EXCEPT ![h] = [by |-> "loop", request |-> ask(TRUE, <<>>)]]
  BY <1>1, <1>2, SentOK
<1>4. TypeOK' /\ Stamped' /\ Matched' /\ ChangeIsDue'
  BY <1>1, <1>2, SentOK
<1>5. [by |-> "loop", request |-> ask(TRUE, <<>>)] \in Flight
  BY <1>1 DEF ask, Flight, Request
<1>6. byLoop = {} /\ byLoop' = {h}
  BY <1>3, <1>5, WorkerAssumption DEF LoopInv, byLoop, TypeOK
<1>7. LoopInv'
  BY <1>3, <1>5, <1>6, WorkerAssumption DEF LoopInv, TypeOK, ask
<1>8. NoResultLost'
  BY <1>2, <1>3, <1>5, WorkerAssumption DEF NoResultLost, TypeOK, master
<1> QED BY <1>4, <1>7, <1>8

(* A goroutine that has its answer, or has given up, leaves its slot.      *)
LEMMA SlotLeft ==
  ASSUME Inv, NEW h \in Slots, flight[h] # NoFlight,
         flight' = [flight EXCEPT ![h] = NoFlight],
         \/ wire' = [wire EXCEPT ![h] = Nothing]
         \/ wire' = wire /\ carried(h, "request"),
         flight[h].by = "run" => main' = main,
         flight[h].by = "loop" => main' \in {"free", "flush"},
         UNCHANGED <<master, running, clock>>
  PROVE  /\ LoopInv' /\ Matched' /\ main' \in {"free", "asking", "flush", "flushing"}
         /\ flight' \in [Slots -> Flight \cup {NoFlight}]
         /\ wire' \in [Slots -> Request \cup Reply \cup {Nothing}]
         /\ stamps(pending') \subseteq 1..clock => Stamped'
<1> USE DEF Inv, master
<1>1. flight[h].by \in {"loop", "run"}
  BY Kinds DEF Flight
<1>2. \A g \in Slots : flight'[g] = IF g = h THEN NoFlight ELSE flight[g]
  BY DEF TypeOK
<1>3. byLoop' = byLoop \ {h}
  BY <1>2 DEF byLoop
<1>4. LoopInv'
  <2>1. CASE flight[h].by = "run"
    <3>1. h \notin byLoop
      BY <2>1 DEF byLoop
    <3> QED BY <1>2, <1>3, <2>1, <3>1 DEF LoopInv, byLoop
  <2>2. CASE flight[h].by = "loop"
    <3>1. byLoop = {h}
      BY <2>2 DEF LoopInv, byLoop
    <3>2. byLoop' = {}
      BY <1>3, <3>1
    <3>3. \A g \in Slots : flight'[g] # NoFlight => ~flight'[g].request.fetch
      BY <1>2, <3>1 DEF LoopInv
    <3> QED BY <2>2, <3>2, <3>3 DEF LoopInv
  <2> QED BY <1>1, <2>1, <2>2
<1>5. flight' \in [Slots -> Flight \cup {NoFlight}]
      /\ wire' \in [Slots -> Request \cup Reply \cup {Nothing}]
  BY DEF TypeOK
<1>6. \A g \in Slots : wire'[g] = wire[g] \/ wire'[g] = Nothing
  BY DEF TypeOK
<1>7. wire'[h] = Nothing \/ wire'[h].kind = "request"
  BY DEF TypeOK, carried
<1>8. Matched'
  BY <1>2, <1>6, <1>7 DEF Matched, carried
<1>9. stamps(pending') \subseteq 1..clock => Stamped'
  BY <1>2, <1>6 DEF Stamped, carried
<1>10. main' \in {"free", "asking", "flush", "flushing"}
  BY <1>1 DEF TypeOK
<1> QED BY <1>4, <1>5, <1>8, <1>9, <1>10

LEMMA RefreshedInv == ASSUME Inv, NEW h \in Slots, Refreshed(h) PROVE Inv'
<1> USE DEF Inv, Refreshed
<1>1. flight[h].request.fetch /\ flight[h].by = "loop" /\ flight[h].request.results = <<>>
  BY DEF Matched, LoopInv, byLoop
<1>2. wire[h].list \in List
  BY Kinds
<1>3. /\ LoopInv' /\ Matched' /\ Stamped' /\ main' \in {"free", "asking", "flush", "flushing"}
      /\ flight' \in [Slots -> Flight \cup {NoFlight}]
      /\ wire' \in [Slots -> Request \cup Reply \cup {Nothing}]
  <2>1. stamps(pending') \subseteq 1..clock
    BY DEF Stamped, results
  <2> QED BY <1>1, <2>1, SlotLeft DEF bounds
<1>4. due' \in [CheckIds -> BOOLEAN]
  BY DEF newlyDue, TypeOK
<1>5. TypeOK'
  BY <1>2, <1>3, <1>4 DEF TypeOK, master, results, bounds
<1>6. ChangeIsDue'
  <2> SUFFICES ASSUME NEW c \in CheckIds, listed'[c] \notin {NoCheck, started[c]}
               PROVE  newlyDue(c, wire[h].list)
    BY DEF ChangeIsDue
  <2> QED BY DEF ChangeIsDue, newlyDue
<1>7. NoResultLost'
  <2> SUFFICES ASSUME NEW n \in done \ (heard \cup dropped), ~carries(pending, n)
               PROVE  \E g \in Slots : flight'[g] # NoFlight /\ carries(flight'[g].request.results, n)
    BY DEF NoResultLost, results, master
  <2>1. PICK g \in Slots : flight[g] # NoFlight /\ carries(flight[g].request.results, n)
    BY DEF NoResultLost
  <2>2. g # h
    BY <1>1, <2>1, CarriesStamps, NoStamps
  <2> QED BY <2>1, <2>2 DEF TypeOK
<1> QED BY <1>3, <1>5, <1>6, <1>7

LEMMA FlushedInv == ASSUME Inv, NEW h \in Slots, Flushed(h) PROVE Inv'
<1> USE DEF Inv, Flushed
<1>1. ~flight[h].request.fetch /\ stamps(flight[h].request.results) \subseteq heard
  BY DEF Matched
<1>2. /\ LoopInv' /\ Matched' /\ Stamped' /\ main' \in {"free", "asking", "flush", "flushing"}
      /\ flight' \in [Slots -> Flight \cup {NoFlight}]
      /\ wire' \in [Slots -> Request \cup Reply \cup {Nothing}]
  <2>1. stamps(pending') \subseteq 1..clock
    BY DEF Stamped, results
  <2> QED BY <1>1, <2>1, SlotLeft DEF bounds, schedule, afterwards
<1>3. TypeOK' /\ ChangeIsDue'
  BY <1>2 DEF TypeOK, ChangeIsDue, master, schedule, results, bounds
<1>4. NoResultLost'
  <2> SUFFICES ASSUME NEW n \in done \ (heard \cup dropped), ~carries(pending, n)
               PROVE  \E g \in Slots : flight'[g] # NoFlight /\ carries(flight'[g].request.results, n)
    BY DEF NoResultLost, results, master
  <2>1. PICK g \in Slots : flight[g] # NoFlight /\ carries(flight[g].request.results, n)
    BY DEF NoResultLost
  <2>2. g # h
    BY <1>1, <2>1, CarriesStamps
  <2> QED BY <2>1, <2>2 DEF TypeOK
<1> QED BY <1>2, <1>3, <1>4

LEMMA GiveUpInv ==
  ASSUME Inv, NEW h \in Slots, flight[h] # NoFlight, GiveUp(h), losses' \in 0..MaxLosses,
         \/ wire' = [wire EXCEPT ![h] = Nothing]
         \/ wire' = wire /\ carried(h, "request")
  PROVE  Inv'
<1> USE DEF Inv, GiveUp
<1> DEFINE batch == flight[h].request.results
           all == requeued(batch)
<1>1. batch \in Seq(Result) /\ pending \in Seq(Result)
      /\ flight[h].request.fetch \in BOOLEAN
  BY Kinds DEF Flight, Request, TypeOK
<1>2. all \in Seq(Result) /\ stamps(all) = stamps(batch) \cup stamps(pending)
  BY <1>1, StampsJoined DEF requeued
<1>3. stamps(all) \subseteq 1..clock
  BY <1>2 DEF Stamped
<1>4. flight[h].request.fetch => batch = <<>>
  BY DEF LoopInv
<1> HIDE DEF batch, all
<1>5. /\ pending' \in Seq(Result) /\ Len(pending') <= MaxPending
      /\ stamps(pending') \subseteq 1..clock
      /\ dropped \subseteq dropped' /\ dropped' \subseteq 1..clock
      /\ stamps(batch) \cup stamps(pending) \subseteq stamps(pending') \cup dropped'
  <2>1. CASE flight[h].request.fetch
    BY <1>4, <2>1, NoStamps DEF TypeOK, Stamped
  <2>2. CASE ~flight[h].request.fetch
    <3>1. Keep(all)
      BY <2>2 DEF all, batch
    <3> QED BY <1>2, <1>3, <3>1, KeepOK DEF TypeOK
  <2> QED BY <1>1, <2>1, <2>2
<1>6. /\ LoopInv' /\ Matched' /\ Stamped' /\ main' \in {"free", "asking", "flush", "flushing"}
      /\ flight' \in [Slots -> Flight \cup {NoFlight}]
      /\ wire' \in [Slots -> Request \cup Reply \cup {Nothing}]
  BY <1>5, SlotLeft DEF schedule, afterwards
<1>7. TypeOK' /\ ChangeIsDue'
  BY <1>5, <1>6 DEF TypeOK, ChangeIsDue, master, schedule
<1>8. NoResultLost'
  <2> SUFFICES ASSUME NEW n \in done \ (heard \cup dropped'), ~carries(pending', n)
               PROVE  \E g \in Slots : flight'[g] # NoFlight /\ carries(flight'[g].request.results, n)
    BY DEF NoResultLost, master
  <2>1. n \notin stamps(batch) /\ ~carries(pending, n)
    BY <1>5, CarriesStamps
  <2>2. PICK g \in Slots : flight[g] # NoFlight /\ carries(flight[g].request.results, n)
    BY <1>5, <2>1 DEF NoResultLost
  <2>3. g # h
    BY <2>1, <2>2, CarriesStamps DEF batch
  <2> QED BY <2>2, <2>3 DEF TypeOK
<1> QED BY <1>6, <1>7, <1>8

LEMMA FailedInv == ASSUME Inv, NEW h \in Slots, Failed(h) PROVE Inv'
  BY GiveUpInv DEF Failed, Inv, TypeOK

LEMMA TimeOutInv == ASSUME Inv, NEW h \in Slots, TimeOut(h) PROVE Inv'
<1>1. losses' \in 0..MaxLosses
  BY WorkerAssumption DEF TimeOut, Inv, TypeOK
<1> QED BY <1>1, GiveUpInv DEF TimeOut

LEMMA FallDueInv == ASSUME Inv, NEW c \in CheckIds, FallDue(c) PROVE Inv'
<1> USE DEF Inv, FallDue, master, results, net, bounds
<1>1. TypeOK' /\ ChangeIsDue'
  BY DEF TypeOK, ChangeIsDue
<1>2. Stamped' /\ Matched' /\ LoopInv' /\ NoResultLost'
  BY DEF Stamped, Matched, LoopInv, byLoop, NoResultLost, carried, carries
<1> QED BY <1>1, <1>2

LEMMA StartDueInv == ASSUME Inv, StartDue PROVE Inv'
<1> USE DEF Inv, StartDue, master, results, net, bounds
<1>1. \A c \in startable : listed[c] \in Commands
  BY DEF startable, TypeOK, List
<1>2. \A c \in startable : [command |-> listed[c], begun |-> FALSE, ranAt |-> 0] \in Run
  BY <1>1 DEF Run
<1>3. TypeOK'
  <2>1. due' \in [CheckIds -> BOOLEAN]
    BY DEF TypeOK
  <2>2. started' \in List
    BY <1>1 DEF TypeOK, List
  <2>3. running' \in [CheckIds -> Run \cup {NoRun}]
    BY <1>2 DEF TypeOK
  <2> QED BY <2>1, <2>2, <2>3 DEF TypeOK
<1>4. ChangeIsDue'
  BY DEF ChangeIsDue, TypeOK
<1>5. Matched' /\ LoopInv' /\ NoResultLost'
  BY DEF Matched, LoopInv, byLoop, NoResultLost, carried, carries
<1>6. Stamped'
  BY DEF Stamped, carried
<1> QED BY <1>3, <1>4, <1>5, <1>6

LEMMA ExecuteInv == ASSUME Inv, NEW c \in CheckIds, Execute(c) PROVE Inv'
<1> USE DEF Inv, Execute, master, results, net
<1>1. clock' = clock + 1 /\ clock' \in 0..MaxRuns /\ 1..clock \subseteq 1..clock'
      /\ clock' \in 1..clock' /\ clock' \in Nat
  BY WorkerAssumption DEF TypeOK
<1>2. running[c] \in Run
  BY DEF TypeOK
<1>3. running' = [running EXCEPT ![c] = [running[c] EXCEPT !.begun = TRUE, !.ranAt = clock']]
  BY DEF TypeOK
<1>4. [running[c] EXCEPT !.begun = TRUE, !.ranAt = clock'] \in Run
  BY <1>1, <1>2 DEF Run
<1>5. TypeOK'
  BY <1>1, <1>3, <1>4 DEF TypeOK
<1>6. Stamped'
  <2>1. [running[c] EXCEPT !.begun = TRUE, !.ranAt = clock'].ranAt = clock'
    BY <1>2 DEF Run
  <2>2. \A d \in CheckIds : running'[d] # NoRun /\ running'[d].begun =>
          running'[d].ranAt \in 1..clock'
    BY <1>1, <1>3, <2>1 DEF Stamped, TypeOK
  <2>3. stamps(pending) \subseteq 1..clock'
        /\ \A h \in Slots : flight[h] # NoFlight =>
             stamps(flight[h].request.results) \subseteq 1..clock'
    BY <1>1 DEF Stamped
  <2>4. \A h \in Slots : carried(h, "request") => stamps(wire[h].results) \subseteq 1..clock'
    BY <1>1 DEF Stamped
  <2> QED BY <2>2, <2>3, <2>4 DEF Stamped, carried
<1>7. ChangeIsDue' /\ Matched' /\ LoopInv' /\ NoResultLost'
  BY DEF ChangeIsDue, Matched, LoopInv, byLoop, NoResultLost, carried, carries
<1> QED BY <1>5, <1>6, <1>7

LEMMA FinishInv == ASSUME Inv, NEW c \in CheckIds, Finish(c) PROVE Inv'
<1> USE DEF Inv, Finish, master, net, bounds
<1> DEFINE result == [check |-> c, ranAt |-> running[c].ranAt]
           all == Append(pending, result)
<1>1. running[c] \in Run /\ running[c].ranAt \in 1..clock
  BY DEF begun, TypeOK, Stamped
<1>2. pending \in Seq(Result) /\ result \in Result /\ result.ranAt = running[c].ranAt
  BY <1>1 DEF TypeOK, Result, Run
<1>3. all \in Seq(Result) /\ stamps(all) = stamps(pending) \cup {running[c].ranAt}
  BY <1>2, StampsAppended
<1>4. stamps(all) \subseteq 1..clock
  BY <1>1, <1>3 DEF Stamped
<1> HIDE DEF all, result
<1>5. Keep(all)
  BY DEF all, result
<1>6. /\ pending' \in Seq(Result) /\ Len(pending') <= MaxPending
      /\ stamps(pending') \subseteq 1..clock
      /\ dropped \subseteq dropped' /\ dropped' \subseteq dropped \cup 1..clock
      /\ stamps(all) \subseteq stamps(pending') \cup dropped'
  BY <1>3, <1>4, <1>5, KeepOK
<1>7. TypeOK'
  BY <1>1, <1>6 DEF TypeOK
<1>8. Stamped'
  BY <1>6 DEF Stamped, TypeOK, carried
<1>9. ChangeIsDue' /\ Matched' /\ LoopInv'
  BY DEF ChangeIsDue, Matched, LoopInv, byLoop, carried
<1>10. NoResultLost'
  <2> SUFFICES ASSUME NEW n \in done' \ (heard \cup dropped'), ~carries(pending', n)
               PROVE  \E g \in Slots : flight[g] # NoFlight /\ carries(flight[g].request.results, n)
    BY DEF NoResultLost
  <2>1. n \notin stamps(all)
    BY <1>6, CarriesStamps
  <2>2. n \in done /\ ~carries(pending, n)
    BY <1>3, <2>1, CarriesStamps
  <2> QED BY <1>6, <2>2 DEF NoResultLost
<1> QED BY <1>7, <1>8, <1>9, <1>10

LEMMA EditInv == ASSUME Inv, NEW c \in CheckIds, Edit(c) PROVE Inv'
<1> USE DEF Inv, Edit, schedule, results, net
<1>1. edits' \in 0..MaxEdits
  BY WorkerAssumption DEF TypeOK
<1>2. TypeOK'
  BY <1>1 DEF TypeOK
<1>3. Stamped' /\ Matched' /\ LoopInv' /\ NoResultLost' /\ ChangeIsDue'
  BY DEF Stamped, Matched, LoopInv, byLoop, NoResultLost, ChangeIsDue, carried, carries
<1> QED BY <1>2, <1>3

LEMMA WorkerRestartsInv == ASSUME Inv, WorkerRestarts PROVE Inv'
<1> USE DEF Inv, WorkerRestarts, master
<1>1. losses' \in 0..MaxLosses /\ Unlisted \in List
  BY WorkerAssumption DEF TypeOK, Unlisted, List
<1>2. TypeOK'
  <2>1. pending' \in Seq(Result) /\ Len(pending') <= MaxPending
    BY WorkerAssumption, EmptySeq
  <2> QED BY <1>1, <2>1 DEF TypeOK
<1>3. Stamped'
  BY NoStamps DEF Stamped, carried
<1>4. Matched'
  BY DEF Matched, carried
<1>5. LoopInv' /\ NoResultLost' /\ ChangeIsDue'
  BY DEF LoopInv, byLoop, NoResultLost, ChangeIsDue, Unlisted
<1> QED BY <1>2, <1>3, <1>4, <1>5

LEMMA NextInv == ASSUME Inv, [Next]_vars PROVE Inv'
<1>1. CASE UNCHANGED vars
  BY <1>1 DEF Inv, vars, master, schedule, results, net, bounds, TypeOK, Stamped, Matched,
              LoopInv, byLoop, NoResultLost, ChangeIsDue, carried, carries
<1> QED BY <1>1, GetChecksInv, PostResultsInv, LoseInv, RefreshedInv, FlushedInv, FailedInv,
           TimeOutInv, LoopFlushInv, RunFlushInv, RefreshInv, StartDueInv, FallDueInv,
           ExecuteInv, FinishInv, EditInv, MasterRestartsInv, WorkerRestartsInv DEF Next

(* The inductive invariant of the daemon: what requests carry is what the  *)
(* loop and the runs wait for, however messages are lost and workers stop. *)
THEOREM WorkerInvariant == Spec => []Inv
<1>1. Init => Inv
  BY InitInv
<1>2. Inv /\ [Next]_vars => Inv'
  BY NextInv
<1> QED BY <1>1, <1>2, PTL DEF Spec

(* The scheduler's fields, the requests and the wire keep their types.     *)
THEOREM WorkerTypes == Spec => []TypeOK
  BY WorkerInvariant, PTL DEF Inv

(* However requests fail and goroutines interleave, the result of a run    *)
(* that has ended waits, is held, was recorded, or was cut at the limit.   *)
THEOREM ResultsAreKept == Spec => []NoResultLost
  BY WorkerInvariant, PTL DEF Inv

(* A check whose command is not the one it was last started with is due.   *)
THEOREM ChangesStayDue == Spec => []ChangeIsDue
  BY WorkerInvariant, PTL DEF Inv

(* The loop has one request of its own under way while it waits, and none  *)
(* when it goes on.                                                        *)
THEOREM LoopNeverStuck == Spec => []LoopWaitsForOne
<1>1. Inv => LoopWaitsForOne
  <2> SUFFICES ASSUME Inv PROVE LoopWaitsForOne
    OBVIOUS
  <2>1. CASE main \in {"asking", "flushing"}
    BY <2>1, FS_Singleton DEF Inv, LoopInv, LoopWaitsForOne, byLoop
  <2>2. CASE main \notin {"asking", "flushing"}
    BY <2>2, FS_EmptySet DEF Inv, LoopInv, LoopWaitsForOne, byLoop
  <2> QED BY <2>1, <2>2
<1> QED BY <1>1, WorkerInvariant, PTL

----------------------------------------------------------------------------
(* The outbox.  A result is in one place only, the list or one goroutine,  *)
(* however often it is under way; so what is recorded or cut is gone from  *)
(* the worker, and MaxPending results are as many different ones.          *)
distinct(batch) == \A i, j \in 1..Len(batch) : batch[i].ranAt = batch[j].ranAt => i = j

held(h) == IF flight[h] = NoFlight THEN {} ELSE stamps(flight[h].request.results)
onWire(h) == IF carried(h, "request") THEN stamps(wire[h].results) ELSE {}

HeldOnce ==
  /\ distinct(pending)
  /\ \A h \in Slots : flight[h] # NoFlight => distinct(flight[h].request.results)
  /\ \A h \in Slots : held(h) \cap stamps(pending) = {}
  /\ \A h, g \in Slots : h # g => held(h) \cap held(g) = {}

(* The number of a run that has begun is nowhere yet, and no other run's.  *)
known == kept \cup sent \cup heard \cup dropped
hasBegun(c) == running[c] # NoRun /\ running[c].begun

RunsAreNew ==
  /\ \A c \in CheckIds : hasBegun(c) => running[c].ranAt \notin known
  /\ \A c, d \in CheckIds :
       hasBegun(c) /\ hasBegun(d) /\ running[c].ranAt = running[d].ranAt => c = d

OutboxInv == Inv /\ HeldOnce /\ RunsAreNew

LEMMA KeptIs == kept = stamps(pending) \cup UNION {held(h) : h \in Slots}
  BY DEF kept, held

LEMMA KeptWillBe == kept' = stamps(pending') \cup UNION {held(h)' : h \in Slots}
  BY DEF kept, held, stamps

LEMMA SentIs == sent = UNION {onWire(h) : h \in Slots}
  BY DEF sent, onWire

LEMMA SentWillBe == sent' = UNION {onWire(h)' : h \in Slots}
  BY DEF sent, onWire, carried, stamps

(* Distinct results in a list are as many as the list is long.             *)
LEMMA DistinctCount ==
  ASSUME NEW batch \in Seq(Result), distinct(batch)
  PROVE  IsFiniteSet(stamps(batch)) /\ Cardinality(stamps(batch)) = Len(batch)
<1> DEFINE n == Len(batch)
           f == [i \in 1..n |-> batch[i].ranAt]
<1>1. n \in Nat
  BY LenProperties
<1>2. f \in Bijection(1..n, stamps(batch))
  <2>1. f \in Surjection(1..n, stamps(batch))
    BY DEF stamps, Surjection
  <2>2. f \in Injection(1..n, stamps(batch))
    BY <2>1 DEF distinct, Surjection, Injection, IsInjective
  <2> QED BY <2>1, <2>2 DEF Bijection
<1> HIDE DEF f, n
<1>3. IsFiniteSet(1..n) /\ Cardinality(1..n) = n
  BY <1>1, FS_Interval
<1>4. IsFiniteSet(stamps(batch)) /\ Cardinality(stamps(batch)) = n
  BY <1>2, <1>3, FS_Bijection DEF ExistsBijection
<1> QED BY <1>4 DEF n

LEMMA DistinctJoined ==
  ASSUME NEW a \in Seq(Result), NEW b \in Seq(Result), distinct(a), distinct(b),
         stamps(a) \cap stamps(b) = {}
  PROVE  distinct(a \o b)
<1>1. Len(a) \in Nat /\ Len(b) \in Nat /\ Len(a \o b) = Len(a) + Len(b)
  BY ConcatProperties, LenProperties
<1>2. \A i \in 1..Len(a) + Len(b) :
        (a \o b)[i] = IF i <= Len(a) THEN a[i] ELSE b[i - Len(a)]
  BY ConcatProperties
<1>3. ASSUME NEW i \in 1..Len(a) + Len(b), NEW j \in 1..Len(a) + Len(b),
             (a \o b)[i].ranAt = (a \o b)[j].ranAt
      PROVE  i = j
  <2>1. CASE i <= Len(a) /\ j <= Len(a)
    BY <1>1, <1>2, <1>3, <2>1 DEF distinct
  <2>2. CASE i > Len(a) /\ j > Len(a)
    <3>1. i - Len(a) \in 1..Len(b) /\ j - Len(a) \in 1..Len(b)
          /\ b[i - Len(a)].ranAt = b[j - Len(a)].ranAt
      BY <1>1, <1>2, <1>3, <2>2
    <3>2. i - Len(a) = j - Len(a)
      BY <3>1 DEF distinct
    <3> QED BY <1>1, <3>2
  <2>3. CASE i <= Len(a) /\ j > Len(a)
    <3>1. i \in 1..Len(a) /\ j - Len(a) \in 1..Len(b) /\ a[i].ranAt = b[j - Len(a)].ranAt
      BY <1>1, <1>2, <1>3, <2>3
    <3> QED BY <3>1 DEF stamps
  <2>4. CASE i > Len(a) /\ j <= Len(a)
    <3>1. j \in 1..Len(a) /\ i - Len(a) \in 1..Len(b) /\ a[j].ranAt = b[i - Len(a)].ranAt
      BY <1>1, <1>2, <1>3, <2>4
    <3> QED BY <3>1 DEF stamps
  <2> QED BY <1>1, <2>1, <2>2, <2>3, <2>4
<1> QED BY <1>1, <1>3 DEF distinct

(* What Keep cuts it cuts for good, and only to keep MaxPending others.    *)
cutFrom(all) == {all[i].ranAt : i \in 1..over(all)}

LEMMA KeepCuts ==
  ASSUME NEW all \in Seq(Result), distinct(all), Keep(all)
  PROVE  /\ distinct(pending)'
         /\ cutFrom(all) \subseteq stamps(all)
         /\ stamps(pending') = stamps(all) \ cutFrom(all)
         /\ dropped' = dropped \cup cutFrom(all)
         /\ cutFrom(all) # {} => Cardinality(stamps(pending')) = MaxPending
<1> DEFINE k == over(all)
           n == Len(all)
<1> USE WorkerAssumption
<1>1. n \in Nat /\ k \in 0..n /\ (k > 0 => n - k = MaxPending)
  BY LenProperties DEF over
<1>2. \A i \in 1..n : all[i] \in Result
  BY LenProperties
<1>3. pending' = SubSeq(all, k + 1, n)
  BY DEF Keep
<1>4. \A i, j \in 1..n : all[i].ranAt = all[j].ranAt => i = j
  BY DEF distinct
<1>5. cutFrom(all) = {all[i].ranAt : i \in 1..k} /\ stamps(all) = {all[i].ranAt : i \in 1..n}
  BY DEF cutFrom, stamps
<1> HIDE DEF k, n
<1>6. pending' \in Seq(Result) /\ Len(pending') = n - k
  BY <1>1, <1>2, <1>3, SubSeqProperties
<1>7. \A i \in 1..(n - k) : pending'[i] = all[k + i] /\ k + i \in 1..n
  BY <1>1, <1>3
<1>8. stamps(pending') = {all[k + i].ranAt : i \in 1..(n - k)}
  BY <1>6, <1>7 DEF stamps
<1>9. distinct(pending)'
  <2> SUFFICES ASSUME NEW i \in 1..(n - k), NEW j \in 1..(n - k),
                      all[k + i].ranAt = all[k + j].ranAt
               PROVE  i = j
    BY <1>6, <1>7 DEF distinct
  <2>1. k + i = k + j
    BY <1>4, <1>7
  <2> QED BY <1>1, <2>1
<1>10. stamps(pending') = stamps(all) \ cutFrom(all)
  <2>1. ASSUME NEW i \in 1..(n - k) PROVE all[k + i].ranAt \in stamps(all) \ cutFrom(all)
    <3>1. k + i \in 1..n /\ k + i \notin 1..k
      BY <1>1
    <3>2. \A j \in 1..k : j \in 1..n
      BY <1>1
    <3> QED BY <1>4, <1>5, <3>1, <3>2
  <2>2. ASSUME NEW i \in 1..n, i \notin 1..k PROVE all[i].ranAt \in stamps(pending')
    <3>1. i - k \in 1..(n - k) /\ k + (i - k) = i
      BY <1>1, <2>2
    <3> QED BY <1>8, <3>1
  <2> QED BY <1>5, <1>8, <2>1, <2>2
<1>11. cutFrom(all) \subseteq stamps(all)
  <2>1. 1..k \subseteq 1..n
    BY <1>1
  <2> QED BY <1>5, <2>1
<1>12. dropped' = dropped \cup cutFrom(all)
  BY DEF Keep, cutFrom
<1>13. ASSUME cutFrom(all) # {} PROVE Cardinality(stamps(pending')) = MaxPending
  <2>1. k > 0
    BY <1>1, <1>5, <1>13
  <2>2. Cardinality(stamps(pending)') = Len(pending')
    BY <1>6, <1>9, DistinctCount DEF distinct, stamps
  <2> QED BY <1>1, <1>6, <2>1, <2>2 DEF stamps
<1> QED BY <1>9, <1>10, <1>11, <1>12, <1>13

----------------------------------------------------------------------------
(* Every step of the worker is one of the outbox, or none.                 *)

LEMMA SameCount == \A S : Promise!Cardinality(S) = Cardinality(S)
  BY DEF Cardinality, Promise!Cardinality

(* A step of the outbox in which nothing is produced.                      *)
Quiet ==
  \/ UNCHANGED <<kept, sent, heard, dropped>>
  \/ \E batch \in SUBSET kept : Promise!Cut(batch) \/ Promise!Send(batch) \/ Promise!Forget(batch)
  \/ \E batch \in SUBSET sent : Promise!Record(batch)
  \/ Promise!Lose \/ Promise!Restart

LEMMA QuietSteps == ASSUME Quiet PROVE [Promise!Next]_(Promise!vars) /\ known' \subseteq known
<1>1. [Promise!Next]_(Promise!vars)
  BY DEF Quiet, Promise!Next, Promise!vars
<1>2. known' \subseteq known
  BY DEF Quiet, known, Promise!Cut, Promise!GivesUp, Promise!Send, Promise!Forget,
         Promise!Record, Promise!Lose, Promise!Restart
<1> QED BY <1>1, <1>2

(* Only what is under way changes: nothing is held anew.                   *)
LEMMA SameHeld ==
  ASSUME UNCHANGED <<pending, flight>>
  PROVE  kept' = kept /\ (HeldOnce => HeldOnce')
<1>1. kept' = kept
  BY DEF kept
<1>2. ASSUME HeldOnce PROVE HeldOnce'
  BY <1>2 DEF HeldOnce, held, distinct
<1> QED BY <1>1, <1>2

LEMMA LessSent ==
  ASSUME \A g \in Slots : wire'[g] = wire[g] \/ wire'[g] = Nothing \/ wire'[g].kind # "request"
  PROVE  sent' \subseteq sent
<1>1. \A g \in Slots : onWire(g)' \subseteq onWire(g)
  BY DEF onWire, carried
<1> QED BY <1>1, SentIs, SentWillBe

LEMMA SameSent ==
  ASSUME \A g \in Slots : \/ wire'[g] = wire[g]
                          \/ ~carried(g, "request") /\ ~carried(g, "request")'
  PROVE  sent' = sent
<1>1. \A g \in Slots : onWire(g)' = onWire(g)
  BY DEF onWire, carried
<1> QED BY <1>1, SentIs, SentWillBe

(* What the theorems below show of each action that ends no run.           *)
Kept == Quiet /\ HeldOnce'

LEMMA GetChecksKept == ASSUME OutboxInv, NEW h \in Slots, GetChecks(h) PROVE Kept
<1>1. kept' = kept /\ HeldOnce'
  BY SameHeld DEF GetChecks, results, OutboxInv
<1>2. sent' \subseteq sent
  <2>1. PICK a : a = [kind |-> "checks", list |->
          [c \in CheckIds |-> IF toldToRun(c) THEN checks[c].command ELSE NoCheck]]
    OBVIOUS
  <2>2. a.kind # "request"
    BY <2>1
  <2>3. wire' = [wire EXCEPT ![h] = IF flight[h] = NoFlight THEN Nothing ELSE a]
    BY <2>1 DEF GetChecks, Answer
  <2>4. \A g \in Slots : wire'[g] = wire[g] \/ wire'[g] = Nothing \/ wire'[g].kind # "request"
    BY <2>2, <2>3 DEF OutboxInv, Inv, TypeOK
  <2> QED BY <2>4, LessSent
<1>3. Promise!Lose
  BY <1>1, <1>2 DEF Promise!Lose, GetChecks, results, master
<1> QED BY <1>1, <1>3 DEF Kept, Quiet

LEMMA WireLostKept ==
  ASSUME OutboxInv, UNCHANGED <<pending, dropped, heard, flight>>,
         \A g \in Slots : wire'[g] \in {wire[g], Nothing}
  PROVE  Kept
<1>1. kept' = kept /\ HeldOnce'
  BY SameHeld DEF OutboxInv
<1>2. sent' \subseteq sent
  BY LessSent
<1>3. Promise!Lose
  BY <1>1, <1>2 DEF Promise!Lose
<1> QED BY <1>1, <1>3 DEF Kept, Quiet

LEMMA LoseKept == ASSUME OutboxInv, NEW h \in Slots, Lose(h) PROVE Kept
  BY WireLostKept DEF Lose, OutboxInv, Inv, TypeOK, results, master

LEMMA MasterRestartsKept == ASSUME OutboxInv, MasterRestarts PROVE Kept
  BY WireLostKept DEF MasterRestarts, results, master

LEMMA PostResultsKept == ASSUME OutboxInv, NEW h \in Slots, PostResults(h) PROVE Kept
<1> DEFINE batch == wire[h].results
<1>1. kept' = kept /\ HeldOnce'
  BY SameHeld DEF PostResults, results, OutboxInv
<1>2. PICK a :
        /\ a.kind # "request"
        /\ wire' = [wire EXCEPT ![h] = IF flight[h] = NoFlight THEN Nothing ELSE a]
        /\ heard' = heard \/ heard' = heard \cup stamps(batch)
  <2>1. CASE Len(batch) > BodyLimit
    <3>1. PICK a : a = [kind |-> "refused"]
      OBVIOUS
    <3>2. a.kind # "request"
      BY <3>1
    <3> QED BY <2>1, <3>1, <3>2 DEF PostResults, Answer
  <2>2. CASE ~(Len(batch) > BodyLimit)
    <3>1. PICK a : a = [kind |-> "ok"]
      OBVIOUS
    <3>2. a.kind # "request"
      BY <3>1
    <3> QED BY <2>2, <3>1, <3>2 DEF PostResults, Answer
  <2> QED BY <2>1, <2>2
<1>3. \A g \in Slots : IF g = h THEN wire'[g] = Nothing \/ wire'[g].kind # "request"
                                ELSE wire'[g] = wire[g]
  BY <1>2 DEF OutboxInv, Inv, TypeOK
<1>4. sent' \subseteq sent
  BY <1>3, LessSent
<1>5. stamps(batch) = onWire(h)
  BY DEF PostResults, onWire
<1>6. sent \ stamps(batch) \subseteq sent'
  <2>1. \A g \in Slots : g # h => onWire(g)' = onWire(g)
    BY <1>3 DEF onWire, carried
  <2> QED BY <1>5, <2>1, SentIs, SentWillBe
<1>7. stamps(batch) \subseteq sent
  BY <1>5, SentIs
<1>8. dropped' = dropped
  BY DEF PostResults, results
<1> HIDE DEF batch
<1>9. Promise!Lose \/ Promise!Record(stamps(batch))
  BY <1>1, <1>2, <1>4, <1>6, <1>8 DEF Promise!Lose, Promise!Record
<1> QED BY <1>1, <1>7, <1>9 DEF Kept, Quiet

(* A request that is sent is held by its goroutine and is under way.       *)
LEMMA SentHeld ==
  ASSUME OutboxInv, NEW by \in {"loop", "run"}, NEW fetch \in BOOLEAN,
         NEW batch \in Seq(Result), Send(by, ask(fetch, batch))
  PROVE  \E h \in Slots :
           /\ held(h) = {} /\ onWire(h) = {}
           /\ \A g \in Slots :
                /\ held(g)' = IF g = h THEN stamps(batch) ELSE held(g)
                /\ onWire(g)' = IF g = h THEN stamps(batch) ELSE onWire(g)
                /\ flight'[g] # NoFlight =>
                     flight'[g].request.results
                       = IF g = h THEN batch ELSE flight[g].request.results
                /\ g # h => flight'[g] = flight[g]
<1> USE WorkerAssumption
<1> DEFINE request == ask(fetch, batch)
           f == [by |-> by, request |-> request]
<1>1. request \in Request /\ request.results = batch /\ request.kind = "request"
  BY DEF ask, Request
<1>2. f \in Flight /\ f.request = request
  BY <1>1 DEF Flight
<1>3. PICK h \in Slots :
        free(h) /\ flight' = [flight EXCEPT ![h] = f] /\ wire' = [wire EXCEPT ![h] = request]
  BY SendTakesFree
<1> HIDE DEF request, f
<1>4. f # NoFlight /\ request # Nothing
  BY <1>1, <1>2
<1>5. \A g \in Slots : /\ flight'[g] = IF g = h THEN f ELSE flight[g]
                       /\ wire'[g] = IF g = h THEN request ELSE wire[g]
  BY <1>3 DEF OutboxInv, Inv, TypeOK
<1>6. held(h) = {} /\ onWire(h) = {}
  BY <1>3 DEF free, held, onWire, carried
<1>7. \A g \in Slots : /\ held(g)' = IF g = h THEN stamps(batch) ELSE held(g)
                       /\ onWire(g)' = IF g = h THEN stamps(batch) ELSE onWire(g)
  BY <1>1, <1>2, <1>4, <1>5 DEF held, onWire, carried
<1> QED BY <1>1, <1>2, <1>5, <1>6, <1>7

LEMMA TakeKept ==
  ASSUME OutboxInv, NEW by \in {"loop", "run"}, Take(by), UNCHANGED heard
  PROVE  Kept
<1>1. pending \in Seq(Result) /\ distinct(pending)
  BY DEF OutboxInv, Inv, TypeOK, HeldOnce
<1>2. PICK h \in Slots :
        /\ held(h) = {} /\ onWire(h) = {}
        /\ \A g \in Slots :
             /\ held(g)' = IF g = h THEN stamps(pending) ELSE held(g)
             /\ onWire(g)' = IF g = h THEN stamps(pending) ELSE onWire(g)
             /\ flight'[g] # NoFlight =>
                  flight'[g].request.results
                    = IF g = h THEN pending ELSE flight[g].request.results
             /\ g # h => flight'[g] = flight[g]
  BY <1>1, SentHeld DEF Take
<1>3. pending' = <<>> /\ stamps(pending') = {} /\ dropped' = dropped
  BY NoStamps DEF Take
<1>4. kept' = kept
  BY <1>2, <1>3, KeptIs, KeptWillBe
<1>5. sent' = sent \cup stamps(pending)
  BY <1>2, SentIs, SentWillBe
<1>6. Quiet
  <2>1. stamps(pending) \in SUBSET kept
    BY KeptIs
  <2>2. Promise!Send(stamps(pending))
    BY <1>3, <1>4, <1>5 DEF Promise!Send
  <2> QED BY <2>1, <2>2 DEF Quiet
<1>7. HeldOnce'
  <2>1. distinct(pending)'
    BY <1>3 DEF distinct
  <2>2. \A g \in Slots : flight'[g] # NoFlight => distinct(flight[g].request.results)'
    <3>1. \A g \in Slots : flight'[g] # NoFlight =>
            distinct(IF g = h THEN pending ELSE flight[g].request.results)
      BY <1>1, <1>2 DEF OutboxInv, HeldOnce
    <3> QED BY <1>2, <3>1 DEF distinct
  <2>3. \A g \in Slots : held(g)' \cap stamps(pending)' = {}
    BY <1>3 DEF stamps
  <2>4. \A g, i \in Slots : g # i => held(g)' \cap held(i)' = {}
    BY <1>2 DEF OutboxInv, HeldOnce
  <2> QED BY <2>1, <2>2, <2>3, <2>4 DEF HeldOnce
<1> QED BY <1>6, <1>7 DEF Kept

LEMMA SameKept ==
  ASSUME OutboxInv, UNCHANGED <<pending, flight, wire, heard, dropped>>
  PROVE  Kept
<1>1. kept' = kept /\ HeldOnce'
  BY SameHeld DEF OutboxInv
<1>2. sent' = sent
  BY SameSent
<1> QED BY <1>1, <1>2 DEF Kept, Quiet

LEMMA LoopFlushKept == ASSUME OutboxInv, LoopFlush PROVE Kept
  BY SameKept, TakeKept DEF LoopFlush, net, results, master

LEMMA RunFlushKept == ASSUME OutboxInv, RunFlush PROVE Kept
  BY SameKept, TakeKept DEF RunFlush, net, results, master

LEMMA RefreshKept == ASSUME OutboxInv, Refresh PROVE Kept
<1>1. <<>> \in Seq(Result) /\ distinct(<<>>) /\ stamps(<<>>) = {}
  BY NoStamps, EmptySeq DEF distinct
<1>2. PICK h \in Slots :
        /\ held(h) = {} /\ onWire(h) = {}
        /\ \A g \in Slots :
             /\ held(g)' = IF g = h THEN stamps(<<>>) ELSE held(g)
             /\ onWire(g)' = IF g = h THEN stamps(<<>>) ELSE onWire(g)
             /\ flight'[g] # NoFlight =>
                  flight'[g].request.results
                    = IF g = h THEN <<>> ELSE flight[g].request.results
             /\ g # h => flight'[g] = flight[g]
  BY <1>1, SentHeld DEF Refresh
<1>3. UNCHANGED <<pending, heard, dropped>> /\ stamps(pending') = stamps(pending)
  BY DEF Refresh, results, master
<1>4. \A g \in Slots : held(g)' = held(g) /\ onWire(g)' = onWire(g)
  BY <1>1, <1>2
<1>5. kept' = kept /\ sent' = sent
  BY <1>3, <1>4, KeptIs, KeptWillBe, SentIs, SentWillBe
<1>6. HeldOnce'
  <2>1. distinct(pending)' /\ stamps(pending)' = stamps(pending)
    BY <1>3 DEF OutboxInv, HeldOnce, distinct, stamps
  <2>2. \A g \in Slots : flight'[g] # NoFlight => distinct(flight[g].request.results)'
    <3>1. \A g \in Slots : flight'[g] # NoFlight =>
            distinct(IF g = h THEN <<>> ELSE flight[g].request.results)
      BY <1>1, <1>2 DEF OutboxInv, HeldOnce
    <3> QED BY <1>2, <3>1 DEF distinct
  <2> QED BY <1>4, <2>1, <2>2 DEF OutboxInv, HeldOnce
<1> QED BY <1>3, <1>5, <1>6 DEF Kept, Quiet

(* A goroutine that leaves its slot holds nothing any more; a request that *)
(* was still under way stays so.                                           *)
LEMMA LeftHeld ==
  ASSUME OutboxInv, NEW h \in Slots, flight' = [flight EXCEPT ![h] = NoFlight],
         wire' = wire \/ (wire' = [wire EXCEPT ![h] = Nothing] /\ ~carried(h, "request"))
  PROVE  /\ sent' = sent
         /\ \A g \in Slots : held(g)' = IF g = h THEN {} ELSE held(g)
         /\ \A g \in Slots : flight'[g] # NoFlight => flight'[g] = flight[g]
<1>1. \A g \in Slots : flight'[g] = IF g = h THEN NoFlight ELSE flight[g]
  BY DEF OutboxInv, Inv, TypeOK
<1>2. sent' = sent
  <2>1. \A g \in Slots : \/ wire'[g] = wire[g]
                         \/ ~carried(g, "request") /\ ~carried(g, "request")'
    BY DEF OutboxInv, Inv, TypeOK, carried
  <2> QED BY <2>1, SameSent
<1>3. \A g \in Slots : held(g)' = IF g = h THEN {} ELSE held(g)
  BY <1>1 DEF held
<1> QED BY <1>1, <1>2, <1>3

LEMMA LeftOnce ==
  ASSUME OutboxInv, NEW h \in Slots, flight' = [flight EXCEPT ![h] = NoFlight],
         \A g \in Slots : held(g)' = IF g = h THEN {} ELSE held(g),
         distinct(pending)', stamps(pending)' \subseteq stamps(pending) \cup held(h)
  PROVE  HeldOnce'
<1>1. \A g \in Slots : flight'[g] # NoFlight => flight'[g] = flight[g]
  BY DEF OutboxInv, Inv, TypeOK
<1>2. \A g \in Slots : flight'[g] # NoFlight => distinct(flight[g].request.results)'
  BY <1>1 DEF OutboxInv, HeldOnce, distinct
<1>3. \A g \in Slots : held(g)' \cap stamps(pending)' = {}
  BY DEF OutboxInv, HeldOnce
<1>4. \A g, i \in Slots : g # i => held(g)' \cap held(i)' = {}
  BY DEF OutboxInv, HeldOnce
<1> QED BY <1>2, <1>3, <1>4 DEF HeldOnce

LEMMA FlushedKept == ASSUME OutboxInv, NEW h \in Slots, Flushed(h) PROVE Kept
<1>1. ~carried(h, "request")
  BY DEF Flushed, carried
<1>2. sent' = sent /\ \A g \in Slots : held(g)' = IF g = h THEN {} ELSE held(g)
  BY <1>1, LeftHeld DEF Flushed
<1>3. UNCHANGED <<pending, heard, dropped>>
  BY DEF Flushed, results, master
<1>4. stamps(pending)' = stamps(pending) /\ distinct(pending)'
  BY <1>3 DEF stamps, OutboxInv, HeldOnce, distinct
<1>5. HeldOnce'
  BY <1>2, <1>4, LeftOnce DEF Flushed
<1>6. kept' = kept \ held(h)
  BY <1>2, <1>3, KeptIs, KeptWillBe DEF OutboxInv, HeldOnce
<1>7. held(h) \subseteq heard
  BY DEF Flushed, held, OutboxInv, Inv, Matched
<1>8. held(h) \in SUBSET kept
  BY KeptIs
<1>9. Promise!Forget(held(h))
  BY <1>2, <1>3, <1>6, <1>7 DEF Promise!Forget
<1> QED BY <1>5, <1>8, <1>9 DEF Kept, Quiet

(* Leaving with nothing: the answer to a refresh.                          *)
LEMMA LeftKept ==
  ASSUME OutboxInv, NEW h \in Slots, held(h) = {}, UNCHANGED <<pending, heard, dropped>>,
         flight' = [flight EXCEPT ![h] = NoFlight],
         wire' = wire \/ (wire' = [wire EXCEPT ![h] = Nothing] /\ ~carried(h, "request"))
  PROVE  Kept
<1>1. sent' = sent /\ \A g \in Slots : held(g)' = IF g = h THEN {} ELSE held(g)
  BY LeftHeld
<1>2. stamps(pending)' = stamps(pending) /\ distinct(pending)'
  BY DEF stamps, OutboxInv, HeldOnce, distinct
<1>3. HeldOnce'
  BY <1>1, <1>2, LeftOnce
<1>4. kept' = kept
  BY <1>1, KeptIs, KeptWillBe
<1> QED BY <1>1, <1>3, <1>4 DEF Kept, Quiet

LEMMA RefreshedKept == ASSUME OutboxInv, NEW h \in Slots, Refreshed(h) PROVE Kept
<1>1. ~carried(h, "request")
  BY DEF Refreshed, carried
<1>2. held(h) = {}
  BY NoStamps DEF Refreshed, held, OutboxInv, Inv, Matched, LoopInv
<1> QED BY <1>1, <1>2, LeftKept DEF Refreshed, results, master

(* A limit that cuts anything leaves MaxPending results.                   *)
LEMMA FullAfterCut ==
  ASSUME Inv', Cardinality(stamps(pending')) = MaxPending
  PROVE  Cardinality(kept') >= MaxPending
<1>1. kept' \subseteq 1..clock' /\ clock' \in Nat
  <2>1. stamps(pending') \subseteq 1..clock'
    BY DEF Inv, Stamped, stamps
  <2>2. \A h \in Slots : held(h)' \subseteq 1..clock'
    BY DEF Inv, Stamped, held
  <2> QED BY <2>1, <2>2, KeptWillBe, WorkerAssumption DEF Inv, TypeOK
<1>2. IsFiniteSet(kept')
  <2>1. IsFiniteSet(1..clock')
    BY <1>1, FS_Interval
  <2> QED BY <1>1, <2>1, FS_Subset
<1>3. stamps(pending') \subseteq kept'
  BY KeptWillBe
<1>4. Cardinality(stamps(pending')) <= Cardinality(kept')
  BY <1>2, <1>3, FS_Subset
<1>5. MaxPending \in Nat /\ Cardinality(kept') \in Nat
  BY <1>2, FS_CardinalityType, WorkerAssumption
<1> QED BY <1>4, <1>5

LEMMA GiveUpKept ==
  ASSUME OutboxInv, Inv', NEW h \in Slots, flight[h] # NoFlight, GiveUp(h),
         wire' = wire \/ (wire' = [wire EXCEPT ![h] = Nothing] /\ ~carried(h, "request"))
  PROVE  Kept
<1> DEFINE batch == flight[h].request.results
           all == requeued(batch)
<1>1. CASE flight[h].request.fetch
  <2>1. held(h) = {}
    BY <1>1, NoStamps DEF held, OutboxInv, Inv, LoopInv
  <2> QED BY <1>1, <2>1, LeftKept DEF GiveUp, master
<1>2. CASE ~flight[h].request.fetch
  <2>1. batch \in Seq(Result) /\ pending \in Seq(Result)
    BY Kinds DEF OutboxInv, Inv, TypeOK, Flight, Request
  <2>2. held(h) = stamps(batch)
    BY DEF held
  <2>3. distinct(batch) /\ distinct(pending) /\ stamps(batch) \cap stamps(pending) = {}
    BY <2>2 DEF OutboxInv, HeldOnce
  <2>4. all \in Seq(Result) /\ stamps(all) = held(h) \cup stamps(pending) /\ distinct(all)
    BY <2>1, <2>2, <2>3, StampsJoined, DistinctJoined DEF requeued
  <2>5. Keep(all) /\ flight' = [flight EXCEPT ![h] = NoFlight] /\ heard' = heard
    BY <1>2 DEF GiveUp, master
  <2> HIDE DEF batch, all
  <2>6. /\ distinct(pending)' /\ cutFrom(all) \subseteq stamps(all)
        /\ stamps(pending') = stamps(all) \ cutFrom(all)
        /\ dropped' = dropped \cup cutFrom(all)
        /\ cutFrom(all) # {} => Cardinality(stamps(pending')) = MaxPending
    BY <2>4, <2>5, KeepCuts
  <2>7. sent' = sent /\ \A g \in Slots : held(g)' = IF g = h THEN {} ELSE held(g)
    BY <2>5, LeftHeld
  <2>8. stamps(pending)' \subseteq stamps(pending) \cup held(h)
    BY <2>4, <2>6 DEF stamps
  <2>9. HeldOnce'
    BY <2>5, <2>6, <2>7, <2>8, LeftOnce
  <2>10. kept' = kept \ cutFrom(all)
    <3>1. \A g \in Slots : g # h => held(g) \cap cutFrom(all) = {}
      BY <2>4, <2>6 DEF OutboxInv, HeldOnce
    <3> QED BY <2>4, <2>6, <2>7, <3>1, KeptIs, KeptWillBe
  <2>11. cutFrom(all) \in SUBSET kept
    BY <2>4, <2>6, KeptIs
  <2>12. cutFrom(all) # {} => Cardinality(kept') >= MaxPending
    BY <2>6, FullAfterCut
  <2>13. Promise!Cut(cutFrom(all))
    BY <2>5, <2>6, <2>7, <2>10, <2>12, SameCount DEF Promise!Cut, Promise!GivesUp
  <2> QED BY <2>9, <2>11, <2>13 DEF Kept, Quiet
<1> QED BY <1>1, <1>2

LEMMA FailedKept == ASSUME OutboxInv, NEW h \in Slots, Failed(h) PROVE Kept
<1>1. ~carried(h, "request")
  BY DEF Failed, carried
<1>2. Inv'
  BY FailedInv DEF OutboxInv
<1> QED BY <1>1, <1>2, GiveUpKept DEF Failed

LEMMA TimeOutKept == ASSUME OutboxInv, NEW h \in Slots, TimeOut(h) PROVE Kept
<1>1. Inv'
  BY TimeOutInv DEF OutboxInv
<1> QED BY <1>1, GiveUpKept DEF TimeOut

LEMMA WorkerRestartsKept == ASSUME OutboxInv, WorkerRestarts PROVE Kept
<1>1. \A g \in Slots : held(g)' = {}
  BY DEF WorkerRestarts, held
<1>2. stamps(pending') = {} /\ stamps(pending)' = {} /\ distinct(pending)'
  BY NoStamps DEF WorkerRestarts, stamps, distinct
<1>3. kept' = {}
  BY <1>1, <1>2, KeptWillBe
<1>4. \A g \in Slots : wire'[g] = IF carried(g, "request") THEN wire[g] ELSE Nothing
  BY DEF WorkerRestarts
<1>5. sent' = sent
  BY <1>4, SameSent DEF carried
<1>6. HeldOnce'
  BY <1>1, <1>2 DEF HeldOnce, WorkerRestarts
<1>7. Promise!Restart
  BY <1>3, <1>5 DEF Promise!Restart, WorkerRestarts, master
<1> QED BY <1>6, <1>7 DEF Kept, Quiet

(* No result is anyone's twice as long as no run begins or ends.           *)
LEMMA StillNew ==
  ASSUME OutboxInv, Kept, \A c \in CheckIds : hasBegun(c)' => hasBegun(c) /\ running'[c] = running[c]
  PROVE  RunsAreNew'
<1>1. known' \subseteq known
  BY QuietSteps DEF Kept
<1> QED BY <1>1 DEF RunsAreNew, OutboxInv

LEMMA StartDueNew ==
  ASSUME OutboxInv, StartDue
  PROVE  \A c \in CheckIds : hasBegun(c)' => hasBegun(c) /\ running'[c] = running[c]
<1>1. \A c \in CheckIds : running'[c] = running[c] \/ ~running'[c].begun
  BY DEF StartDue
<1> QED BY <1>1 DEF hasBegun

(* A run that begins takes the number of a tick that nobody has had.       *)
LEMMA ExecuteNew == ASSUME OutboxInv, NEW c \in CheckIds, Execute(c) PROVE Kept /\ RunsAreNew'
<1>1. Kept
  BY SameKept DEF Execute, results, net, master
<1>2. known' \subseteq known
  BY <1>1, QuietSteps DEF Kept
<1>3. clock \in Nat /\ clock' = clock + 1
  BY WorkerAssumption DEF Execute, OutboxInv, Inv, TypeOK
<1>4. known \subseteq 1..clock
  <2>1. stamps(pending) \subseteq 1..clock
    BY DEF OutboxInv, Inv, Stamped
  <2>2. \A h \in Slots : held(h) \subseteq 1..clock /\ onWire(h) \subseteq 1..clock
    BY DEF OutboxInv, Inv, Stamped, held, onWire
  <2> QED BY <2>1, <2>2, KeptIs, SentIs DEF known, OutboxInv, Inv, TypeOK
<1>5. \A d \in CheckIds : IF d = c THEN running'[d].ranAt = clock'
                                   ELSE running'[d] = running[d]
  <2>1. running[c] \in Run /\ running \in [CheckIds -> Run \cup {NoRun}]
    BY DEF Execute, OutboxInv, Inv, TypeOK
  <2>2. running' = [running EXCEPT ![c] = [running[c] EXCEPT !.begun = TRUE, !.ranAt = clock']]
    BY <2>1 DEF Execute
  <2>3. [running[c] EXCEPT !.begun = TRUE, !.ranAt = clock'].ranAt = clock'
    BY <2>1 DEF Run
  <2> QED BY <2>1, <2>2, <2>3
<1>6. \A d \in CheckIds : hasBegun(d) => running[d].ranAt \in 1..clock
  BY DEF hasBegun, OutboxInv, Inv, Stamped
<1>7. clock' \notin 1..clock
  BY <1>3
<1>8. \A d \in CheckIds : hasBegun(d)' /\ d # c => hasBegun(d)
  BY <1>5 DEF hasBegun
<1>9. \A d \in CheckIds : hasBegun(d)' => running'[d].ranAt \notin known'
  BY <1>2, <1>4, <1>5, <1>7, <1>8 DEF OutboxInv, RunsAreNew
<1>10. \A d, e \in CheckIds :
         hasBegun(d)' /\ hasBegun(e)' /\ running'[d].ranAt = running'[e].ranAt => d = e
  BY <1>5, <1>6, <1>7, <1>8 DEF OutboxInv, RunsAreNew
<1> QED BY <1>1, <1>9, <1>10 DEF RunsAreNew

(* The end of a run is the one step that produces a result.                *)
LEMMA FinishProduces ==
  ASSUME OutboxInv, NEW c \in CheckIds, Finish(c)
  PROVE  /\ [Promise!Next]_(Promise!vars)
         /\ HeldOnce' /\ RunsAreNew'
<1> DEFINE n == running[c].ranAt
           result == [check |-> c, ranAt |-> n]
           all == Append(pending, result)
           old == cutFrom(all)
<1>1. running[c] \in Run /\ n \in 1..clock /\ clock \in 0..MaxRuns /\ hasBegun(c)
  BY DEF Finish, begun, hasBegun, OutboxInv, Inv, TypeOK, Stamped
<1>2. n \notin known
  BY <1>1 DEF OutboxInv, RunsAreNew
<1>3. pending \in Seq(Result) /\ result \in Result /\ result.ranAt = n
  BY <1>1 DEF OutboxInv, Inv, TypeOK, Result, Run
<1>4. n \notin stamps(pending) /\ \A g \in Slots : n \notin held(g)
  BY <1>2, KeptIs DEF known
<1>5. all \in Seq(Result) /\ stamps(all) = stamps(pending) \cup {n}
  BY <1>3, StampsAppended
<1>6. distinct(all)
  <2>1. <<result>> \in Seq(Result) /\ distinct(<<result>>) /\ stamps(<<result>>) = {n}
    BY <1>3 DEF distinct, stamps
  <2>2. all = pending \o <<result>>
    BY <1>3, AppendIsConcat
  <2>3. distinct(pending) /\ stamps(pending) \cap stamps(<<result>>) = {}
    BY <1>4, <2>1 DEF OutboxInv, HeldOnce
  <2> QED BY <1>3, <2>1, <2>2, <2>3, DistinctJoined
<1>7. old \subseteq stamps(pending)
  <2>1. Len(all) = Len(pending) + 1 /\ Len(pending) \in Nat
        /\ \A i \in 1..Len(pending) : all[i] = pending[i]
    BY <1>3, AppendProperties, LenProperties
  <2>2. Len(pending) <= MaxPending /\ MaxPending \in Nat \ {0}
    BY WorkerAssumption DEF OutboxInv, Inv, TypeOK
  <2>3. over(all) \in Nat /\ over(all) <= Len(pending)
    BY <2>1, <2>2 DEF over
  <2>4. \A i \in 1..over(all) : i \in 1..Len(pending)
    BY <2>1, <2>3
  <2> QED BY <2>1, <2>4 DEF cutFrom, stamps
<1>8. Keep(all) /\ flight' = flight /\ wire' = wire /\ heard' = heard
  BY DEF Finish, net, master
<1>9. Inv'
  BY FinishInv DEF OutboxInv
<1> HIDE DEF all, result
<1>10. /\ distinct(pending)'
       /\ stamps(pending') = stamps(all) \ old
       /\ dropped' = dropped \cup old
       /\ old # {} => Cardinality(stamps(pending')) = MaxPending
  BY <1>5, <1>6, <1>8, KeepCuts
<1> HIDE DEF old
<1>11. \A g \in Slots : held(g)' = held(g)
  BY <1>8 DEF held
<1>12. sent' = sent
  BY <1>8, SameSent
<1>13. kept' = (kept \ old) \cup {n}
  <2>1. \A g \in Slots : held(g) \cap old = {}
    BY <1>7 DEF OutboxInv, HeldOnce
  <2> QED BY <1>4, <1>5, <1>7, <1>10, <1>11, <2>1, KeptIs, KeptWillBe
<1>14. old # {} => Cardinality(kept') >= MaxPending
  BY <1>9, <1>10, FullAfterCut
<1>15. Promise!Produce(n, old)
  BY <1>2, <1>8, <1>10, <1>12, <1>13, <1>14, SameCount
     DEF Promise!Produce, Promise!GivesUp, known
<1>16. n \in 1..MaxRuns /\ old \in SUBSET kept
  BY <1>1, <1>7, KeptIs, WorkerAssumption
<1>17. Promise!Next
  BY <1>15, <1>16 DEF Promise!Next
<1>18. HeldOnce'
  <2>1. \A g \in Slots : held(g)' \cap stamps(pending)' = {}
    <3>1. stamps(pending)' \subseteq stamps(pending) \cup {n}
      BY <1>5, <1>10 DEF stamps
    <3> QED BY <1>4, <1>11, <3>1 DEF OutboxInv, HeldOnce
  <2>2. \A g \in Slots : flight'[g] # NoFlight => distinct(flight[g].request.results)'
    BY <1>8 DEF OutboxInv, HeldOnce, distinct
  <2> QED BY <1>10, <1>11, <2>1, <2>2 DEF OutboxInv, HeldOnce
<1>19. known' \subseteq known \cup {n}
  BY <1>7, <1>8, <1>10, <1>12, <1>13, KeptIs DEF known
<1>20. \A d \in CheckIds : hasBegun(d)' => d # c /\ hasBegun(d) /\ running'[d] = running[d]
  BY DEF Finish, hasBegun, OutboxInv, Inv, TypeOK
<1>21. \A d \in CheckIds : hasBegun(d)' => running'[d].ranAt # n
  BY <1>1, <1>20 DEF OutboxInv, RunsAreNew
<1>22. RunsAreNew'
  BY <1>19, <1>20, <1>21 DEF OutboxInv, RunsAreNew
<1> QED BY <1>17, <1>18, <1>22

LEMMA OutboxStart == ASSUME Init PROVE OutboxInv /\ Promise!Init
<1>1. Inv
  BY InitInv
<1>2. stamps(pending) = {} /\ distinct(pending)
  BY NoStamps DEF Init, distinct
<1>3. \A h \in Slots : held(h) = {} /\ onWire(h) = {}
  BY DEF Init, held, onWire, carried
<1>4. HeldOnce
  BY <1>2, <1>3 DEF HeldOnce, Init
<1>5. kept = {} /\ sent = {}
  BY <1>2, <1>3, KeptIs, SentIs
<1>6. RunsAreNew
  BY DEF RunsAreNew, hasBegun, Init
<1>7. Promise!Init
  BY <1>5 DEF Promise!Init, Init
<1> QED BY <1>1, <1>4, <1>6, <1>7 DEF OutboxInv

LEMMA OutboxStep ==
  ASSUME OutboxInv, [Next]_vars
  PROVE  OutboxInv' /\ [Promise!Next]_(Promise!vars)
<1>1. Inv'
  BY NextInv DEF OutboxInv
<1> DEFINE sameRuns == \A c \in CheckIds : hasBegun(c)' => hasBegun(c) /\ running'[c] = running[c]
           proved == OutboxInv' /\ [Promise!Next]_(Promise!vars)
<1>2. ASSUME running' = running PROVE sameRuns
  BY <1>2 DEF hasBegun
<1>3. ASSUME Kept, sameRuns PROVE proved
  BY <1>1, <1>3, StillNew, QuietSteps DEF Kept, OutboxInv
<1> HIDE DEF sameRuns, proved
<1>4. ASSUME UNCHANGED vars PROVE proved
  BY <1>2, <1>3, <1>4, SameKept DEF vars, master, schedule, results, net
<1>5. ASSUME NEW h \in Slots, GetChecks(h) \/ PostResults(h) \/ Lose(h) PROVE proved
  BY <1>2, <1>3, <1>5, GetChecksKept, PostResultsKept, LoseKept
     DEF GetChecks, PostResults, Lose, schedule
<1>6. ASSUME NEW h \in Slots, Refreshed(h) \/ Flushed(h) PROVE proved
  BY <1>2, <1>3, <1>6, RefreshedKept, FlushedKept DEF Refreshed, Flushed, schedule
<1>7. ASSUME NEW h \in Slots, Failed(h) \/ TimeOut(h) PROVE proved
  BY <1>2, <1>3, <1>7, FailedKept, TimeOutKept DEF Failed, TimeOut, GiveUp, schedule
<1>8. ASSUME LoopFlush \/ RunFlush \/ Refresh PROVE proved
  BY <1>2, <1>3, <1>8, LoopFlushKept, RunFlushKept, RefreshKept
     DEF LoopFlush, RunFlush, Refresh, schedule
<1>9. ASSUME StartDue PROVE proved
  <2>1. sameRuns
    BY <1>9, StartDueNew DEF sameRuns
  <2> QED BY <1>3, <1>9, <2>1, SameKept DEF StartDue, results, net, master
<1>10. ASSUME NEW c \in CheckIds, FallDue(c) \/ Edit(c) PROVE proved
  BY <1>2, <1>3, <1>10, SameKept DEF FallDue, Edit, schedule, results, net, master
<1>11. ASSUME NEW c \in CheckIds, Execute(c) PROVE proved
  BY <1>1, <1>11, ExecuteNew, QuietSteps DEF Kept, OutboxInv, proved
<1>12. ASSUME NEW c \in CheckIds, Finish(c) PROVE proved
  BY <1>1, <1>12, FinishProduces DEF OutboxInv, proved
<1>13. ASSUME MasterRestarts PROVE proved
  BY <1>2, <1>3, <1>13, MasterRestartsKept DEF MasterRestarts, schedule
<1>14. ASSUME WorkerRestarts PROVE proved
  <2>1. sameRuns
    BY <1>14 DEF WorkerRestarts, hasBegun, sameRuns
  <2> QED BY <1>3, <1>14, <2>1, WorkerRestartsKept
<1>15. proved
  BY <1>4, <1>5, <1>6, <1>7, <1>8, <1>9, <1>10, <1>11, <1>12, <1>13, <1>14 DEF Next
<1> QED BY <1>15 DEF proved

(* The worker keeps an outbox: through lost, repeated and overlapping      *)
(* requests, each result stays with it until the master has recorded it,   *)
(* is cut only when MaxPending others are kept, and comes from one run.    *)
THEOREM OutboxImplemented == Spec => ImplementsOutbox
<1>1. Init => OutboxInv /\ Promise!Init
  BY OutboxStart
<1>2. OutboxInv /\ [Next]_vars => OutboxInv' /\ [Promise!Next]_(Promise!vars)
  BY OutboxStep
<1> QED BY <1>1, <1>2, PTL DEF Spec, ImplementsOutbox, Promise!Spec
=============================================================================
