------------------------------- MODULE Metrics -------------------------------
(***************************************************************************)
(* The cache of host readings (metrics.go).  A browser that polls asks for *)
(* every host at once, several browsers ask for the same one.  A host's    *)
(* entry has a lock that is held across the SSH call; the lock of the map  *)
(* covers the lookup only.  The lookup for one host evicts the entries of  *)
(* the others that are stale, and an entry without a reading is: a call    *)
(* that has such an entry goes on with it, and its host gets another.      *)
(*                                                                         *)
(* Entry n is the one that call n made.  A reading is known by when it was *)
(* begun; what it says is left out.  Time passes in steps of which         *)
(* CacheTTL make up metricsCacheTTL.                                       *)
(***************************************************************************)
EXTENDS Naturals, Sequences

CONSTANTS Watched,                        \* the hosts
          CacheTTL, HistoryWindow, HistoryMax, EntryIdleTTL,
          MaxGets, MaxTime,               \* bounds
          Never, NoEntry

(* 256 samples of which no two are within 20 seconds last for an hour.     *)
ASSUME MetricsAssumption ==
  /\ {CacheTTL, HistoryMax} \subseteq Nat \ {0}
  /\ {HistoryWindow, EntryIdleTTL, MaxGets, MaxTime} \subseteq Nat
  /\ HistoryWindow < HistoryMax * CacheTTL
  /\ Never \notin Nat /\ NoEntry \notin 1..MaxGets

VARIABLES
  entries,             \* of each host
  latest, history,     \* of each entry: its last reading, and its samples
  gets, made,          \* the calls of Get, and how many there were
  now,
  sampled,               \* history: the readings of an entry that succeeded
  dropped              \* history: entries that were evicted under a call

metricsVars == <<entries, latest, history, gets, made, now, sampled, dropped>>

Calls == 1..MaxGets
noGet == [stage |-> "none", host |-> NoEntry, entry |-> NoEntry, begun |-> Never]
over == [noGet EXCEPT !.stage = "over"]
underWay(n) == gets[n].stage \in {"waiting", "collecting"}

MetricsInit ==
  /\ entries = [h \in Watched |-> NoEntry]
  /\ latest = [e \in Calls |-> Never] /\ history = [e \in Calls |-> <<>>]
  /\ gets = [n \in Calls |-> noGet] /\ made = 0 /\ now = 0
  /\ sampled = [e \in Calls |-> {}] /\ dropped = {}

(* The time of an entry that has no reading is before every other.  The    *)
(* time is read without the lock of the entry, so while it is being set,   *)
(* what is read is either.                                                 *)
Stale(e) == latest[e] = Never \/ latest[e] + EntryIdleTTL < now

Lookup(h) ==
  /\ made < MaxGets /\ made' = made + 1
  /\ LET old == {g \in Watched \ {h} : entries[g] # NoEntry /\ Stale(entries[g])}
         own == IF entries[h] = NoEntry THEN made' ELSE entries[h]
     IN  /\ entries' = [g \in Watched |-> IF g = h THEN own
                                          ELSE IF g \in old THEN NoEntry ELSE entries[g]]
         /\ gets' = [gets EXCEPT ![made'] = [stage |-> "waiting", host |-> h, entry |-> own,
                                             begun |-> Never]]
         /\ dropped' = dropped \cup ({entries[g] : g \in old} \cap
                                     {gets[n].entry : n \in {m \in Calls : underWay(m)}})
  /\ UNCHANGED <<latest, history, now, sampled>>

(* The lock of an entry is held by whoever collects into it.               *)
free(e) == \A n \in Calls : ~(gets[n].stage = "collecting" /\ gets[n].entry = e)
fresh(e) == latest[e] # Never /\ now < latest[e] + CacheTTL

CollectUnlocked(n) ==                                          \* mutant
  /\ gets[n].stage = "waiting" /\ ~fresh(gets[n].entry)
  /\ gets' = [gets EXCEPT ![n].stage = "collecting", ![n].begun = now]
  /\ UNCHANGED <<entries, latest, history, made, now, sampled, dropped>>

Collect(n) ==
  /\ gets[n].stage = "waiting" /\ free(gets[n].entry) /\ ~fresh(gets[n].entry)
  /\ gets' = [gets EXCEPT ![n].stage = "collecting", ![n].begun = now]
  /\ UNCHANGED <<entries, latest, history, made, now, sampled, dropped>>

Cached(n) ==
  /\ gets[n].stage = "waiting" /\ free(gets[n].entry) /\ fresh(gets[n].entry)
  /\ gets' = [gets EXCEPT ![n] = over]
  /\ UNCHANGED <<entries, latest, history, made, now, sampled, dropped>>

withinMax(samples) ==
  IF Len(samples) <= HistoryMax THEN samples
  ELSE SubSeq(samples, Len(samples) - HistoryMax + 1, Len(samples))

appendSampleOnly(samples, t) == withinMax(Append(samples, t))  \* mutant
appendSample(samples, t) ==
  LET all == Append(samples, t)
      first == CHOOSE i \in 1..Len(all) : /\ t <= all[i] + HistoryWindow
                                          /\ \A j \in 1..(i - 1) : all[j] + HistoryWindow < t
  IN  withinMax(SubSeq(all, first, Len(all)))

(* A reading that failed is kept as the latest, and is no sample.          *)
Collected(n) ==
  /\ gets[n].stage = "collecting"
  /\ LET e == gets[n].entry
         t == gets[n].begun
     IN  /\ latest' = [latest EXCEPT ![e] = t]
         /\ \/ /\ history' = [history EXCEPT ![e] = appendSample(@, t)]
               /\ sampled' = [sampled EXCEPT ![e] = @ \cup {t}]
            \/ UNCHANGED <<history, sampled>>
  /\ gets' = [gets EXCEPT ![n] = over]
  /\ UNCHANGED <<entries, made, now, dropped>>

PassTime ==
  /\ now < MaxTime /\ now' = now + 1
  /\ UNCHANGED <<entries, latest, history, gets, made, sampled, dropped>>

(* Nothing of it is stored.                                                *)
RestartMetrics ==
  /\ entries' = [h \in Watched |-> NoEntry]
  /\ latest' = [e \in Calls |-> Never] /\ history' = [e \in Calls |-> <<>>]
  /\ gets' = [n \in Calls |-> IF underWay(n) THEN over ELSE gets[n]]
  /\ sampled' = [e \in Calls |-> {}] /\ dropped' = {}
  /\ UNCHANGED <<made, now>>

MetricsNext ==
  \/ \E h \in Watched : Lookup(h)
  \/ \E n \in Calls : Collect(n) \/ Cached(n) \/ Collected(n)
  \/ PassTime
  \/ RestartMetrics

MetricsSpec == MetricsInit /\ [][MetricsNext]_metricsVars

----------------------------------------------------------------------------
(* "A second caller arriving mid collection waits and gets the fresh       *)
(* reading instead of opening a competing connection to the same box": no  *)
(* host is being collected from twice, unless an entry was evicted while a *)
(* call had it, which any look at another host does to a first reading.    *)
OneConnection ==
  \A m, n \in Calls :
    (m # n /\ gets[m].stage = "collecting" /\ gets[n].stage = "collecting"
       /\ gets[m].host = gets[n].host)
      => dropped \cap {gets[m].entry, gets[n].entry} # {}

(* Whatever waits for whom, fails or is evicted: the history of an entry   *)
(* is all that was read into it within the window before its last sample,  *)
(* in that order, and the limit on its length takes nothing from it.       *)
HistoryIsWindow ==
  \A e \in Calls :
    LET s == history[e]
    IN  /\ \A i, j \in 1..Len(s) : i < j => s[i] < s[j]
        /\ {s[i] : i \in 1..Len(s)}
             = {t \in sampled[e] : \A u \in sampled[e] : u <= t + HistoryWindow}
=============================================================================
