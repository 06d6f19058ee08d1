------------------------------- MODULE Outbox -------------------------------
(***************************************************************************)
(* What monitor-worker promises of its results: each is kept until the     *)
(* master has recorded it, and sent as often as that takes; it is given up *)
(* only in favour of MaxPending others, or when the worker ends.  A result *)
(* may be recorded twice, and after its worker has ended; one that no run  *)
(* produced is never recorded.                                             *)
(***************************************************************************)
EXTENDS Naturals, FiniteSets

CONSTANTS Results, MaxPending

VARIABLES
  kept,      \* the results the worker has
  sent,      \* those in a request that is under way
  recorded,  \* those the master was given
  cut        \* those the worker gave up since its start

vars == <<kept, sent, recorded, cut>>

Init == kept = {} /\ sent = {} /\ recorded = {} /\ cut = {}

(* Of what it keeps, the worker gives up `old`.                            *)
GivesUp(old) ==
  /\ cut' = cut \cup old
  /\ old # {} => Cardinality(kept') >= MaxPending

Produce(n, old) ==
  /\ n \notin kept \cup sent \cup recorded \cup cut
  /\ kept' = (kept \ old) \cup {n}
  /\ GivesUp(old)
  /\ UNCHANGED <<sent, recorded>>

Cut(old) ==
  /\ kept' = kept \ old
  /\ GivesUp(old)
  /\ UNCHANGED <<sent, recorded>>

Send(batch) ==
  /\ sent' = sent \cup batch
  /\ UNCHANGED <<kept, recorded, cut>>

(* A request is handled; another can carry the same results.               *)
Record(batch) ==
  /\ recorded' = recorded \cup batch
  /\ sent \ batch \subseteq sent' /\ sent' \subseteq sent
  /\ UNCHANGED <<kept, cut>>

(* Requests are refused or lost.                                           *)
Lose ==
  /\ sent' \subseteq sent
  /\ UNCHANGED <<kept, recorded, cut>>

(* The worker hears that a request was handled.                            *)
Forget(batch) ==
  /\ batch \subseteq recorded
  /\ kept' = kept \ batch
  /\ UNCHANGED <<sent, recorded, cut>>

Restart ==
  /\ kept' = {} /\ cut' = {}
  /\ UNCHANGED <<sent, recorded>>

Next ==
  \/ \E old \in SUBSET kept : Cut(old) \/ \E n \in Results : Produce(n, old)
  \/ \E batch \in SUBSET kept : Send(batch) \/ Forget(batch)
  \/ \E batch \in SUBSET sent : Record(batch)
  \/ Lose
  \/ Restart

Spec == Init /\ [][Next]_vars
=============================================================================
