--------------------------- MODULE VpnIdleProofs ---------------------------
(***************************************************************************)
(* Proofs about VpnIdle, for any VPNs, containers, terminals and requests. *)
(***************************************************************************)
EXTENDS VpnIdle, FiniteSetTheorems, TLAPS

(* What a request writes: the list it read, with one VPN that can be.      *)
Writable(r) ==
  /\ r.kind = "delete" => r.seen \in List
  /\ r.next = "save" => r.seen \in List /\ (r.kind = "delete" \/ r.conf \in Configs)

WritesFollowReads ==
  \A h \in Handlers : requests[h] # NoRequest => Writable(requests[h])

(* A VPN without a clock was not used since the ticks under way, so the    *)
(* clock that its first sight starts there is not ahead.                   *)
ClockAfterTick ==
  \A v \in VpnIds : lastUsed[v] = NoClock =>
    /\ tick # NoTick => tick <= quiet[v]
    /\ sweep # NoSweep => sweep.lag <= quiet[v]

Clocks == ClockBehindUse /\ ClockAfterTick

Inv == TypeOK /\ WritesFollowReads /\ HoldsAreShells /\ Clocks

----------------------------------------------------------------------------
(* Time. *)

LEMMA OlderIsLater ==
  ASSUME NEW m \in Minutes
  PROVE  /\ older(m) \in Minutes /\ m <= older(m)
         /\ \A n \in Minutes : n <= m => older(n) <= older(m)
         /\ \A n \in Nat : n < MaxLag /\ n <= m => n + 1 <= older(m)
  BY VpnIdleAssumption DEF older, Minutes, Cap

(* What a step does to the ticks when it is not one of time or of reading. *)
TicksKept ==
  /\ tick' # NoTick => tick' = tick
  /\ sweep' # NoSweep => sweep # NoSweep /\ sweep'.lag = sweep.lag

LEMMA TouchKeepsClocks ==
  ASSUME TypeOK, Clocks, NEW u, Touch(u), TicksKept
  PROVE  Clocks'
<1> USE VpnIdleAssumption
<1>1. ASSUME NEW v \in VpnIds
      PROVE  \/ lastUsed'[v] = 0 /\ quiet'[v] = 0
             \/ lastUsed'[v] = lastUsed[v] /\ quiet'[v] = quiet[v]
  BY DEF Touch, TypeOK
<1>2. ClockBehindUse'
  BY <1>1 DEF Clocks, ClockBehindUse, TypeOK
<1>3. ClockAfterTick'
  BY <1>1 DEF Clocks, ClockAfterTick, TicksKept
<1> QED BY <1>2, <1>3 DEF Clocks

LEMMA NoTouchKeepsClocks ==
  ASSUME Clocks, NoTouch, TicksKept
  PROVE  Clocks'
  BY DEF Clocks, ClockBehindUse, ClockAfterTick, NoTouch, TicksKept

LEMMA TouchKeepsType ==
  ASSUME TypeOK, NEW u, Touch(u)
  PROVE  /\ lastUsed' \in [VpnIds -> Minutes \cup {NoClock}]
         /\ quiet' \in [VpnIds -> Minutes]
<1>1. 0 \in Minutes
  BY VpnIdleAssumption DEF Minutes, Cap
<1> QED BY <1>1 DEF TypeOK, Touch

----------------------------------------------------------------------------
(* Terminals. *)

LEMMA HoldersAreFinite ==
  ASSUME NEW v \in VpnIds
  PROVE  IsFiniteSet(holders(v)) /\ Cardinality(holders(v)) \in Nat
         /\ (Cardinality(holders(v)) = 0 <=> holders(v) = {})
<1>1. IsFiniteSet(holders(v))
  BY VpnIdleAssumption, FS_Subset DEF holders
<1> QED BY <1>1, FS_CardinalityType, FS_EmptySet

LEMMA ShellsKept ==
  ASSUME HoldsAreShells, UNCHANGED <<active, shells>>
  PROVE  HoldsAreShells'
  BY DEF HoldsAreShells, holders

LEMMA OpenCounts ==
  ASSUME TypeOK, HoldsAreShells, NEW s \in Sessions, NEW u \in VpnIds, OpenTerminal(s, u)
  PROVE  HoldsAreShells'
<1> SUFFICES ASSUME NEW v \in VpnIds PROVE active'[v] = Cardinality(holders(v)')
  BY DEF HoldsAreShells
<1> USE VpnIdleAssumption DEF OpenTerminal, Hold
<1>1. CASE v = u
  <2>1. holders(v)' = holders(v) \cup {s} /\ s \notin holders(v)
    BY <1>1 DEF holders, TypeOK
  <2>2. Cardinality(holders(v)') = Cardinality(holders(v)) + 1
    BY <2>1, HoldersAreFinite, FS_AddElement
  <2> QED BY <1>1, <2>2 DEF HoldsAreShells, TypeOK
<1>2. CASE v # u
  <2>1. holders(v)' = holders(v)
    BY <1>2 DEF holders, TypeOK
  <2> QED BY <1>2, <2>1 DEF HoldsAreShells, TypeOK
<1> QED BY <1>1, <1>2

LEMMA CloseCounts ==
  ASSUME TypeOK, HoldsAreShells, NEW s \in Sessions, CloseTerminal(s)
  PROVE  HoldsAreShells' /\ active' \in [VpnIds -> Nat]
<1> USE VpnIdleAssumption DEF CloseTerminal, Release
<1>1. PICK u \in VpnIds : shells[s] = u
  BY DEF TypeOK
<1>2. holders(u)' = holders(u) \ {s} /\ s \in holders(u)
  BY <1>1 DEF holders, TypeOK
<1>3. Cardinality(holders(u)') = Cardinality(holders(u)) - 1
  BY <1>1, <1>2, HoldersAreFinite, FS_RemoveElement
<1>4. Cardinality(holders(u)) # 0
  BY <1>1, <1>2, HoldersAreFinite
<1>5. active'[u] = Cardinality(holders(u)') /\ active'[u] \in Nat
  BY <1>1, <1>3, <1>4, HoldersAreFinite DEF HoldsAreShells, TypeOK
<1>6. ASSUME NEW v \in VpnIds, v # u
      PROVE  active'[v] = Cardinality(holders(v)') /\ active'[v] \in Nat
  <2>1. holders(v)' = holders(v)
    BY <1>1, <1>6 DEF holders, TypeOK
  <2> QED BY <1>1, <1>6, <2>1 DEF HoldsAreShells, TypeOK
<1>7. active' = [v \in VpnIds |-> active'[v]]
  BY DEF TypeOK
<1> QED BY <1>5, <1>6, <1>7 DEF HoldsAreShells

----------------------------------------------------------------------------
(* Requests. *)

RequestsOK == requests \in [Handlers -> Request \cup {NoRequest}] /\ WritesFollowReads

LEMMA RequestSet ==
  ASSUME RequestsOK, NEW h \in Handlers, NEW r \in Request \cup {NoRequest},
         requests' = [requests EXCEPT ![h] = r], r # NoRequest => Writable(r)
  PROVE  RequestsOK'
<1>1. requests' \in [Handlers -> Request \cup {NoRequest}]
  BY DEF RequestsOK
<1>2. ASSUME NEW g \in Handlers, requests'[g] # NoRequest
      PROVE  Writable(requests'[g])
  BY <1>2 DEF RequestsOK, WritesFollowReads
<1>3. WritesFollowReads'
  BY <1>2 DEF WritesFollowReads, Writable
<1> QED BY <1>1, <1>3 DEF RequestsOK

LEMMA RequestDone ==
  ASSUME RequestsOK, NEW h \in Handlers, Done(h)
  PROVE  RequestsOK'
  BY RequestSet DEF Done

LEMMA RequestGoes ==
  ASSUME RequestsOK, NEW h \in Handlers, requests[h] # NoRequest,
         NEW next \in {"save", "touch", "look", "rm", "run", "start", "stop"},
         Goto(h, next), next = "save" => requests[h].kind = "delete"
  PROVE  RequestsOK'
<1> DEFINE r == [requests[h] EXCEPT !.next = next]
<1>1. requests[h] \in Request /\ Writable(requests[h])
  BY DEF RequestsOK, WritesFollowReads
<1>2. r \in Request /\ r.seen = requests[h].seen /\ r.kind = requests[h].kind /\ r.next = next
  BY <1>1 DEF Request
<1>3. Writable(r)
  BY <1>1, <1>2 DEF Writable
<1>4. requests' = [requests EXCEPT ![h] = r]
  BY DEF Goto
<1> HIDE DEF r
<1> QED BY <1>2, <1>3, <1>4, RequestSet

LEMMA RequestsKept ==
  ASSUME RequestsOK, UNCHANGED requests
  PROVE  RequestsOK'
  BY DEF RequestsOK, WritesFollowReads

----------------------------------------------------------------------------
(* Docker. *)

ContainersOK == containers \in [ContainerNames -> {"missing", "exited", "running"}]

LEMMA ContainerSet ==
  ASSUME ContainersOK, NEW c, NEW s,
         c \in ContainerNames => s \in {"missing", "exited", "running"},
         containers' = [containers EXCEPT ![c] = s]
  PROVE  ContainersOK'
  BY DEF ContainersOK

LEMMA DockerKeepsType ==
  ASSUME ContainersOK, NEW h, NEW states,
         states \subseteq {"missing", "exited", "running", theContainer(h)},
         becomes(h, states)
  PROVE  ContainersOK'
<1>1. PICK s \in states : containers' = [containers EXCEPT ![requests[h].conf.container] = s]
  BY DEF becomes
<1>2. requests[h].conf.container \in ContainerNames => s \in {"missing", "exited", "running"}
  BY <1>1 DEF theContainer, ContainersOK
<1> QED BY <1>1, <1>2, ContainerSet

----------------------------------------------------------------------------
(* The steps of a handler, up to what each may change. *)

LEMMA HandlerStep ==
  ASSUME Inv, UNCHANGED outside, vpns' \in List, issued' \subseteq VpnIds,
         ContainersOK', RequestsOK', NoTouch \/ \E u : Touch(u)
  PROVE  Inv'
<1>1. TicksKept
  BY DEF outside, TicksKept
<1>2. Clocks'
  BY <1>1, TouchKeepsClocks, NoTouchKeepsClocks DEF Inv
<1>3. lastUsed' \in [VpnIds -> Minutes \cup {NoClock}] /\ quiet' \in [VpnIds -> Minutes]
  BY TouchKeepsType DEF Inv, NoTouch, TypeOK
<1>4. HoldsAreShells'
  BY ShellsKept DEF Inv, outside
<1>5. TypeOK'
  BY <1>3 DEF Inv, TypeOK, outside, ContainersOK, RequestsOK
<1> QED BY <1>2, <1>4, <1>5 DEF Inv, RequestsOK

LEMMA BeginStep ==
  ASSUME Inv, NEW h \in Handlers, NEW r \in Request \cup {NoRequest}, Begin(h, r),
         r # NoRequest => Writable(r),
         UNCHANGED outside, vpns' = vpns, issued' \subseteq VpnIds,
         containers' = containers, NoTouch \/ \E u : Touch(u)
  PROVE  Inv'
<1>1. RequestsOK /\ ContainersOK
  BY DEF Inv, RequestsOK, ContainersOK, TypeOK
<1>2. RequestsOK'
  BY <1>1, RequestSet DEF Begin
<1>3. vpns' \in List /\ ContainersOK'
  BY <1>1 DEF Inv, TypeOK, ContainersOK
<1> QED BY <1>2, <1>3, HandlerStep

LEMMA BeginInv ==
  ASSUME Inv, NEW h \in Handlers, NEW v \in VpnIds,
         \/ DeleteVpn(h, v) \/ StartVpn(h, v) \/ StopVpn(h, v)
         \/ \E conf \in Configs : CreateVpn(h, v, conf) \/ UpdateVpn(h, v, conf)
  PROVE  Inv'
<1>1. vpns \in List /\ issued \subseteq VpnIds /\ vpns[v] \in Configs \cup {NoVpn}
  BY DEF Inv, TypeOK, List
<1>2. CASE DeleteVpn(h, v)
  <2> DEFINE r == [kind |-> "delete", vpn |-> v, conf |-> vpns[v], seen |-> vpns,
       next |-> IF vpns[v] # NoVpn /\ vpns[v].container # NoName THEN "rm" ELSE "save"]
  <2>1. r \in Request /\ Writable(r)
    BY <1>1 DEF Request, Writable
  <2>2. Begin(h, r) /\ NoTouch /\ UNCHANGED <<store, containers, outside>>
    BY <1>2 DEF DeleteVpn
  <2> HIDE DEF r
  <2> QED BY <1>1, <2>1, <2>2, BeginStep DEF store
<1>3. CASE StartVpn(h, v)
  <2> DEFINE r == IF vpns[v].container = NoName THEN NoRequest
              ELSE [kind |-> "start", vpn |-> v, conf |-> vpns[v],
                    seen |-> NoList, next |-> "look"]
  <2>1. r \in Request \cup {NoRequest} /\ (r # NoRequest => Writable(r))
    BY <1>1 DEF Request, Writable
  <2>2. Begin(h, r) /\ Touch(v) /\ UNCHANGED <<store, containers, outside>>
    BY <1>3 DEF StartVpn
  <2> HIDE DEF r
  <2> QED BY <1>1, <2>1, <2>2, BeginStep DEF store
<1>4. CASE StopVpn(h, v)
  <2> DEFINE r == [kind |-> "stop", vpn |-> v, conf |-> vpns[v], seen |-> NoList,
               next |-> "stop"]
  <2>1. r \in Request /\ Writable(r)
    BY <1>1 DEF Request, Writable
  <2>2. Begin(h, r) /\ NoTouch /\ UNCHANGED <<store, containers, outside>>
    BY <1>4 DEF StopVpn
  <2> HIDE DEF r
  <2> QED BY <1>1, <2>1, <2>2, BeginStep DEF store
<1>5. ASSUME NEW conf \in Configs, CreateVpn(h, v, conf) \/ UpdateVpn(h, v, conf)
      PROVE  Inv'
  <2> DEFINE r == [kind |-> "save", vpn |-> v, conf |-> conf, seen |-> vpns,
               next |-> "save"]
  <2>1. r \in Request /\ Writable(r)
    BY <1>1 DEF Request, Writable
  <2>2. /\ Begin(h, r) /\ NoTouch /\ UNCHANGED <<vpns, containers, outside>>
        /\ issued' \subseteq VpnIds
    BY <1>1, <1>5 DEF CreateVpn, UpdateVpn, store
  <2> HIDE DEF r
  <2> QED BY <2>1, <2>2, BeginStep
<1> QED BY <1>2, <1>3, <1>4, <1>5

LEMMA StorageInv ==
  ASSUME Inv, NEW h \in Handlers, Save(h) \/ SaveFails(h) \/ TouchSaved(h)
  PROVE  Inv'
<1>1. RequestsOK /\ ContainersOK /\ vpns \in List /\ issued \subseteq VpnIds
  BY DEF Inv, RequestsOK, ContainersOK, TypeOK
<1>2. requests[h] # NoRequest => requests[h] \in Request /\ Writable(requests[h])
  BY <1>1 DEF RequestsOK, WritesFollowReads
<1>3. CASE Save(h)
  <2>1. /\ requests[h] # NoRequest /\ requests[h].next = "save"
        /\ NoTouch /\ UNCHANGED <<issued, containers, outside>>
    BY <1>3 DEF Save, at
  <2>2. vpns' \in List
    BY <1>2, <1>3, <2>1 DEF Save, Writable, List
  <2>3. CASE requests[h].kind = "delete"
    <3>1. Done(h)
      BY <1>3, <2>3 DEF Save
    <3> QED BY <1>1, <2>1, <2>2, <3>1, RequestDone, HandlerStep DEF ContainersOK
  <2>4. CASE requests[h].kind # "delete"
    <3> DEFINE r == [requests[h] EXCEPT !.seen = NoList, !.next = "touch"]
    <3>1. requests' = [requests EXCEPT ![h].seen = NoList, ![h].next = "touch"]
      BY <1>3, <2>4 DEF Save
    <3>2. requests' = [requests EXCEPT ![h] = r]
      BY <3>1, <1>1 DEF RequestsOK
    <3>3. r \in Request /\ Writable(r)
      BY <1>2, <2>1, <2>4 DEF Request, Writable
    <3> HIDE DEF r
    <3>4. RequestsOK'
      BY <1>1, <3>2, <3>3, RequestSet
    <3> QED BY <1>1, <2>1, <2>2, <3>4, HandlerStep DEF ContainersOK
  <2> QED BY <2>3, <2>4
<1>4. CASE SaveFails(h)
  <2>1. Done(h) /\ NoTouch /\ UNCHANGED <<issued, containers, outside>>
    BY <1>4 DEF SaveFails
  <2>2. vpns' \in List
    BY <1>1, <1>4 DEF SaveFails, NoVpns, List
  <2> QED BY <1>1, <2>1, <2>2, RequestDone, HandlerStep DEF ContainersOK
<1>5. CASE TouchSaved(h)
  <2>1. requests[h] # NoRequest /\ UNCHANGED <<vpns, issued, containers, outside>>
    BY <1>5 DEF TouchSaved, at, store
  <2>2. Goto(h, "rm") \/ Done(h)
    BY <1>5 DEF TouchSaved
  <2>3. RequestsOK'
    BY <1>1, <2>1, <2>2, RequestDone, RequestGoes
  <2>4. \E u : Touch(u)
    BY <1>5 DEF TouchSaved
  <2> QED BY <1>1, <2>1, <2>3, <2>4, HandlerStep DEF ContainersOK
<1> QED BY <1>3, <1>4, <1>5

LEMMA DockerInv ==
  ASSUME Inv, NEW h \in Handlers,
         DockerLook(h) \/ DockerRemove(h) \/ DockerRun(h) \/ DockerStart(h) \/ DockerStop(h)
  PROVE  Inv'
<1>1. RequestsOK /\ ContainersOK /\ vpns \in List /\ issued \subseteq VpnIds
  BY DEF Inv, RequestsOK, ContainersOK, TypeOK
<1>2. NoTouch /\ UNCHANGED <<vpns, issued, outside>> /\ requests[h] # NoRequest
  BY DEF DockerLook, DockerRemove, DockerRun, DockerStart, DockerStop, store, at
<1>3. RequestsOK'
  <2>1. CASE DockerRemove(h)
    <3>1. PICK next \in {"save", "run"} :
            Goto(h, next) /\ (next = "save" => requests[h].kind = "delete")
      BY <2>1 DEF DockerRemove
    <3> QED BY <1>1, <1>2, <3>1, RequestGoes
  <2>2. CASE DockerLook(h)
    <3>1. Done(h) \/ Goto(h, "start") \/ Goto(h, "rm")
      BY <2>2 DEF DockerLook
    <3> QED BY <1>1, <1>2, <3>1, RequestDone, RequestGoes
  <2>3. CASE DockerRun(h) \/ DockerStart(h) \/ DockerStop(h)
    BY <1>1, <2>3, RequestDone DEF DockerRun, DockerStart, DockerStop
  <2> QED BY <2>1, <2>2, <2>3
<1>4. ContainersOK'
  <2>1. CASE DockerLook(h)
    BY <1>1, <2>1 DEF DockerLook, ContainersOK
  <2>2. CASE ~DockerLook(h)
    <3>1. PICK states : /\ becomes(h, states)
                        /\ states \subseteq {"missing", "exited", "running", theContainer(h)}
      <4>1. CASE DockerRemove(h)
        BY <4>1 DEF DockerRemove
      <4>2. CASE DockerRun(h)
        BY <4>2 DEF DockerRun
      <4>3. CASE DockerStart(h)
        BY <4>3 DEF DockerStart
      <4>4. CASE DockerStop(h)
        BY <4>4 DEF DockerStop
      <4> QED BY <2>2, <4>1, <4>2, <4>3, <4>4
    <3> QED BY <1>1, <3>1, DockerKeepsType
  <2> QED BY <2>1, <2>2
<1> QED BY <1>1, <1>2, <1>3, <1>4, HandlerStep

----------------------------------------------------------------------------
(* Uses. *)

LEMMA UseInv == Inv /\ Use => Inv'
<1> SUFFICES ASSUME Inv, Use PROVE Inv'
  OBVIOUS
<1>1. /\ TicksKept /\ UNCHANGED elsewhere
      /\ \E u : Touch(u)
  BY DEF Use, OpenTerminal, CloseTerminal, SshExec, DiscoverServices, Probe,
         Hold, Release, TicksKept, elsewhere
<1>2. Clocks' /\ lastUsed' \in [VpnIds -> Minutes \cup {NoClock}] /\ quiet' \in [VpnIds -> Minutes]
  BY <1>1, TouchKeepsClocks, TouchKeepsType DEF Inv
<1>3. WritesFollowReads'
  BY <1>1 DEF Inv, WritesFollowReads, elsewhere
<1>4. /\ HoldsAreShells' /\ active' \in [VpnIds -> Nat]
      /\ shells' \in [Sessions -> VpnIds \cup {NoVpn}]
  <2>1. ASSUME NEW s \in Sessions, CloseTerminal(s)
        PROVE  HoldsAreShells' /\ active' \in [VpnIds -> Nat]
               /\ shells' \in [Sessions -> VpnIds \cup {NoVpn}]
    <3>1. shells' \in [Sessions -> VpnIds \cup {NoVpn}]
      BY <2>1 DEF Inv, TypeOK, CloseTerminal
    <3> QED BY <2>1, <3>1, CloseCounts DEF Inv
  <2>2. ASSUME NEW s \in Sessions, NEW v \in VpnIds, OpenTerminal(s, v)
        PROVE  HoldsAreShells' /\ active' \in [VpnIds -> Nat]
               /\ shells' \in [Sessions -> VpnIds \cup {NoVpn}]
    <3>1. active' \in [VpnIds -> Nat] /\ shells' \in [Sessions -> VpnIds \cup {NoVpn}]
      BY <2>2 DEF Inv, TypeOK, OpenTerminal, Hold
    <3> QED BY <2>2, <3>1, OpenCounts DEF Inv
  <2>3. CASE UNCHANGED <<active, shells>>
    BY <2>3, ShellsKept DEF Inv, TypeOK
  <2> QED BY <2>1, <2>2, <2>3 DEF Use, SshExec, DiscoverServices, Probe
<1>5. TypeOK'
  BY <1>1, <1>2, <1>4 DEF Inv, TypeOK, elsewhere, store
<1> QED BY <1>2, <1>3, <1>4, <1>5 DEF Inv

----------------------------------------------------------------------------
(* The sweep. *)

LEMMA ContinueKeeps ==
  ASSUME sweep \in Sweep, NEW v, Continue(v)
  PROVE  sweep' \in Sweep \cup {NoSweep} /\ (sweep' # NoSweep => sweep'.lag = sweep.lag)
<1> DEFINE todo == [sweep.todo EXCEPT ![v] = NoVpn]
<1>1. todo \in List
  BY DEF Sweep, List
<1>2. \/ sweep' = NoSweep
      \/ sweep' = [sweep EXCEPT !.todo = todo, !.on = NoVpn, !.next = "idle"]
  BY DEF Continue
<1> HIDE DEF todo
<1> QED BY <1>1, <1>2 DEF Sweep

LEMMA SweepStep ==
  ASSUME Inv, UNCHANGED aside, ContainersOK', sweep' \in Sweep \cup {NoSweep},
         lastUsed' \in [VpnIds -> Minutes \cup {NoClock}],
         quiet' \in [VpnIds -> Minutes], Clocks'
  PROVE  Inv'
<1>1. HoldsAreShells' /\ WritesFollowReads'
  BY ShellsKept DEF Inv, aside, WritesFollowReads
<1>2. TypeOK'
  BY DEF Inv, TypeOK, aside, store, ContainersOK
<1> QED BY <1>1, <1>2 DEF Inv

LEMMA SweepInv ==
  ASSUME Inv, Consider \/ FindsRunning \/ FindsNothing \/ SweepStops \/ SweepTouches
  PROVE  Inv'
<1>1. /\ sweep \in Sweep /\ UNCHANGED aside /\ sweep # NoSweep
      /\ ContainersOK /\ lastUsed \in [VpnIds -> Minutes \cup {NoClock}]
      /\ quiet \in [VpnIds -> Minutes]
  BY DEF Inv, TypeOK, ContainersOK, Consider, FirstSight, Pass, Due, FindsRunning,
         FindsNothing, SweepStops, SweepTouches, considers, at_sweep
<1>2. sweep' \in Sweep \cup {NoSweep} /\ (sweep' # NoSweep => sweep'.lag = sweep.lag)
  <2>1. CASE \E v \in VpnIds : Due(v)
    BY <1>1, <2>1 DEF Due, Sweep
  <2>2. CASE FindsRunning \/ SweepStops
    BY <1>1, <2>2 DEF FindsRunning, SweepStops, Sweep
  <2>3. CASE \E v : Continue(v)
    BY <1>1, <2>3, ContinueKeeps
  <2> QED BY <2>1, <2>2, <2>3 DEF Consider, FirstSight, Pass, FindsNothing, SweepTouches
<1>3. TicksKept
  BY <1>1, <1>2 DEF TicksKept, aside
<1>4. ContainersOK'
  <2>1. CASE SweepStops
    <3>1. \/ UNCHANGED containers
          \/ containers' = [containers EXCEPT ![its] = "exited"]
      BY <2>1 DEF SweepStops
    <3> QED BY <1>1, <3>1, ContainerSet DEF ContainersOK
  <2>2. CASE ~SweepStops
    BY <1>1, <2>2 DEF Consider, FirstSight, Pass, Due, FindsRunning,
         FindsNothing, SweepTouches, ContainersOK
  <2> QED BY <2>1, <2>2
<1>5. CASE \E v \in VpnIds : FirstSight(v)
  <2>1. PICK v \in VpnIds : FirstSight(v)
    BY <1>5
  <2>2. lastUsed' = [lastUsed EXCEPT ![v] = sweep.lag] /\ quiet' = quiet /\ lastUsed[v] = NoClock
    BY <2>1 DEF FirstSight
  <2>3. sweep.lag \in Minutes /\ sweep.lag # NoClock
    BY <1>1, VpnIdleAssumption DEF Sweep, Minutes, Cap
  <2>4. ClockBehindUse'
    BY <1>1, <2>2 DEF Inv, Clocks, ClockBehindUse, ClockAfterTick
  <2>5. ClockAfterTick'
    BY <1>1, <1>3, <2>2, <2>3 DEF Inv, Clocks, ClockAfterTick, TicksKept
  <2>6. lastUsed' \in [VpnIds -> Minutes \cup {NoClock}]
    BY <1>1, <2>2, <2>3
  <2> QED BY <1>1, <1>2, <1>4, <2>2, <2>4, <2>5, <2>6, SweepStep DEF Clocks
<1>6. CASE NoTouch
  <2>1. Clocks'
    BY <1>3, <1>6, NoTouchKeepsClocks DEF Inv
  <2> QED BY <1>1, <1>2, <1>4, <1>6, <2>1, SweepStep DEF NoTouch
<1>7. CASE SweepTouches
  <2>1. /\ Clocks' /\ quiet' \in [VpnIds -> Minutes]
        /\ lastUsed' \in [VpnIds -> Minutes \cup {NoClock}]
    BY <1>3, <1>7, TouchKeepsClocks, TouchKeepsType DEF Inv, SweepTouches
  <2> QED BY <1>1, <1>2, <1>4, <2>1, SweepStep
<1> QED BY <1>5, <1>6, <1>7 DEF Consider, Pass, Due, FindsRunning, FindsNothing, SweepStops

LEMMA TickInv ==
  ASSUME Inv, SweepBegins \/ SweepSkipped
  PROVE  Inv'
<1>1. UNCHANGED <<vpns, issued, containers, lastUsed, active, shells, quiet, requests, sealed>>
  BY DEF SweepBegins, SweepSkipped, store, tracker
<1>2. /\ sweep' \in Sweep \cup {NoSweep} /\ tick' = NoTick
      /\ sweep' # NoSweep => tick # NoTick /\ sweep'.lag = tick
  BY DEF SweepBegins, SweepSkipped, Sweep, Inv, TypeOK
<1>3. Clocks'
  BY <1>1, <1>2 DEF Inv, Clocks, ClockBehindUse, ClockAfterTick
<1>4. HoldsAreShells' /\ WritesFollowReads'
  BY <1>1, ShellsKept DEF Inv, WritesFollowReads
<1>5. TypeOK'
  BY <1>1, <1>2 DEF Inv, TypeOK
<1> QED BY <1>3, <1>4, <1>5 DEF Inv

----------------------------------------------------------------------------
(* Around the server. *)

LEMMA MinuteInv == ASSUME Inv, Minute PROVE Inv'
<1> USE VpnIdleAssumption
<1>1. /\ lastUsed' = [v \in VpnIds |-> IF lastUsed[v] = NoClock THEN NoClock ELSE older(lastUsed[v])]
      /\ quiet' = [v \in VpnIds |-> older(quiet[v])]
      /\ tick' = IF tick = NoTick THEN 0 ELSE tick + 1
      /\ sweep' = IF sweep = NoSweep THEN NoSweep ELSE [sweep EXCEPT !.lag = @ + 1]
      /\ UNCHANGED <<vpns, issued, containers, active, shells, requests, sealed>>
  BY DEF Minute, store
<1>2. \A v \in VpnIds : /\ quiet[v] \in Minutes
                        /\ lastUsed[v] # NoClock => lastUsed[v] \in Minutes
  BY DEF Inv, TypeOK
<1>3. \A v \in VpnIds : lastUsed'[v] = NoClock <=> lastUsed[v] = NoClock
  BY <1>1, <1>2, OlderIsLater DEF Minutes
<1>4. tick # NoTick => tick \in Nat /\ tick < MaxLag /\ tick' = tick + 1
  BY <1>1 DEF Minute, Inv, TypeOK
<1>5. sweep # NoSweep => sweep \in Sweep /\ sweep.lag \in Nat /\ sweep.lag < MaxLag
                         /\ sweep'.lag = sweep.lag + 1
  BY <1>1 DEF Minute, Inv, TypeOK, Sweep
<1>6. ClockBehindUse'
  BY <1>1, <1>2, <1>3, OlderIsLater DEF Inv, Clocks, ClockBehindUse
<1>7. ClockAfterTick'
  <2> SUFFICES ASSUME NEW v \in VpnIds, lastUsed'[v] = NoClock
               PROVE  /\ tick' # NoTick => tick' <= quiet'[v]
                      /\ sweep' # NoSweep => sweep'.lag <= quiet'[v]
    BY DEF ClockAfterTick
  <2>1. lastUsed[v] = NoClock /\ quiet'[v] = older(quiet[v]) /\ quiet'[v] \in Minutes
    BY <1>1, <1>2, <1>3, OlderIsLater
  <2>2. tick # NoTick => tick + 1 <= older(quiet[v])
    BY <1>2, <1>4, <2>1, OlderIsLater DEF Inv, Clocks, ClockAfterTick
  <2>3. sweep # NoSweep => sweep.lag + 1 <= older(quiet[v])
    BY <1>2, <1>5, <2>1, OlderIsLater DEF Inv, Clocks, ClockAfterTick
  <2>4. 0 <= quiet'[v]
    BY <2>1 DEF Minutes
  <2> QED BY <1>1, <1>4, <1>5, <2>1, <2>2, <2>3, <2>4
<1>8. HoldsAreShells' /\ WritesFollowReads'
  BY <1>1, ShellsKept DEF Inv, WritesFollowReads
<1>9. TypeOK'
  <2>1. lastUsed' \in [VpnIds -> Minutes \cup {NoClock}] /\ quiet' \in [VpnIds -> Minutes]
    BY <1>1, <1>2, OlderIsLater
  <2>2. tick' \in 0..MaxLag \cup {NoTick}
    BY <1>1, <1>4
  <2>3. sweep' \in Sweep \cup {NoSweep}
    BY <1>1, <1>5 DEF Sweep
  <2> QED BY <1>1, <2>1, <2>2, <2>3 DEF Inv, TypeOK
<1> QED BY <1>6, <1>7, <1>8, <1>9 DEF Inv, Clocks

(* Nothing of the tracker survives a restart, and nobody holds anything.   *)
LEMMA InitInv == ASSUME Init PROVE Inv
<1> USE VpnIdleAssumption
<1>1. TypeOK
  <2>1. 0 \in Minutes
    BY DEF Minutes, Cap
  <2> QED BY <2>1 DEF Init, TypeOK
<1>2. HoldsAreShells
  <2>1. \A v \in VpnIds : holders(v) = {}
    BY DEF Init, holders
  <2> QED BY <2>1, FS_EmptySet DEF Init, HoldsAreShells
<1>3. Clocks /\ WritesFollowReads
  BY DEF Init, Clocks, ClockBehindUse, ClockAfterTick, WritesFollowReads
<1> QED BY <1>1, <1>2, <1>3 DEF Inv

LEMMA RestartInv == ASSUME Inv, Restart PROVE Inv'
<1> USE VpnIdleAssumption
<1>1. TypeOK'
  <2>1. 0 \in Minutes
    BY DEF Minutes, Cap
  <2> QED BY <2>1 DEF Restart, Inv, TypeOK, store
<1>2. HoldsAreShells'
  <2>1. \A v \in VpnIds : holders(v)' = {}
    BY DEF Restart, holders
  <2> QED BY <2>1, FS_EmptySet DEF Restart, HoldsAreShells
<1>3. Clocks' /\ WritesFollowReads'
  BY DEF Restart, Clocks, ClockBehindUse, ClockAfterTick, WritesFollowReads
<1> QED BY <1>1, <1>2, <1>3 DEF Inv

LEMMA EnvironmentInv == ASSUME Inv, Environment PROVE Inv'
<1>1. CASE Unseal \/ \E c \in ContainerNames : Exits(c) \/ Pruned(c)
  <2>1. /\ UNCHANGED <<vpns, issued, lastUsed, active, shells, quiet, requests, tick, sweep>>
        /\ sealed' \in BOOLEAN
    BY <1>1 DEF Unseal, Exits, Pruned, store, tracker, Inv, TypeOK
  <2>2. ContainersOK'
    BY <1>1 DEF Unseal, Exits, Pruned, Inv, TypeOK, ContainersOK
  <2>3. TypeOK'
    BY <2>1, <2>2 DEF Inv, TypeOK, ContainersOK
  <2>4. Clocks' /\ WritesFollowReads'
    BY <2>1 DEF Inv, Clocks, ClockBehindUse, ClockAfterTick, WritesFollowReads
  <2> QED BY <2>1, <2>3, <2>4, ShellsKept DEF Inv
<1> QED BY <1>1, MinuteInv, RestartInv DEF Environment

LEMMA NextInv == ASSUME Inv, [Next]_vars PROVE Inv'
<1>1. CASE UNCHANGED vars
  <2>1. TypeOK'
    BY <1>1 DEF vars, store, tracker, Inv, TypeOK
  <2>2. HoldsAreShells'
    BY <1>1, ShellsKept DEF vars, tracker, Inv
  <2>3. Clocks' /\ WritesFollowReads'
    BY <1>1 DEF vars, tracker, Inv, Clocks, ClockBehindUse, ClockAfterTick, WritesFollowReads
  <2> QED BY <2>1, <2>2, <2>3 DEF Inv
<1>2. ASSUME NEW h \in Handlers, Handle(h) PROVE Inv'
  BY <1>2, BeginInv, StorageInv, DockerInv DEF Handle
<1> QED BY <1>1, <1>2, UseInv, SweepInv, TickInv, EnvironmentInv DEF Next

----------------------------------------------------------------------------
(* The state stays within its types, for any number of terminals.          *)
THEOREM TypeCorrect == Spec => []TypeOK
<1>1. Inv => TypeOK
  BY DEF Inv
<1> QED BY <1>1, InitInv, NextInv, PTL DEF Spec

(* The tracker counts the open terminals.                                  *)
THEOREM HoldsCorrect == Spec => []HoldsAreShells
<1>1. Inv => HoldsAreShells
  BY DEF Inv
<1> QED BY <1>1, InitInv, NextInv, PTL DEF Spec

(* No idle clock is ahead of the last use.                                 *)
THEOREM ClocksCorrect == Spec => []ClockBehindUse
<1>1. Inv => ClockBehindUse
  BY DEF Inv, Clocks
<1> QED BY <1>1, InitInv, NextInv, PTL DEF Spec

Decides(v) ==
  sweep' # NoSweep /\ sweep'.on = v /\ (sweep = NoSweep \/ sweep.on # v) =>
    /\ quiet[v] >= sweep.lag + sweep.todo[v].timeout
    /\ holders(v) = {}

LEMMA DueIsIdle ==
  ASSUME Inv, NEW v \in VpnIds, Due(v)
  PROVE  quiet[v] >= sweep.lag + sweep.todo[v].timeout /\ holders(v) = {}
<1> USE VpnIdleAssumption
<1>1. /\ lastUsed[v] # NoClock /\ lastUsed[v] >= sweep.lag + sweep.todo[v].timeout
      /\ active[v] = 0 /\ sweep \in Sweep /\ sweep.todo[v] # NoVpn
  BY DEF Due, due, considers, at_sweep, inUse, Inv, TypeOK
<1>2. sweep.lag \in Nat /\ sweep.todo[v].timeout \in Nat
  BY <1>1 DEF Sweep, List, Config
<1>3. lastUsed[v] \in Nat /\ quiet[v] \in Nat /\ lastUsed[v] <= quiet[v]
  BY <1>1 DEF Inv, TypeOK, Clocks, ClockBehindUse, Minutes, Cap
<1>4. holders(v) = {}
  BY <1>1, HoldersAreFinite DEF Inv, HoldsAreShells
<1> QED BY <1>1, <1>2, <1>3, <1>4

LEMMA OnlyDueDecides ==
  ASSUME Inv, [Next]_vars, NEW v \in VpnIds
  PROVE  Decides(v)
<1> USE VpnIdleAssumption
<1> SUFFICES ASSUME sweep' # NoSweep, sweep'.on = v, sweep = NoSweep \/ sweep.on # v
             PROVE  Due(v)
  BY DueIsIdle DEF Decides
<1>1. sweep # NoSweep => sweep \in Sweep
  BY DEF Inv, TypeOK
<1>2. ~ \E u : sweep # NoSweep /\ Continue(u)
  BY <1>1 DEF Continue, Sweep
<1>3. ~ UNCHANGED sweep
  OBVIOUS
<1>4. ~ (FindsRunning \/ SweepStops)
  BY <1>1 DEF FindsRunning, SweepStops, Sweep, at_sweep
<1>5. ~ (SweepBegins \/ Minute \/ Restart)
  BY <1>1 DEF SweepBegins, Minute, Restart, Sweep
<1>6. \E u \in VpnIds : Due(u)
  BY <1>2, <1>3, <1>4, <1>5
     DEF Next, vars, Use, OpenTerminal, CloseTerminal, SshExec, DiscoverServices, Probe,
         elsewhere, Handle, CreateVpn, UpdateVpn, DeleteVpn, StartVpn, StopVpn, Save,
         SaveFails, TouchSaved, DockerLook, DockerRemove, DockerRun, DockerStart, DockerStop,
         outside, SweepSkipped, Consider, FirstSight, Pass, FindsNothing, SweepTouches,
         Environment, Unseal, Exits, Pruned, considers, at_sweep
<1> QED BY <1>1, <1>6 DEF Due, Sweep, considers, at_sweep

(* The sweep decides to stop only what was idle for its timeout, with no   *)
(* terminal open, whatever requests, restarts and late ticks came between. *)
THEOREM SweepSparesUsed == Spec => DecidesOnlyIdle
<1>1. Inv /\ [Next]_vars => \A v \in VpnIds : Decides(v)
  BY OnlyDueDecides
<1> QED BY <1>1, InitInv, NextInv, PTL DEF Spec, DecidesOnlyIdle, Decides
=============================================================================
