---------------------------- MODULE CanvasProofs ----------------------------
(***************************************************************************)
(* Proofs about the canvas: about ProjectView, for any projects and any    *)
(* number of switches, drags, edits and loads under way, and then about    *)
(* LiveStatus, for any hosts, any number of calls under way about each,    *)
(* and any number of changes and lost calls.                               *)
(***************************************************************************)
EXTENDS ProjectView, LiveStatus, TLAPS

(* One load of a layout at most is under way: that of the active project,  *)
(* which is not loaded yet.                                                *)
OneLoad ==
  /\ \A l \in loads : l.project = active
  /\ \A l, k \in loads : l = k
  /\ loaded => loads = {}

CanvasInv ==
  /\ graphShown <=> canvas # NoCanvas
  /\ hydrated <=> (graphShown /\ loaded)
  /\ CanvasFollowsPositions

HookInv == PendingHasTimer /\ LoadedIsActive /\ OneLoad

Inv == TypeOK /\ HookInv /\ CanvasInv

LEMMA PlacedIsArrangement ==
  ASSUME NEW p \in Projects \cup {NoProject}, NEW where \in Arrangement
  PROVE  placed(p, where) \in Arrangement /\ Automatic(p) \in Arrangement
  BY ProjectViewAssumption DEF placed, Automatic, Arrangement

(* What a render leaves, when the positions change only while the layout   *)
(* was not loaded.                                                         *)
LEMMA RenderInv ==
  ASSUME TypeOK, CanvasInv, Render, loaded => positions' = positions,
         data' \in Projects \cup {NoProject}, positions' \in Arrangement,
         {loading', error', loadedOnce', loaded'} \subseteq BOOLEAN
  PROVE  CanvasInv' /\ canvas' \in Arrangement \cup {NoCanvas} /\ hydrated' \in BOOLEAN
<1> USE ProjectViewAssumption
<1>1. placed(data', positions') \in Arrangement /\ Automatic(data') \in Arrangement
  BY PlacedIsArrangement
<1>2. canvas' \in Arrangement \cup {NoCanvas} /\ hydrated' \in BOOLEAN
  BY <1>1 DEF Render, TypeOK, graphShown
<1>3. graphShown' <=> canvas' # NoCanvas
  BY <1>1 DEF Render, keepsNodes
<1>4. hydrated' <=> (graphShown' /\ loaded')
  BY DEF Render
<1>5. CanvasFollowsPositions'
  <2> SUFFICES ASSUME loaded', canvas' # NoCanvas
               PROVE  canvas' = placed(data', positions')
    BY DEF CanvasFollowsPositions, placed
  <2>1. CASE keepsNodes(data')
    <3>1. canvas' = canvas /\ canvas.of = data' /\ hydrated
      BY <1>3, <2>1 DEF Render, keepsNodes
    <3>2. loaded /\ canvas = placed(data, positions) /\ positions' = positions
      BY <2>1, <3>1 DEF CanvasInv, CanvasFollowsPositions, keepsNodes
    <3>3. data = data'
      BY <3>1, <3>2 DEF placed
    <3> QED BY <3>1, <3>2, <3>3
  <2>2. CASE ~ keepsNodes(data')
    BY <1>3, <2>2 DEF Render
  <2> QED BY <2>1, <2>2
<1> QED BY <1>2, <1>3, <1>4, <1>5 DEF CanvasInv

LEMMA CanvasKept ==
  ASSUME CanvasInv, UNCHANGED <<canvas, hydrated, loading, error, loadedOnce, loaded, data, positions>>
  PROVE  CanvasInv'
  BY DEF CanvasInv, CanvasFollowsPositions, graphShown, placed

LEMMA HookKept ==
  ASSUME HookInv, UNCHANGED <<active, loads, loaded, answered, timer, pending>>
  PROVE  HookInv'
  BY DEF HookInv, PendingHasTimer, LoadedIsActive, OneLoad

----------------------------------------------------------------------------
LEMMA InitInv == ASSUME Init PROVE Inv
<1> USE ProjectViewAssumption
<1>1. /\ Automatic(NoProject) \in Arrangement
      /\ \A p \in Projects : Automatic(p) \in Arrangement
  BY DEF Automatic, Arrangement
<1>2. HookInv
  BY DEF Init, HookInv, PendingHasTimer, LoadedIsActive, OneLoad, asking
<1>3. CanvasInv
  BY DEF Init, CanvasInv, CanvasFollowsPositions, graphShown
<1>4. loads \subseteq Load
  BY DEF Init, Load, asking
<1>5. TypeOK
  <2>1. stored \in [Projects -> Arrangement] /\ puts \subseteq Put
    BY <1>1 DEF Init
  <2>2. reloads \in [Projects -> 0..MaxReloads]
    BY DEF Init
  <2>3. {loading, error, loadedOnce, loaded, timer, hydrated} \subseteq BOOLEAN
    BY DEF Init
  <2>4. switches \in 0..MaxSwitches /\ drags \in 0..MaxDrags /\ edited \in 0..MaxEdits
    BY DEF Init
  <2>5. positions \in Arrangement /\ canvas = NoCanvas /\ pending = NoPending
    BY <1>1 DEF Init
  <2>6. active \in Projects /\ edits = {} /\ data = NoProject /\ answered = NoProject
    BY DEF Init
  <2> QED BY <1>4, <2>1, <2>2, <2>3, <2>4, <2>5, <2>6 DEF TypeOK
<1> QED BY <1>2, <1>3, <1>5 DEF Inv

LEMMA FlushType ==
  ASSUME TypeOK, NEW p \in Projects, FlushTo(p)
  PROVE  puts' \subseteq Put /\ pending' = NoPending
  BY DEF TypeOK, FlushTo, Put

LEMMA ReloadType ==
  ASSUME TypeOK, NEW p \in Projects, Reload(p)
  PROVE  reloads' \in [Projects -> 0..MaxReloads] /\ error' = FALSE
<1>1. reloads[p] + 1 \in 0..MaxReloads
  BY ProjectViewAssumption DEF TypeOK, Reload
<1> QED BY <1>1 DEF TypeOK, Reload

(* An answer to a load under way keeps its type.                           *)
LEMMA LoadTypes ==
  ASSUME TypeOK, NEW l \in loads
  PROVE  l \in Load /\ l.project \in Projects /\ l.answer \in Arrangement \cup {Asked, Failed}
  BY DEF TypeOK, Load

----------------------------------------------------------------------------
(* One lemma per group of actions. *)

LEMMA DragInv == ASSUME Inv, Drag \/ Reset PROVE Inv'
<1> USE ProjectViewAssumption DEF Inv
<1>1. data \in Projects \cup {NoProject} /\ positions \in Arrangement
  BY DEF TypeOK
<1>2. Automatic(data) \in Arrangement /\ Automatic(NoProject) \in Arrangement
  BY <1>1, PlacedIsArrangement
<1>3. CASE Drag
  <2>1. canvas \in Arrangement /\ drags + 1 \in 0..MaxDrags
    BY <1>3 DEF Drag, TypeOK
  <2>2. canvas' = [of |-> canvas.of, no |-> drags + 1] /\ canvas' \in Arrangement
    BY <1>3, <2>1 DEF Drag, Arrangement
  <2>3. TypeOK'
    BY <1>3, <2>1, <2>2
    DEF TypeOK, Drag, SavePositions, server, infra
  <2>4. HookInv'
    BY <1>3 DEF Drag, SavePositions, HookInv, PendingHasTimer, LoadedIsActive, OneLoad
  <2>5. loaded => canvas.of = data
    BY <1>3 DEF Drag, CanvasInv, CanvasFollowsPositions, placed
  <2>6. CanvasFollowsPositions'
    BY <1>3, <2>2, <2>5 DEF CanvasFollowsPositions, placed, Drag, SavePositions, infra
  <2>7. CanvasInv'
    BY <1>3, <2>2, <2>6 DEF CanvasInv, Drag, infra, graphShown
  <2> QED BY <2>3, <2>4, <2>7
<1>4. CASE Reset
  <2>1. drags + 1 \in 0..MaxDrags
    BY <1>4 DEF Reset, TypeOK
  <2>2. TypeOK'
    BY <1>2, <1>4, <2>1 DEF TypeOK, Reset, SavePositions, server, infra
  <2>3. HookInv'
    BY <1>4 DEF Reset, SavePositions, HookInv, PendingHasTimer, LoadedIsActive, OneLoad
  <2>4. CanvasFollowsPositions'
    BY <1>4 DEF CanvasFollowsPositions, placed, Reset, SavePositions, infra, Automatic
  <2>5. CanvasInv'
    BY <1>2, <1>4, <2>4 DEF CanvasInv, Reset, infra, graphShown
  <2> QED BY <2>2, <2>3, <2>5
<1> QED BY <1>3, <1>4

LEMMA TimerInv == ASSUME Inv, TimerFires PROVE Inv'
<1>1. puts' \subseteq Put /\ pending' = NoPending
  BY FlushType DEF Inv, TimerFires, TypeOK
<1>2. TypeOK'
  BY <1>1 DEF Inv, TypeOK, TimerFires, infra, screen, bounds
<1>3. HookInv'
  BY <1>1 DEF Inv, HookInv, PendingHasTimer, LoadedIsActive, OneLoad, TimerFires
<1>4. CanvasInv'
  BY CanvasKept DEF Inv, TimerFires, infra, screen
<1> QED BY <1>2, <1>3, <1>4 DEF Inv

LEMMA AnswersInv == ASSUME Inv, LayoutAnswers PROVE Inv'
<1>1. PICK l \in loads, answer \in Arrangement \cup {Failed} :
           loads' = (loads \ {l}) \cup {[l EXCEPT !.answer = answer]}
  BY DEF LayoutAnswers
<1>2. UNCHANGED <<server, active, infra, positions, loaded, timer, pending, answered,
                  screen, bounds>>
  BY DEF LayoutAnswers
<1>3. /\ [l EXCEPT !.answer = answer] \in Load
      /\ [l EXCEPT !.answer = answer].project = l.project
  BY LoadTypes DEF Inv, Load
<1>4. TypeOK'
  BY <1>1, <1>2, <1>3 DEF Inv, TypeOK, server, infra, screen, bounds
<1>5. OneLoad'
  BY <1>1, <1>2, <1>3 DEF Inv, HookInv, OneLoad
<1>6. HookInv'
  BY <1>2, <1>5 DEF Inv, HookInv, PendingHasTimer, LoadedIsActive
<1>7. CanvasInv'
  BY <1>2, CanvasKept DEF Inv, infra, screen
<1> QED BY <1>4, <1>6, <1>7 DEF Inv

LEMMA ArrivesInv == ASSUME Inv, LayoutArrives \/ LayoutFails PROVE Inv'
<1>1. PICK l \in loads :
         /\ loads' = loads \ {l} /\ loaded' = TRUE /\ answered' = l.project
         /\ positions' = positions \/ (positions' = l.answer /\ l.answer \notin {Asked, Failed})
  BY DEF LayoutArrives, LayoutFails
<1>2. UNCHANGED <<server, active, infra, timer, pending, bounds>> /\ Render
  BY DEF LayoutArrives, LayoutFails
<1>3. l.project = active /\ loads' = {} /\ ~loaded
  BY <1>1 DEF Inv, HookInv, OneLoad
<1>4. positions' \in Arrangement
  BY <1>1, LoadTypes DEF Inv, TypeOK
<1>5. HookInv'
  BY <1>1, <1>2, <1>3 DEF Inv, HookInv, PendingHasTimer, LoadedIsActive, OneLoad
<1>6. CanvasInv' /\ canvas' \in Arrangement \cup {NoCanvas} /\ hydrated' \in BOOLEAN
  BY <1>1, <1>2, <1>3, <1>4, RenderInv DEF Inv, TypeOK, infra
<1>7. TypeOK'
  BY <1>1, <1>2, <1>3, <1>4, <1>6 DEF Inv, TypeOK, server, infra, bounds
<1> QED BY <1>5, <1>6, <1>7 DEF Inv

(* The actions of useInfraData that render.                                *)
LEMMA InfraRenders ==
  ASSUME Inv, Render, UNCHANGED <<server, active, layout, bounds>>,
         reloads' \in [Projects -> 0..MaxReloads], edits' \subseteq Projects,
         data' \in Projects \cup {NoProject}, {loading', error', loadedOnce'} \subseteq BOOLEAN
  PROVE  Inv'
<1>1. HookInv'
  BY HookKept DEF Inv, layout
<1>2. CanvasInv' /\ canvas' \in Arrangement \cup {NoCanvas} /\ hydrated' \in BOOLEAN
  BY RenderInv DEF Inv, TypeOK, layout
<1>3. TypeOK'
  BY <1>2 DEF Inv, TypeOK, server, layout, bounds
<1> QED BY <1>1, <1>2, <1>3 DEF Inv

LEMMA InfraInv ==
  ASSUME Inv, Retry \/ EndEdit \/ DataArrives \/ DataFails
  PROVE  Inv'
<1> USE ProjectViewAssumption
<1>1. CASE Retry
  <2>1. Reload(active) /\ active \in Projects
    BY <1>1 DEF Retry, Inv, TypeOK
  <2>2. reloads' \in [Projects -> 0..MaxReloads] /\ error' = FALSE
    BY <2>1, ReloadType DEF Inv
  <2> QED BY <1>1, <2>2, InfraRenders DEF Retry, Inv, TypeOK
<1>2. CASE EndEdit
  <2>1. PICK p \in edits : edits' = edits \ {p} /\ Reload(p)
    BY <1>2 DEF EndEdit
  <2>2. reloads' \in [Projects -> 0..MaxReloads] /\ error' = FALSE
    BY <2>1, ReloadType DEF Inv, TypeOK
  <2> QED BY <1>2, <2>1, <2>2, InfraRenders DEF EndEdit, Inv, TypeOK
<1>3. CASE DataArrives \/ DataFails
  <2>1. PICK p \in Projects :
           reloads[p] > 0 /\ reloads' = [reloads EXCEPT ![p] = @ - 1]
    BY <1>3 DEF DataArrives, DataFails
  <2>2. reloads[p] - 1 \in 0..MaxReloads
    BY <2>1 DEF Inv, TypeOK
  <2>3. reloads' \in [Projects -> 0..MaxReloads]
    BY <2>1, <2>2 DEF Inv, TypeOK
  <2>4. CASE DataArrives
    BY <2>3, <2>4, InfraRenders DEF DataArrives, Inv, TypeOK
  <2>5. CASE DataFails
    BY <2>3, <2>5, InfraRenders DEF DataFails, Inv, TypeOK
  <2> QED BY <1>3, <2>4, <2>5
<1> QED BY <1>1, <1>2, <1>3

LEMMA SwitchInv == ASSUME Inv, NEW q \in Projects, Switch(q) PROVE Inv'
<1> USE ProjectViewAssumption
<1>1. puts' \subseteq Put /\ pending' = NoPending
  BY FlushType DEF Inv, Switch, FlushAtSwitch
<1>2. reloads' \in [Projects -> 0..MaxReloads] /\ error' = FALSE
  BY ReloadType DEF Inv, Switch
<1>3. loads' = {asking(q)} /\ active' = q /\ loaded' = FALSE /\ loadedOnce' = FALSE
  BY DEF Switch, goOn
<1>4. asking(q) \in Load /\ asking(q).project = q
  BY DEF asking, Load
<1>5. HookInv'
  BY <1>1, <1>3, <1>4 DEF HookInv, PendingHasTimer, LoadedIsActive, OneLoad
<1>6. CanvasInv' /\ canvas' \in Arrangement \cup {NoCanvas} /\ hydrated' \in BOOLEAN
  BY <1>2, <1>3, RenderInv DEF Inv, TypeOK, Switch
<1>7. switches' \in 0..MaxSwitches
  BY DEF Inv, TypeOK, Switch
<1>8. TypeOK'
  BY <1>1, <1>2, <1>3, <1>4, <1>6, <1>7 DEF Inv, TypeOK, Switch
<1> QED BY <1>5, <1>6, <1>8 DEF Inv

(* The server's steps and the start of an edit leave the browser's parts.  *)
LEMMA RestInv ==
  ASSUME Inv, BeginEdit \/ EditFails \/ PutReads \/ PutWrites \/ PutFails
              \/ \E p \in Projects : OtherSaves(p)
  PROVE  Inv'
<1> USE ProjectViewAssumption
<1>1. UNCHANGED <<active, layout, screen, loading, error, loadedOnce, data, reloads>>
  BY DEF BeginEdit, EditFails, PutReads, PutWrites, PutFails, OtherSaves, infra
<1>2. HookInv' /\ CanvasInv'
  BY <1>1, HookKept, CanvasKept DEF Inv, layout, screen
<1>3. stored' \in [Projects -> Arrangement] /\ puts' \subseteq Put
  <2>1. CASE BeginEdit \/ EditFails
    BY <2>1 DEF BeginEdit, EditFails, server, Inv, TypeOK
  <2>2. CASE PutReads
    BY <2>2 DEF PutReads, Inv, TypeOK, Put
  <2>3. CASE PutWrites
    BY <2>3 DEF PutWrites, Inv, TypeOK, Put
  <2>4. CASE PutFails
    BY <2>4 DEF PutFails, Inv, TypeOK
  <2>5. CASE \E p \in Projects : OtherSaves(p)
    <3>1. PICK p \in Projects : OtherSaves(p)
      BY <2>5
    <3>2. [of |-> p, no |-> drags + 1] \in Arrangement
      BY <3>1 DEF OtherSaves, Inv, TypeOK, Arrangement
    <3> QED BY <3>1, <3>2 DEF OtherSaves, Inv, TypeOK
  <2> QED BY <2>1, <2>2, <2>3, <2>4, <2>5
<1>4. /\ edits' \subseteq Projects
      /\ switches' \in 0..MaxSwitches /\ drags' \in 0..MaxDrags /\ edited' \in 0..MaxEdits
  BY DEF BeginEdit, EditFails, PutReads, PutWrites, PutFails, OtherSaves, infra, bounds, Inv,
     TypeOK
<1>5. TypeOK'
  BY <1>1, <1>3, <1>4 DEF Inv, TypeOK, layout, screen
<1> QED BY <1>2, <1>5 DEF Inv

LEMMA NextInv == ASSUME Inv, [Next]_vars PROVE Inv'
<1>1. CASE UNCHANGED vars
  <2>1. HookInv' /\ CanvasInv'
    BY <1>1, HookKept, CanvasKept DEF Inv, vars, infra, layout, screen
  <2>2. TypeOK'
    BY <1>1 DEF Inv, TypeOK, vars, server, infra, layout, screen, bounds
  <2> QED BY <2>1, <2>2 DEF Inv
<1>2. CASE Next
  BY <1>2, DragInv, TimerInv, AnswersInv, ArrivesInv, InfraInv, SwitchInv, RestInv DEF Next
<1> QED BY <1>1, <1>2

----------------------------------------------------------------------------
LEMMA InvAlways == Spec => []Inv
  BY InitInv, NextInv, PTL DEF Spec

(* Every variable of the browser and of the server keeps its type.         *)
THEOREM TypeCorrect == Spec => []TypeOK
<1>1. Inv => TypeOK
  BY DEF Inv
<1> QED BY <1>1, InvAlways, PTL

(* savePositions, flush and the cleanup leave no drag without a timer.     *)
THEOREM PendingCorrect == Spec => []PendingHasTimer
<1>1. Inv => PendingHasTimer
  BY DEF Inv, HookInv
<1> QED BY <1>1, InvAlways, PTL

(* The cancelled flag of the load effect: "loaded" is of the active        *)
(* project, in whatever order the answers come.                            *)
THEOREM LoadedCorrect == Spec => []LoadedIsActive
<1>1. Inv => LoadedIsActive
  BY DEF Inv, HookInv
<1> QED BY <1>1, InvAlways, PTL

(* The hydrated flag of the canvas: a loaded canvas shows the positions.   *)
THEOREM CanvasCorrect == Spec => []CanvasFollowsPositions
<1>1. Inv => CanvasFollowsPositions
  BY DEF Inv, CanvasInv
<1> QED BY <1>1, InvAlways, PTL

----------------------------------------------------------------------------
Polls == {"ping", "metrics", "services"}

(* What a call can be: not there, under way, failed, or a reading.         *)
Readings(k) == IF k = "ping" THEN {"online", "offline"}
               ELSE IF k = "metrics" THEN Loads \cup {"nothing"}
               ELSE {"nothing", "running", "stopped"}
Slots(k) == [1..MaxPolls -> {"none", "asked", "error", "host not found"} \cup Readings(k)]
Calls(k) == [Machines -> Slots(k)]

LateCalls == [host : Machines, answer : {"asked", "host not found"}]

WorldOK == /\ exists \subseteq Machines
           /\ up \in [Machines -> BOOLEAN] /\ runs \in [Machines -> BOOLEAN]
           /\ load \in [Machines -> Loads]

CallsOK(p) == p = [k \in Polls |-> p[k]] /\ \A k \in Polls : p[k] \in Calls(k)

(* A host that the server said it does not know is gone, or was misread.   *)
(* That is so of the calls that count, and of those that were called off.  *)
unknown(h) == h \notin exists \/ h \in misread
Sincere(p) == \A h \in Machines, i \in 1..MaxPolls :
                p["services"][h][i] = "host not found" => unknown(h)
LateSincere == \A c \in late : c.answer = "host not found" => unknown(c.host)

LiveInv == LiveTypeOK /\ WorldOK /\ CallsOK(polls) /\ Sincere(polls) /\ LateSincere
           /\ LivingHostsPolled

(* A round fills slots that were free, and leaves the others.              *)
LEMMA RoundOK ==
  ASSUME NEW k \in Polls, NEW hosts, NEW calls \in Calls(k)
  PROVE  /\ Round(k, hosts, calls) \in Calls(k)
         /\ \A h \in Machines, i \in 1..MaxPolls :
              Round(k, hosts, calls)[h][i] \in {"asked", calls[h][i]}
<1>1. ASSUME NEW slots \in Slots(k)
      PROVE  Ask(slots) \in Slots(k) /\ \A i \in 1..MaxPolls : Ask(slots)[i] \in {"asked", slots[i]}
  <2>1. CASE \E i \in 1..MaxPolls : slots[i] = "none"
    <3>1. PICK j \in 1..MaxPolls : j = CHOOSE i \in 1..MaxPolls : slots[i] = "none"
      BY <2>1
    <3>2. Ask(slots) = [slots EXCEPT ![j] = "asked"]
      BY <2>1, <3>1 DEF Ask
    <3> QED BY <3>2 DEF Slots
  <2>2. CASE ~ \E i \in 1..MaxPolls : slots[i] = "none"
    BY <2>2 DEF Ask
  <2> QED BY <2>1, <2>2
<1>2. \A h \in Machines : calls[h] \in Slots(k)
  BY DEF Calls
<1>3. \A h \in Machines : /\ Round(k, hosts, calls)[h] \in Slots(k)
                          /\ \A i \in 1..MaxPolls : Round(k, hosts, calls)[h][i] \in {"asked", calls[h][i]}
  BY <1>1, <1>2 DEF Round
<1> QED BY <1>3 DEF Round, Calls

LEMMA IdleCalls ==
  ASSUME NEW k \in Polls
  PROVE  [h \in Machines |-> idle] \in Calls(k)
  BY DEF idle, Calls, Slots

LEMMA SlotOK ==
  ASSUME CallsOK(polls), NEW k \in Polls, NEW h \in Machines, NEW i \in 1..MaxPolls
  PROVE  polls[k][h][i] \in {"none", "asked", "error", "host not found"} \cup Readings(k)
<1>1. polls[k] \in Calls(k)
  BY DEF CallsOK
<1>2. polls[k][h] \in Slots(k)
  BY <1>1 DEF Calls
<1> QED BY <1>2 DEF Slots

(* A slot set to a value that its poll may have: the status calls are      *)
(* those of before, but for it.                                            *)
OtherSlotsKept(p, k, h, i, v) ==
  \A m \in Machines, j \in 1..MaxPolls :
    \/ p["services"][m][j] = polls["services"][m][j]
    \/ k = "services" /\ m = h /\ p["services"][m][j] = v

LEMMA PutSlot ==
  ASSUME CallsOK(polls), NEW k \in Polls, NEW h \in Machines, NEW i \in 1..MaxPolls,
         NEW v \in {"none", "error", "host not found"} \cup Readings(k)
  PROVE  CallsOK(PutPoll(k, h, i, v)) /\ OtherSlotsKept(PutPoll(k, h, i, v), k, h, i, v)
<1> DEFINE p == PutPoll(k, h, i, v)
<1>1. p = [q \in Polls |-> IF q = k THEN [polls[k] EXCEPT ![h][i] = v] ELSE polls[q]]
  BY DEF CallsOK, PutPoll
<1>2. [polls[k] EXCEPT ![h][i] = v] \in Calls(k)
  <2>1. polls[k] \in Calls(k) /\ polls[k][h] \in Slots(k)
    BY DEF CallsOK, Calls
  <2>2. [polls[k][h] EXCEPT ![i] = v] \in Slots(k)
    BY <2>1 DEF Slots
  <2> QED BY <2>1, <2>2 DEF Calls
<1>3. CallsOK(p)
  BY <1>1, <1>2 DEF CallsOK
<1>4. ASSUME NEW m \in Machines, NEW j \in 1..MaxPolls
      PROVE  \/ p["services"][m][j] = polls["services"][m][j]
             \/ k = "services" /\ m = h /\ p["services"][m][j] = v
  <2>1. CASE k = "services"
    <3>1. p["services"] = [polls["services"] EXCEPT ![h][i] = v]
      BY <1>1, <2>1 DEF Polls
    <3>2. polls["services"] \in Calls(k) /\ polls["services"][h] \in Slots(k)
      BY <2>1 DEF CallsOK, Calls
    <3>3. p["services"][m] = IF m = h THEN [polls["services"][h] EXCEPT ![i] = v]
                             ELSE polls["services"][m]
      BY <3>1, <3>2 DEF Calls
    <3>4. DOMAIN polls["services"][h] = 1..MaxPolls
      BY <3>2 DEF Slots
    <3>5. CASE m = h /\ j = i
      BY <2>1, <3>3, <3>4, <3>5
    <3>6. CASE ~(m = h /\ j = i)
      BY <3>3, <3>4, <3>6
    <3> QED BY <3>5, <3>6
  <2>2. CASE k # "services"
    BY <1>1, <2>2 DEF Polls
  <2> QED BY <2>1, <2>2
<1>5. OtherSlotsKept(p, k, h, i, v)
  BY <1>4 DEF OtherSlotsKept
<1> QED BY <1>3, <1>5

(* A slot that is freed.                                                   *)
LEMMA FreeSincere ==
  ASSUME CallsOK(polls), Sincere(polls), NEW k \in Polls, NEW h \in Machines, NEW i \in 1..MaxPolls
  PROVE  CallsOK(PutPoll(k, h, i, "none")) /\ Sincere(PutPoll(k, h, i, "none"))
<1> DEFINE p == PutPoll(k, h, i, "none")
<1>1. CallsOK(p) /\ OtherSlotsKept(p, k, h, i, "none")
  BY PutSlot
<1> HIDE DEF p
<1>2. Sincere(p)
  BY <1>1 DEF Sincere, OtherSlotsKept
<1> QED BY <1>1, <1>2 DEF p

(* The effects that are started afresh, and those that go on.              *)
LEMMA RedrawOK ==
  ASSUME LiveInv, NEW calls, CallsOK(calls), Sincere(calls), Redraw(calls),
         UNCHANGED <<exists, misread>>
  PROVE  /\ CallsOK(polls') /\ Sincere(polls)' /\ LateSincere'
         /\ deadHosts' \subseteq Machines /\ late' \subseteq LateCalls
         /\ LivingHostsPolled'
<1> DEFINE start(k) == Round(k, key(k, listed', status'), [h \in Machines |-> idle])
<1>1. polls' = [k \in Polls |-> IF Restarted(k) THEN start(k) ELSE calls[k]]
  BY DEF Redraw, LiveInv, CallsOK
<1>2. \A k \in Polls : start(k) \in Calls(k)
  BY RoundOK, IdleCalls
<1>3. \A h \in Machines, i \in 1..MaxPolls : start("services")[h][i] \in {"asked", "none"}
  BY RoundOK, IdleCalls DEF Polls, idle
<1>4. CallsOK(polls')
  BY <1>1, <1>2 DEF CallsOK
<1>5. Sincere(polls)'
  <2> SUFFICES ASSUME NEW h \in Machines, NEW i \in 1..MaxPolls,
                      polls'["services"][h][i] = "host not found"
               PROVE  unknown(h)
    BY DEF Sincere, unknown
  <2>1. polls'["services"] \in {start("services"), calls["services"]}
    BY <1>1 DEF Polls
  <2> QED BY <1>3, <2>1 DEF Sincere
<1>6. deadHosts' \subseteq deadHosts /\ deadHosts' \subseteq Machines
  BY DEF Redraw, LiveInv, LiveTypeOK
<1>7. /\ late' \subseteq LateCalls
      /\ \A c \in late' : \/ c \in late
                          \/ /\ c.host \in Machines
                             /\ \E i \in 1..MaxPolls : calls["services"][c.host][i] = c.answer
  <2>1. late \subseteq LateCalls
    BY DEF LiveInv, LiveTypeOK, LateCalls
  <2>2. \/ late' = late
        \/ late' = late \cup {c \in LateCalls :
                              \E i \in 1..MaxPolls : calls["services"][c.host][i] = c.answer}
    BY DEF Redraw, LateCalls
  <2>3. \A c \in LateCalls : c.host \in Machines
    BY DEF LateCalls
  <2> QED BY <2>1, <2>2, <2>3
<1>8. LateSincere'
  BY <1>7 DEF LiveInv, LateSincere, Sincere, unknown
<1> QED BY <1>4, <1>5, <1>6, <1>7, <1>8 DEF LiveInv, LivingHostsPolled

LEMMA LiveInitInv == ASSUME LiveInit PROVE LiveInv
<1>1. \A k \in Polls : [h \in Machines |-> idle] \in Calls(k)
  BY IdleCalls
<1>2. Round("ping", Machines, [h \in Machines |-> idle]) \in Calls("ping")
  BY <1>1, RoundOK DEF Polls
<1>3. CallsOK(polls)
  BY <1>1, <1>2 DEF LiveInit, CallsOK, Polls
<1>4. Sincere(polls) /\ LateSincere
  BY DEF LiveInit, Sincere, LateSincere, idle
<1> QED BY <1>3, <1>4 DEF LiveInit, LiveInv, LiveTypeOK, WorldOK, LivingHostsPolled

LEMMA TickInv == ASSUME LiveInv, NEW k \in Polls, Tick(k) PROVE LiveInv'
<1> DEFINE hosts == key(k, listed, status) \ (IF k = "services" THEN deadHosts ELSE {})
<1>1. polls' = [q \in Polls |-> IF q = k THEN Round(k, hosts, polls[k]) ELSE polls[q]]
  BY DEF Tick, LiveInv, CallsOK
<1>2. \A q \in Polls : polls[q] \in Calls(q)
  BY DEF LiveInv, CallsOK
<1>3. CallsOK(polls')
  BY <1>1, <1>2, RoundOK DEF CallsOK
<1>4. Sincere(polls)'
  <2>1. \A h \in Machines, i \in 1..MaxPolls :
           polls'["services"][h][i] \in {"asked", polls["services"][h][i]}
    BY <1>1, <1>2, RoundOK DEF Polls
  <2> QED BY <2>1 DEF Tick, LiveInv, Sincere, unknown, world
<1> QED BY <1>3, <1>4 DEF Tick, LiveInv, LiveTypeOK, WorldOK, LivingHostsPolled, LateSincere,
                          unknown, world, found

(* What the server does not find is gone, or counted as misread.           *)
LEMMA LookupOK ==
  ASSUME LiveInv, NEW k, NEW h \in Machines, NEW ok \in BOOLEAN, findHost(k, h, ok)
  PROVE  /\ misread \subseteq misread' /\ misread' \subseteq Machines
         /\ k = "services" /\ ~ok => h \notin exists \/ h \in misread'
  BY DEF findHost, LiveInv, LiveTypeOK

LEMMA ServeInv ==
  ASSUME LiveInv, NEW k \in Polls, NEW h \in Machines, NEW i \in 1..MaxPolls,
         Serve(k, h, i) \/ CallLost(k, h, i)
  PROVE  LiveInv'
<1>1. PICK v \in {"error", "host not found", reading(k, h)} :
        /\ polls' = PutPoll(k, h, i, v)
        /\ misread \subseteq misread' /\ misread' \subseteq Machines
        /\ k = "services" /\ v = "host not found" => h \notin exists \/ h \in misread'
  <2>1. CASE Serve(k, h, i)
    <3>1. PICK ok \in BOOLEAN :
            /\ findHost(k, h, ok)
            /\ polls' = PutPoll(k, h, i, IF ok THEN reading(k, h) ELSE "host not found")
      BY <2>1 DEF Serve
    <3>2. reading(k, h) # "host not found" \/ k # "services"
      BY DEF reading
    <3> QED BY <3>1, <3>2, LookupOK
  <2>2. CASE CallLost(k, h, i)
    BY <2>2 DEF CallLost, LiveInv, LiveTypeOK
  <2> QED BY <2>1, <2>2
<1>2. v \in {"error", "host not found"} \cup Readings(k)
  BY <1>1 DEF reading, Readings, LiveInv, WorldOK, Polls
<1>3. UNCHANGED <<world, listed, found, deadHosts, late>>
  BY DEF Serve, CallLost
<1>4. CallsOK(polls') /\ Sincere(polls)'
  <2>0. CallsOK(polls) /\ v \in {"none", "error", "host not found"} \cup Readings(k)
    BY <1>2 DEF LiveInv
  <2>1. CallsOK(polls') /\ OtherSlotsKept(polls', k, h, i, v)
    BY <1>1, <2>0, PutSlot
  <2> QED BY <1>1, <1>3, <2>1 DEF LiveInv, Sincere, unknown, world, OtherSlotsKept
<1> QED BY <1>1, <1>3, <1>4 DEF LiveInv, LiveTypeOK, WorldOK, LivingHostsPolled, LateSincere,
                                unknown, world, found

LEMMA PingInv ==
  ASSUME LiveInv, NEW h \in Machines, NEW i \in 1..MaxPolls, PingArrives(h, i)
  PROVE  LiveInv'
<1> DEFINE calls == PutPoll("ping", h, i, "none")
<1>1. CallsOK(calls) /\ Sincere(calls)
  BY FreeSincere DEF LiveInv, Polls
<1>2. /\ CallsOK(polls') /\ Sincere(polls)' /\ LateSincere'
      /\ deadHosts' \subseteq Machines /\ late' \subseteq LateCalls /\ LivingHostsPolled'
  BY <1>1, RedrawOK DEF PingArrives, world
<1>3. polls["ping"][h][i] \in {"none", "asked", "error", "host not found", "online", "offline"}
  BY SlotOK DEF LiveInv, Readings, Polls
<1>4. status' \in [Machines -> {"checking", "online", "offline"}]
  BY <1>3 DEF PingArrives, Back, threw, LiveInv, LiveTypeOK
<1> QED BY <1>2, <1>4 DEF PingArrives, LiveInv, LiveTypeOK, WorldOK, LateCalls, world

LEMMA MetricsInv ==
  ASSUME LiveInv, NEW h \in Machines, NEW i \in 1..MaxPolls, MetricsArrive(h, i)
  PROVE  LiveInv'
<1>1. CallsOK(polls') /\ Sincere(polls)'
  <2>1. CallsOK(PutPoll("metrics", h, i, "none")) /\ Sincere(PutPoll("metrics", h, i, "none"))
    BY FreeSincere DEF LiveInv, Polls
  <2> QED BY <2>1 DEF MetricsArrive, Sincere, unknown, world
<1>2. polls["metrics"][h][i] \in {"none", "asked", "error", "host not found"} \cup Readings("metrics")
  BY SlotOK DEF LiveInv, Polls
<1>3. metrics' \in [Machines -> Loads \cup {"none", "nothing"}]
  BY <1>2 DEF MetricsArrive, Readings, threw, Back, LiveInv, LiveTypeOK
<1> QED BY <1>1, <1>3 DEF MetricsArrive, LiveInv, LiveTypeOK, WorldOK, LivingHostsPolled,
                          LateSincere, unknown, world

LEMMA StatusInv ==
  ASSUME LiveInv, NEW h \in Machines, NEW i \in 1..MaxPolls, StatusArrives(h, i)
  PROVE  LiveInv'
<1> DEFINE v == polls["services"][h][i]
<1>1. CallsOK(polls') /\ Sincere(polls)'
  <2>1. CallsOK(PutPoll("services", h, i, "none")) /\ Sincere(PutPoll("services", h, i, "none"))
    BY FreeSincere DEF LiveInv, Polls
  <2> QED BY <2>1 DEF StatusArrives, Sincere, unknown, world
<1>2. v \in {"none", "asked", "error", "host not found"} \cup Readings("services")
  BY SlotOK DEF LiveInv, Polls
<1>3. statuses' \in [Machines -> {"none", "nothing", "running", "stopped"}]
  BY <1>2 DEF StatusArrives, Readings, threw, Back, LiveInv, LiveTypeOK
<1>4. deadHosts' = deadHosts \/ (v = "host not found" /\ deadHosts' = deadHosts \cup {h})
  BY DEF StatusArrives, missing
<1>5. LivingHostsPolled' /\ deadHosts' \subseteq Machines
  BY <1>4 DEF StatusArrives, LiveInv, Sincere, unknown, LivingHostsPolled, LiveTypeOK, world
<1> QED BY <1>1, <1>3, <1>5 DEF StatusArrives, LiveInv, LiveTypeOK, WorldOK, LateSincere,
                                unknown, world

LEMMA WorldInv ==
  ASSUME LiveInv, Happens \/ Relist \/ \E c \in late : LateArrives(c)
  PROVE  LiveInv'
<1>1. CASE Happens
  <2>1. exists' \subseteq exists /\ UNCHANGED <<listed, found, deadHosts, polls, late, misread>>
    BY <1>1 DEF Happens
  <2>2. WorldOK'
    BY <1>1 DEF Happens, LiveInv, WorldOK
  <2> QED BY <2>1, <2>2 DEF LiveInv, LiveTypeOK, CallsOK, Sincere, LateSincere, unknown,
                            LivingHostsPolled, found
<1>2. CASE Relist
  <2>1. /\ CallsOK(polls') /\ Sincere(polls)' /\ LateSincere'
        /\ deadHosts' \subseteq Machines /\ late' \subseteq LateCalls /\ LivingHostsPolled'
    BY <1>2, RedrawOK DEF Relist, LiveInv, world
  <2> QED BY <1>2, <2>1 DEF Relist, LiveInv, LiveTypeOK, WorldOK, LateCalls, world, found
<1>3. CASE \E c \in late : LateArrives(c)
  <2>1. PICK c \in late : LateArrives(c)
    BY <1>3
  <2>2. c.host \in Machines /\ (c.answer = "host not found" => unknown(c.host))
    BY DEF LiveInv, LiveTypeOK, LateSincere
  <2>3. /\ misread \subseteq misread' /\ misread' \subseteq Machines
        /\ \/ deadHosts' = deadHosts
           \/ deadHosts' = deadHosts \cup {c.host} /\ (c.host \notin exists \/ c.host \in misread')
    <3>1. CASE c.answer = "asked"
      BY <2>1, <2>2, <3>1, LookupOK DEF LateArrives, LiveInv, LiveTypeOK
    <3>2. CASE c.answer # "asked"
      <4>1. c.answer = "host not found"
        BY <3>2 DEF LiveInv, LiveTypeOK
      <4> QED BY <2>1, <2>2, <3>2, <4>1 DEF LateArrives, unknown, LiveInv, LiveTypeOK
    <3> QED BY <3>1, <3>2
  <2>4. late' \subseteq late /\ UNCHANGED <<world, listed, found, polls>>
    BY <2>1 DEF LateArrives
  <2> QED BY <2>2, <2>3, <2>4 DEF LiveInv, LiveTypeOK, WorldOK, CallsOK, Sincere, LateSincere,
                                  unknown, LivingHostsPolled, world, found
<1> QED BY <1>1, <1>2, <1>3

LEMMA StutterInv == ASSUME LiveInv, UNCHANGED liveVars PROVE LiveInv'
  BY DEF liveVars, world, found, LiveInv, LiveTypeOK, WorldOK, CallsOK, Sincere, LateSincere,
         unknown, LivingHostsPolled

(* The inductive invariant of the polls: an answer "host not found",       *)
(* wherever it is, is about a host that is gone or was misread.            *)
THEOREM LiveInvariant == LiveSpec => []LiveInv
<1>1. ASSUME LiveInv, [LiveNext]_liveVars PROVE LiveInv'
  <2>1. DOMAIN polls = Polls
    BY <1>1 DEF LiveInv, CallsOK
  <2>2. ASSUME NEW k \in Polls, Tick(k) PROVE LiveInv'
    BY <1>1, <2>2, TickInv
  <2>3. ASSUME NEW k \in Polls, NEW h \in Machines, NEW i \in 1..MaxPolls,
               Serve(k, h, i) \/ CallLost(k, h, i)
        PROVE  LiveInv'
    BY <1>1, <2>3, ServeInv
  <2>4. ASSUME NEW h \in Machines, NEW i \in 1..MaxPolls,
               PingArrives(h, i) \/ MetricsArrive(h, i) \/ StatusArrives(h, i)
        PROVE  LiveInv'
    BY <1>1, <2>4, PingInv, MetricsInv, StatusInv
  <2> QED BY <1>1, <2>1, <2>2, <2>3, <2>4, WorldInv, StutterInv DEF LiveNext
<1> QED BY <1>1, LiveInitInv, PTL DEF LiveSpec

(* The variables of the three polls have their types.                      *)
THEOREM LiveTypes == LiveSpec => []LiveTypeOK
  BY LiveInvariant, PTL DEF LiveInv

(* However late an answer comes, a host that exists is dropped from the    *)
(* status polls only after a call for which its file could not be read.    *)
THEOREM LivingStayPolled == LiveSpec => []LivingHostsPolled
  BY LiveInvariant, PTL DEF LiveInv
===============================================================================
