---------------------------- MODULE ProjectView ----------------------------
(***************************************************************************)
(* One browser that moves between projects (Dashboard.tsx): the resources  *)
(* it loads (useInfraData), the arrangement of the canvas it loads and     *)
(* saves after a pause (useGraphLayout), what the canvas makes of the two  *)
(* (InfraGraph), and the server's layouts (handlers_layout.go), which      *)
(* other browsers save too.                                                *)
(*                                                                         *)
(* Answers come in any order.  A render with its effects is one step, for  *)
(* React runs them before the next event.  An arrangement is known by the  *)
(* project of the nodes it places and by the drag that made it; number 0   *)
(* is the automatic layout, which is what no saved positions mean.         *)
(***************************************************************************)
EXTENDS Naturals, FiniteSets

CONSTANTS Projects,
          MaxSwitches, MaxDrags, MaxEdits, MaxReloads,  \* bounds
          NoProject, NoCanvas, NoPending, Asked, Failed, NotRead

Arrangement == [of : Projects \cup {NoProject}, no : 0..MaxDrags]

ASSUME ProjectViewAssumption ==
  /\ {MaxSwitches, MaxDrags, MaxEdits} \subseteq Nat
  /\ MaxReloads \in Nat \ {0}
  /\ NoProject \notin Projects
  /\ {NoCanvas, NoPending, Asked, Failed} \cap Arrangement = {}

Load == [project : Projects, answer : Arrangement \cup {Asked, Failed}]
Put  == [to : Projects, layout : Arrangement,
         seen : [Projects -> Arrangement] \cup {NotRead}]

Automatic(p) == [of |-> p, no |-> 0]

VARIABLES
  stored,      \* server: the layout of each project
  puts,        \* layouts on their way to the server, or being stored
  active,      \* the project the dashboard is on
  reloads,     \* how many loads of each project's resources are under way
  edits,       \* projects with an edit under way, after which they reload
  data, loading, error, loadedOnce,   \* useInfraData
  loads,       \* loads of a layout whose answer is not ignored
  positions, loaded, timer, pending,  \* useGraphLayout
  canvas, hydrated,                   \* InfraGraph
  switches, drags, edited, \* bounds
  answered     \* history: the project of the load that last set loaded

infra  == <<reloads, edits, data, loading, error, loadedOnce>>
layout == <<loads, positions, loaded, timer, pending, answered>>
screen == <<canvas, hydrated>>
server == <<stored, puts>>
bounds == <<switches, drags, edited>>
vars   == <<server, active, infra, layout, screen, bounds>>

TypeOK ==
  /\ stored \in [Projects -> Arrangement]
  /\ puts \subseteq Put
  /\ active \in Projects
  /\ reloads \in [Projects -> 0..MaxReloads]
  /\ edits \subseteq Projects
  /\ data \in Projects \cup {NoProject}
  /\ {loading, error, loadedOnce, loaded, timer, hydrated} \subseteq BOOLEAN
  /\ loads \subseteq Load
  /\ positions \in Arrangement
  /\ pending \in Arrangement \cup {NoPending}
  /\ canvas \in Arrangement \cup {NoCanvas}
  /\ switches \in 0..MaxSwitches /\ drags \in 0..MaxDrags /\ edited \in 0..MaxEdits
  /\ answered \in Projects \cup {NoProject}

asking(p) == [project |-> p, answer |-> Asked]

Init ==
  /\ stored = [p \in Projects |-> Automatic(p)] /\ puts = {}
  /\ active \in Projects
  /\ reloads = [p \in Projects |-> IF p = active THEN 1 ELSE 0] /\ edits = {}
  /\ data = NoProject /\ loading = TRUE /\ error = FALSE /\ loadedOnce = FALSE
  /\ loads = {asking(active)}
  /\ positions = Automatic(NoProject) /\ loaded = FALSE
  /\ timer = FALSE /\ pending = NoPending
  /\ canvas = NoCanvas /\ hydrated = FALSE
  /\ switches = 0 /\ drags = 0 /\ edited = 0 /\ answered = NoProject

----------------------------------------------------------------------------
(* The canvas. *)

(* Where the nodes of p go: where the positions of the hook put them.      *)
placed(p, where) == [of |-> p, no |-> IF where.of = p THEN where.no ELSE 0]

graphShown == ~loading /\ ~(error /\ ~loadedOnce)

(* Mutant: a layout that is loaded again does not win over the nodes.      *)
keepsNodesForGood(p) == canvas # NoCanvas /\ canvas.of = p

keepsNodes(p) == canvas # NoCanvas /\ hydrated /\ canvas.of = p

(* The render that follows a change, with the effect that sets the nodes.  *)
Render ==
  /\ canvas' =
       IF ~graphShown' THEN NoCanvas
       ELSE IF loaded' THEN IF keepsNodes(data') THEN canvas
                            ELSE placed(data', positions')
       ELSE IF canvas = NoCanvas THEN Automatic(data') ELSE canvas
  /\ hydrated' = (graphShown' /\ loaded')

----------------------------------------------------------------------------
(* useGraphLayout *)

(* savePositions *)
SavePositions(next) ==
  /\ positions' = next
  /\ pending' = next
  /\ timer' = TRUE

Drag ==
  /\ canvas # NoCanvas /\ canvas.of # NoProject /\ drags < MaxDrags
  /\ drags' = drags + 1
  /\ canvas' = [canvas EXCEPT !.no = drags + 1]
  /\ SavePositions(canvas')
  /\ UNCHANGED <<server, active, infra, loads, loaded, answered, hydrated, switches, edited>>

(* resetLayout: the nodes of the last data, placed automatically.          *)
Reset ==
  /\ canvas # NoCanvas /\ drags < MaxDrags
  /\ drags' = drags + 1
  /\ canvas' = Automatic(data)
  /\ SavePositions(Automatic(NoProject))
  /\ UNCHANGED <<server, active, infra, loads, loaded, answered, hydrated, switches, edited>>

(* flush, to the project that is current when it runs                      *)
FlushTo(p) ==
  /\ puts' = puts \cup (IF pending = NoPending THEN {}
                        ELSE {[to |-> p, layout |-> pending, seen |-> NotRead]})
  /\ pending' = NoPending

FlushAtSwitch(p) == FlushTo(p)

TimerFires ==
  /\ timer /\ timer' = FALSE
  /\ FlushTo(active)
  /\ UNCHANGED <<stored, active, infra, loads, positions, loaded, answered, screen, bounds>>

(* The loads that go on after a switch.  Mutant: none is cancelled.        *)
uncancelled == loads
goOn        == {}

(* The server answers a load with what is stored at that time.             *)
LayoutAnswers ==
  \E l \in loads, answer \in Arrangement \cup {Failed} :
    /\ l.answer = Asked /\ answer \in {stored[l.project], Failed}
    /\ loads' = (loads \ {l}) \cup {[l EXCEPT !.answer = answer]}
    /\ UNCHANGED <<server, active, infra, positions, loaded, timer, pending, answered,
                   screen, bounds>>

LayoutArrives ==
  \E l \in loads :
    /\ l.answer \notin {Asked, Failed}
    /\ loads' = loads \ {l}
    /\ positions' = l.answer /\ loaded' = TRUE /\ answered' = l.project
    /\ UNCHANGED <<server, active, infra, timer, pending, bounds>>
    /\ Render

(* Mutant: a load that failed is only logged.                              *)
LayoutFailsSilently ==
  \E l \in loads :
    /\ l.answer = Failed
    /\ loads' = loads \ {l}
    /\ UNCHANGED <<server, active, infra, positions, loaded, answered, timer, pending,
                   screen, bounds>>

(* A failed load counts as loaded; the positions stay as they are.         *)
LayoutFails ==
  \E l \in loads :
    /\ l.answer = Failed
    /\ loads' = loads \ {l}
    /\ loaded' = TRUE /\ answered' = l.project
    /\ UNCHANGED <<server, active, infra, positions, timer, pending, bounds>>
    /\ Render

----------------------------------------------------------------------------
(* useInfraData *)

Reload(p) ==
  /\ reloads[p] < MaxReloads
  /\ reloads' = [reloads EXCEPT ![p] = @ + 1]
  /\ error' = FALSE

(* The retry button, and nothing else, reloads by itself.                  *)
Retry ==
  /\ error /\ Reload(active)
  /\ UNCHANGED <<server, active, edits, data, loading, loadedOnce, layout, bounds>>
  /\ Render

BeginEdit ==
  /\ graphShown /\ edited < MaxEdits /\ active \notin edits
  /\ edits' = edits \cup {active} /\ edited' = edited + 1
  /\ UNCHANGED <<server, active, reloads, data, loading, error, loadedOnce, layout,
                 screen, switches, drags>>

(* The edit is stored, and the project it began in is loaded again.        *)
EndEdit ==
  \E p \in edits :
    /\ edits' = edits \ {p} /\ Reload(p)
    /\ UNCHANGED <<server, active, data, loading, loadedOnce, layout, bounds>>
    /\ Render

EditFails ==
  \E p \in edits :
    /\ edits' = edits \ {p}
    /\ UNCHANGED <<server, active, reloads, data, loading, error, loadedOnce, layout,
                   screen, bounds>>

(* The answer is shown, whatever project the dashboard is on by now.       *)
DataArrives ==
  \E p \in Projects :
    /\ reloads[p] > 0
    /\ reloads' = [reloads EXCEPT ![p] = @ - 1]
    /\ data' = p /\ loadedOnce' = TRUE /\ loading' = FALSE
    /\ UNCHANGED <<server, active, edits, error, layout, bounds>>
    /\ Render

DataFails ==
  \E p \in Projects :
    /\ reloads[p] > 0
    /\ reloads' = [reloads EXCEPT ![p] = @ - 1]
    /\ error' = TRUE /\ loading' = FALSE
    /\ UNCHANGED <<server, active, edits, data, loadedOnce, layout, bounds>>
    /\ Render

----------------------------------------------------------------------------
(* Dashboard: the render has moved projectRef to q before the cleanup of   *)
(* the old project's effects flushes what is pending.                      *)
Switch(q) ==
  /\ q # active /\ switches < MaxSwitches
  /\ switches' = switches + 1 /\ active' = q
  /\ timer' = FALSE /\ FlushAtSwitch(q)
  /\ loads' = goOn \cup {asking(q)} /\ loaded' = FALSE
  /\ loadedOnce' = FALSE /\ Reload(q)
  /\ UNCHANGED <<stored, edits, data, loading, positions, answered, drags, edited>>
  /\ Render

----------------------------------------------------------------------------
(* The server. *)

PutReads ==
  \E m \in puts :
    /\ m.seen = NotRead
    /\ puts' = (puts \ {m}) \cup {[m EXCEPT !.seen = stored]}
    /\ UNCHANGED <<stored, active, infra, layout, screen, bounds>>

PutWrites ==
  \E m \in puts :
    /\ m.seen # NotRead
    /\ stored' = [m.seen EXCEPT ![m.to] = m.layout]
    /\ puts' = puts \ {m}
    /\ UNCHANGED <<active, infra, layout, screen, bounds>>

(* Refused, or lost: nobody is told.                                       *)
PutFails ==
  \E m \in puts :
    /\ puts' = puts \ {m}
    /\ UNCHANGED <<stored, active, infra, layout, screen, bounds>>

(* Somebody else arranges p.                                               *)
OtherSaves(p) ==
  /\ drags < MaxDrags /\ drags' = drags + 1
  /\ stored' = [stored EXCEPT ![p] = [of |-> p, no |-> drags + 1]]
  /\ UNCHANGED <<puts, active, infra, layout, screen, switches, edited>>

----------------------------------------------------------------------------
Next ==
  \/ Drag \/ Reset \/ TimerFires \/ LayoutAnswers \/ LayoutArrives \/ LayoutFails
  \/ Retry \/ BeginEdit \/ EndEdit \/ EditFails \/ DataArrives \/ DataFails
  \/ PutReads \/ PutWrites \/ PutFails
  \/ \E p \in Projects : Switch(p) \/ OtherSaves(p)

Spec == Init /\ [][Next]_vars

(* A request is answered or given up, and answers are handled.             *)
Fairness ==
  /\ WF_vars(LayoutAnswers) /\ WF_vars(LayoutArrives) /\ WF_vars(LayoutFails)

FairSpec == Spec /\ Fairness

----------------------------------------------------------------------------
(* Properties. *)

(* No drag waits for a pause that was called off: what is pending has a    *)
(* timer running, switches and later drags included.                       *)
PendingHasTimer == pending # NoPending => timer

(* "loaded" speaks of the active project: however late the answers to the  *)
(* loads of other projects come, none of them counts.                      *)
LoadedIsActive == loaded => answered = active

(* Once the layout is loaded, the nodes on the canvas are where the        *)
(* positions put them, whichever of data, layout, drags, resets, switches  *)
(* and failures came first: nothing pins them to an arrangement that is    *)
(* not the one that would be saved.                                        *)
CanvasFollowsPositions ==
  loaded /\ canvas # NoCanvas => canvas = placed(data, positions)

(* The canvas does not wait for a layout for ever, also when its load      *)
(* fails: after the last switch it is loaded.                              *)
LayoutSettles == <>[]loaded

(* "A project switch mid-timer can't write one project's arrangement onto  *)
(* another": what is stored for a project places that project's nodes.     *)
LayoutStaysInProject ==
  \A p \in Projects : stored[p].no # 0 => stored[p].of = p
=============================================================================
