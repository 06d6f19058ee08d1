------------------------------ MODULE MCCanvas ------------------------------
(***************************************************************************)
(* A small instance of the canvas for TLC: where its nodes are             *)
(* (ProjectView) and what they show of the hosts (LiveStatus).  A          *)
(* behaviour has the operator move things or the hosts change.  The        *)
(* projects, the loads, and running and stopped are each treated alike:    *)
(* it begins with one of them.                                             *)
(***************************************************************************)
EXTENDS ProjectView, LiveStatus

VARIABLE part

canvasVars == <<part, vars, liveVars>>

any(S) == CHOOSE x \in S : TRUE

CanvasInit ==
  /\ part \in {"arrangement", "status"}
  /\ Init /\ LiveInit
  /\ active = any(Projects)
  /\ IF part = "status" THEN watched # {}
     ELSE watched = {} /\ up = any([Machines -> BOOLEAN])
  /\ load = any([Machines -> Loads]) /\ runs = any([Machines -> BOOLEAN])

CanvasNext ==
  /\ UNCHANGED part
  /\ \/ part = "arrangement" /\ Next /\ UNCHANGED liveVars
     \/ part = "status" /\ ~loaded /\ UNCHANGED liveVars
        /\ (LayoutAnswers \/ LayoutArrives) /\ \A l \in loads' : l.answer # Failed
     \/ part = "status" /\ loaded /\ LiveNext /\ UNCHANGED vars

(* Where nothing is watched the fairness of LiveStatus asks for nothing.   *)
FairCanvas == CanvasInit /\ [][CanvasNext]_canvasVars /\ Fairness /\ LiveFairness
=============================================================================
