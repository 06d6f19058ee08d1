-------------------------- MODULE MCMonitorMaster --------------------------
(* A small instance of MonitorMaster for TLC: a check that two workers can *)
(* own, and the reports one request can make about it.                     *)
EXTENDS MonitorMaster, TLC

CONSTANT c1

run(ok) == [check |-> c1, ok |-> ok, ranAt |-> 1]

(* Between them they take a check through every pair of outcomes.          *)
MCBatches == {<<run(TRUE)>>, <<run(FALSE), run(TRUE), run(FALSE)>>}

MCSymmetry == Permutations(Handlers) \cup Permutations(WorkerIds)
                \cup Permutations(Tokens) \cup Permutations(Names) \cup Permutations(Commands)
=============================================================================
