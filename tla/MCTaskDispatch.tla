--------------------------- MODULE MCTaskDispatch ---------------------------
(* TaskDispatch on two tasks, of two phases or of one. *)
EXTENDS TaskDispatch, TLC

CONSTANTS t1, t2
MCTasks    == {t1, t2}
TwoPhases  == (t1 :> "review") @@ (t2 :> "deploy")
OnePhase   == [t \in MCTasks |-> "review"]
MCUrgent   == {t2}
Both       == MCTasks
OnlyFirst  == {t1}
MCAgents   == 1..4
MCWorkers  == 1..2
=============================================================================
