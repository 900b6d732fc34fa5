--------------------------- MODULE PhaseLifecycle ---------------------------
(***************************************************************************)
(* What _VALID_TRANSITIONS promises every reader of a phase's status: the  *)
(* status moves along its edges, one phase at a time, and never jumps.     *)
(* Nothing here says who moves it or how.                                  *)
(***************************************************************************)
EXTENDS PhaseRow

CONSTANT Phases

VARIABLE status

LifecycleInit == status = [p \in Phases |-> Pending]

Move(p, to) ==
  /\ CanMove(status[p], to)
  /\ status' = [status EXCEPT ![p] = to]

LifecycleNext == \E p \in Phases, to \in PhaseStatus : Move(p, to)

LifecycleSpec == LifecycleInit /\ [][LifecycleNext]_status

=============================================================================
