------------------------------ MODULE PhaseRow ------------------------------
(***************************************************************************)
(* The phase_executions row (src/src/core/database.py) and the two tables  *)
(* that govern every write of its status column: which status may follow   *)
(* which, and which timestamp columns a transition resets                  *)
(* (src/src/autopilot/orchestrator/phase_transitions.py).                  *)
(*                                                                         *)
(* A timestamp column is abstracted to whether it IS NULL: that is all the *)
(* guards of the pipeline read, apart from the comparisons that scope a    *)
(* task to a phase's current cycle.                                        *)
(***************************************************************************)

Pending    == "pending"
InProgress == "in_progress"
Completed  == "completed"
Failed     == "failed"
Skipped    == "skipped"

PhaseStatus == {Pending, InProgress, Completed, Failed, Skipped}

Null    == "null"
Stamped == "stamped"
Stamp   == {Null, Stamped}

\* claim: the column task_creation_claimed_at.
Column == {"started", "completed", "claim"}
Row == [status : PhaseStatus, started : Stamp, completed : Stamp, claim : Stamp]

NewRow == [status |-> Pending, started |-> Null, completed |-> Null, claim |-> Null]

-----------------------------------------------------------------------------

ValidTransitions ==
  [s \in PhaseStatus |->
     CASE s = Pending    -> {InProgress, Skipped, Failed}
       [] s = InProgress -> {Completed, Failed, Pending}
       [] s = Completed  -> {InProgress, Pending}
       [] s = Failed     -> {InProgress, Pending}
       [] s = Skipped    -> {InProgress}]

CanMove(from, to) == to \in ValidTransitions[from]

\* The row once _FIELD_RESETS[(row.status, to)] is applied; a pair the table
\* does not list leaves the other columns alone.
FieldResets(row, to) ==
  CASE to = Pending    -> [row EXCEPT !.status = to, !.started = Null,
                                      !.completed = Null, !.claim = Null]
    [] to = InProgress -> [row EXCEPT !.status = to, !.started = Stamped,
                                      !.claim = Null]
    [] to = Skipped    -> [row EXCEPT !.status = to, !.completed = Stamped]
    [] OTHER           -> [row EXCEPT !.status = to]

\* A column that extra_fields does not name.
Unset == "unset"
ExtraFields == [Column -> Stamp \cup {Unset}]
NoExtra == [c \in Column |-> Unset]

Override(value, extra) == IF extra = Unset THEN value ELSE extra

\* What the UPDATE of transition_phase_execution writes.
Written(row, to, extra) ==
  LET reset == FieldResets(row, to) IN
  [status    |-> reset.status,
   started   |-> Override(reset.started, extra["started"]),
   completed |-> Override(reset.completed, extra["completed"]),
   claim     |-> Override(reset.claim, extra["claim"])]

=============================================================================
