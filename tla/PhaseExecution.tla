--------------------------- MODULE PhaseExecution ---------------------------
(***************************************************************************)
(* Concurrent writers of the phase_executions rows of one workflow.  Every *)
(* writer of PhaseExecution.status goes through transition_phase_execution *)
(* in three database statements:                                           *)
(*                                                                         *)
(*   Call     the call site reads the row to decide (and often to copy a   *)
(*            timestamp into extra_fields);                                *)
(*   Check    transition_phase_execution re-reads the status and rejects a *)
(*            move that _VALID_TRANSITIONS does not allow;                 *)
(*   Update   UPDATE ... WHERE status = from_status.                       *)
(*                                                                         *)
(* Between two statements of one session any other session may commit: the *)
(* sweep thread, the completion path and the HTTP handlers do not share a  *)
(* lock around these calls.  commit=False call sites hold SQLite's write   *)
(* lock from their UPDATE to their own commit, so the UPDATE is the step   *)
(* that others see either way.                                             *)
(***************************************************************************)
EXTENDS PhaseRow

CONSTANTS
  Phases,    \* the phases of one workflow
  Sessions   \* database sessions open at the same time

VARIABLES
  rows,      \* the committed phase_executions table
  call       \* per session: the transition it is in the middle of

vars == <<rows, call>>

(***************************************************************************)
(* Call sites.  when: the statuses the caller's own guard lets through;    *)
(* keeps: the columns it passes in extra_fields with the value it read;    *)
(* stamps: the columns it passes in extra_fields with a timestamp.         *)
(***************************************************************************)
Site(when, to, keeps, stamps) ==
  [when |-> when, to |-> to, keeps |-> keeps, stamps |-> stamps]

NotRunning == {Pending, Completed, Skipped, Failed}

CloseCompleted   == Site(PhaseStatus \ {Completed}, Completed, {}, {"completed"})
CloseFailed      == Site(PhaseStatus, Failed, {}, {"completed"})
EvaluationRetry  == Site(PhaseStatus \ {Completed}, Pending, {"completed"}, {})
EscalateGoto     == Site(PhaseStatus, InProgress, {"started"}, {})
EvaluationArbitrate == Site(NotRunning, InProgress, {"started"}, {})
StartNextPhase   == Site(NotRunning, InProgress, {}, {})
ReopenForTask    == Site(NotRunning, InProgress, {}, {})
TriggerArbitration == Site(NotRunning, InProgress, {"started"}, {})
ReleaseClaim     == Site(NotRunning, InProgress, {}, {"started"})
CorrectiveTask   == Site(NotRunning, InProgress, {"started", "claim"}, {})
ReleaseDonePhase == Site({Pending}, InProgress, {}, {"started"})
GotoReset        == Site({InProgress, Completed, Failed}, Pending, {}, {})
SkipOver         == Site({Pending}, Skipped, {}, {})
ResetFailed      == Site({Failed}, Pending, {}, {})
RetryBehindTicket == Site(PhaseStatus, Pending, {"completed"}, {})
ReopenForMerge   == Site({Completed}, InProgress, {"completed"}, {})
RestartTask      == Site(NotRunning, InProgress, {"started"}, {})
ReviewFeedback   == Site(NotRunning, InProgress, {}, {})
TerminateDone    == Site({InProgress}, Completed, {}, {"completed"})
TerminateUndone  == Site({InProgress, Pending}, Failed, {}, {"completed"})

CallSites ==
  {CloseCompleted, CloseFailed, EvaluationRetry, EscalateGoto,
   EvaluationArbitrate, StartNextPhase, ReopenForTask, TriggerArbitration,
   ReleaseClaim, CorrectiveTask, ReleaseDonePhase, GotoReset, SkipOver,
   ResetFailed, RetryBehindTicket, ReopenForMerge, RestartTask,
   ReviewFeedback, TerminateDone, TerminateUndone}

\* The extra_fields a call site builds from the row it read.
ExtraFrom(site, row) ==
  [c \in Column |-> IF c \in site.stamps THEN Stamped
                    ELSE IF c \in site.keeps THEN row[c]
                    ELSE Unset]

-----------------------------------------------------------------------------

Idle == [at |-> "idle"]
Called(p, to, extra) == [at |-> "called", phase |-> p, to |-> to, extra |-> extra]
Checked(c, from) ==
  [at |-> "checked", phase |-> c.phase, to |-> c.to, extra |-> c.extra, from |-> from]

Calls ==
  {Idle}
    \cup [at : {"called"}, phase : Phases, to : PhaseStatus, extra : ExtraFields]
    \cup [at : {"checked"}, phase : Phases, to : PhaseStatus, extra : ExtraFields,
          from : PhaseStatus]

Init ==
  /\ rows = [p \in Phases |-> NewRow]
  /\ call = [s \in Sessions |-> Idle]

Call(s) ==
  /\ call[s] = Idle
  /\ \E p \in Phases, site \in CallSites :
       /\ rows[p].status \in site.when
       /\ call' = [call EXCEPT ![s] = Called(p, site.to, ExtraFrom(site, rows[p]))]
  /\ UNCHANGED rows

Check(s) ==
  /\ call[s].at = "called"
  /\ LET from == rows[call[s].phase].status IN
       call' = [call EXCEPT ![s] = IF CanMove(from, call[s].to)
                                   THEN Checked(call[s], from)
                                   ELSE Idle]
  /\ UNCHANGED rows

\* Mutant: read, validate, then write by primary key alone.
UpdateByKey(s) ==
  /\ call[s].at = "checked"
  /\ LET c == call[s] IN
       rows' = [rows EXCEPT ![c.phase] = Written(rows[c.phase], c.to, c.extra)]
  /\ call' = [call EXCEPT ![s] = Idle]

\* One statement: no other session writes between its WHERE and its SET.
Update(s) ==
  /\ call[s].at = "checked"
  /\ LET c == call[s] IN
       rows' = IF rows[c.phase].status = c.from
               THEN [rows EXCEPT ![c.phase] = Written(rows[c.phase], c.to, c.extra)]
               ELSE rows
  /\ call' = [call EXCEPT ![s] = Idle]

\* The writes of task_creation_claimed_at that are not part of a transition:
\* the claim itself (a compare-and-set on NULL) and its clearing.
Claim(p) ==
  /\ rows[p].claim = Null
  /\ rows' = [rows EXCEPT ![p].claim = Stamped]
  /\ UNCHANGED call

ClearClaim(p) ==
  /\ rows[p].claim = Stamped
  /\ rows' = [rows EXCEPT ![p].claim = Null]
  /\ UNCHANGED call

\* A termination that leaves live tasks behind dates the row, status unmoved.
TerminateLive(p) ==
  /\ rows[p].status = InProgress
  /\ rows' = [rows EXCEPT ![p].completed = Stamped]
  /\ UNCHANGED call

Next ==
  \/ \E s \in Sessions : Call(s) \/ Check(s) \/ Update(s)
  \/ \E p \in Phases : Claim(p) \/ ClearClaim(p) \/ TerminateLive(p)

Spec == Init /\ [][Next]_vars

-----------------------------------------------------------------------------

TypeOK ==
  /\ rows \in [Phases -> Row]
  /\ call \in [Sessions -> Calls]

\* Whatever the interleaving of callers, a committed status only ever moves
\* along an edge of _VALID_TRANSITIONS: the UPDATE's WHERE clause must not let
\* a move validated against one status land on another.
EdgeOnly == \A p \in Phases :
  rows'[p].status # rows[p].status => CanMove(rows[p].status, rows'[p].status)

LegalEdges == [][EdgeOnly]_vars

\* A row that readers count as over carries the completed_at they order by
\* (_case_completed_with_successor picks the latest completed_at; a NULL reads
\* as datetime.min and the pipeline would resume from the wrong phase).
ClosedRowsDated == \A p \in Phases :
  rows[p].status \in {Completed, Failed, Skipped} => rows[p].completed = Stamped

Lifecycle == INSTANCE PhaseLifecycle WITH status <- [p \in Phases |-> rows[p].status]

\* The three-statement protocol implements the abstract lifecycle: each step of
\* any session is one legal move of one phase or changes no status at all.
ImplementsLifecycle == Lifecycle!LifecycleSpec

=============================================================================
