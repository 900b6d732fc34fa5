--------------------------- MODULE PhaseRowsProofs ---------------------------
(***************************************************************************)
(* The rows of phases and the first task of one.                           *)
(*                                                                         *)
(* For any set of phases and any number of concurrent database sessions    *)
(* (PhaseExecution): the rows keep their types, a status moves only along  *)
(* an edge of _VALID_TRANSITIONS, a closed row is always dated, and the    *)
(* protocol implements the abstract lifecycle.                             *)
(*                                                                         *)
(* For any number of process deaths (TaskCreation): one first task.        *)
(***************************************************************************)
EXTENDS PhaseExecution, TaskCreation, SequenceTheorems, TLAPS

\* A session that has passed its check holds a move that was legal from the
\* status it will compare with, and brings completed_at if the move closes.
ChecksAreLegal == \A s \in Sessions :
  call[s].at = "checked" => CanMove(call[s].from, call[s].to)

ClosesAreDated == \A s \in Sessions :
  call[s].at \in {"called", "checked"} /\ call[s].to \in {Completed, Failed}
    => call[s].extra["completed"] = Stamped

SkipsAreUnforced == \A s \in Sessions :
  call[s].at \in {"called", "checked"} /\ call[s].to = Skipped
    => call[s].extra["completed"] = Unset

IInv == TypeOK /\ ChecksAreLegal /\ ClosesAreDated /\ SkipsAreUnforced /\ ClosedRowsDated

-----------------------------------------------------------------------------

\* The columns of an UPDATE are columns of a row: _FIELD_RESETS and
\* extra_fields never write anything but a timestamp or NULL.
LEMMA WrittenType ==
  ASSUME NEW row \in Row, NEW to \in PhaseStatus, NEW extra \in ExtraFields
  PROVE  /\ Written(row, to, extra) \in Row
         /\ Written(row, to, extra).status = to
BY DEF Written, FieldResets, Override, Row, ExtraFields, Column, Stamp,
       PhaseStatus, Pending, InProgress, Completed, Failed, Skipped, Null,
       Stamped, Unset

\* A move that closes or skips a row leaves it dated.
LEMMA WrittenDated ==
  ASSUME NEW row \in Row, NEW to \in {Completed, Failed, Skipped},
         NEW extra \in ExtraFields,
         to \in {Completed, Failed} => extra["completed"] = Stamped,
         to = Skipped => extra["completed"] = Unset
  PROVE  Written(row, to, extra).completed = Stamped
BY DEF Written, FieldResets, Override, Row, ExtraFields, Column, Stamp,
       PhaseStatus, Pending, InProgress, Completed, Failed, Skipped, Null,
       Stamped, Unset

\* Every call site names a status, and its extra_fields are well formed.
LEMMA CallSiteType ==
  ASSUME NEW site \in CallSites, NEW row \in Row
  PROVE  /\ site.to \in PhaseStatus
         /\ ExtraFrom(site, row) \in ExtraFields
         /\ site.to \in {Completed, Failed} => ExtraFrom(site, row)["completed"] = Stamped
         /\ site.to = Skipped => ExtraFrom(site, row)["completed"] = Unset
<1>1. site.to \in PhaseStatus
  BY DEF CallSites, Site, PhaseStatus, CloseCompleted, CloseFailed,
         EvaluationRetry, EscalateGoto, EvaluationArbitrate, StartNextPhase,
         ReopenForTask, TriggerArbitration, ReleaseClaim, CorrectiveTask,
         ReleaseDonePhase, GotoReset, SkipOver, ResetFailed, RetryBehindTicket,
         ReopenForMerge, RestartTask, ReviewFeedback, TerminateDone,
         TerminateUndone
<1>2. \A c \in Column : row[c] \in Stamp
  BY DEF Row, Column
<1>3. ExtraFrom(site, row) \in ExtraFields
  BY <1>2 DEF ExtraFrom, ExtraFields, Stamp
<1>4. site.to \in {Completed, Failed} => "completed" \in site.stamps
  BY DEF CallSites, Site, CloseCompleted, CloseFailed,
         EvaluationRetry, EscalateGoto, EvaluationArbitrate, StartNextPhase,
         ReopenForTask, TriggerArbitration, ReleaseClaim, CorrectiveTask,
         ReleaseDonePhase, GotoReset, SkipOver, ResetFailed, RetryBehindTicket,
         ReopenForMerge, RestartTask, ReviewFeedback, TerminateDone,
         TerminateUndone, Pending, InProgress, Completed, Failed, Skipped
<1>5. site.to = Skipped => site.stamps = {} /\ site.keeps = {}
  BY DEF CallSites, Site, CloseCompleted, CloseFailed,
         EvaluationRetry, EscalateGoto, EvaluationArbitrate, StartNextPhase,
         ReopenForTask, TriggerArbitration, ReleaseClaim, CorrectiveTask,
         ReleaseDonePhase, GotoReset, SkipOver, ResetFailed, RetryBehindTicket,
         ReopenForMerge, RestartTask, ReviewFeedback, TerminateDone,
         TerminateUndone, Pending, InProgress, Completed, Failed, Skipped
<1> QED BY <1>1, <1>3, <1>4, <1>5 DEF ExtraFrom, Column

-----------------------------------------------------------------------------

LEMMA InitIInv == Init => IInv
BY DEF Init, IInv, TypeOK, ChecksAreLegal, ClosesAreDated, SkipsAreUnforced,
       ClosedRowsDated, Calls, Idle, NewRow, Row, Stamp, Null, Stamped,
       PhaseStatus, Pending, InProgress, Completed, Failed, Skipped

LEMMA CallStep ==
  ASSUME IInv, NEW s \in Sessions, Call(s) PROVE IInv'
<1>1. PICK p \in Phases, site \in CallSites :
        call' = [call EXCEPT ![s] = Called(p, site.to, ExtraFrom(site, rows[p]))]
  BY DEF Call
<1>2. rows[p] \in Row /\ rows' = rows
  BY DEF IInv, TypeOK, Call
<1>3. /\ site.to \in PhaseStatus
      /\ ExtraFrom(site, rows[p]) \in ExtraFields
      /\ site.to \in {Completed, Failed} => ExtraFrom(site, rows[p])["completed"] = Stamped
      /\ site.to = Skipped => ExtraFrom(site, rows[p])["completed"] = Unset
  BY <1>2, CallSiteType
<1>4. TypeOK'
  BY <1>1, <1>2, <1>3 DEF IInv, TypeOK, Calls, Called
<1>5. (ChecksAreLegal /\ ClosesAreDated /\ SkipsAreUnforced)'
  BY <1>1, <1>3 DEF IInv, TypeOK, ChecksAreLegal, ClosesAreDated,
     SkipsAreUnforced, Called
<1>6. ClosedRowsDated'
  BY <1>2 DEF IInv, ClosedRowsDated
<1> QED BY <1>4, <1>5, <1>6 DEF IInv

LEMMA CheckStep ==
  ASSUME IInv, NEW s \in Sessions, Check(s) PROVE IInv'
<1> DEFINE from == rows[call[s].phase].status
<1>1. /\ call[s] \in Calls /\ call[s].at = "called" /\ rows' = rows
      /\ call' = [call EXCEPT ![s] = IF CanMove(from, call[s].to)
                                     THEN Checked(call[s], from) ELSE Idle]
  BY DEF IInv, TypeOK, Check
<1>2. /\ call[s].phase \in Phases /\ call[s].to \in PhaseStatus
      /\ call[s].extra \in ExtraFields
  BY <1>1 DEF Calls, Idle
<1>3. from \in PhaseStatus
  BY <1>2 DEF IInv, TypeOK, Row
<1>4. TypeOK'
  BY <1>1, <1>2, <1>3 DEF IInv, TypeOK, Calls, Checked
<1>5. (ChecksAreLegal /\ ClosesAreDated /\ SkipsAreUnforced)'
  BY <1>1 DEF IInv, TypeOK, ChecksAreLegal, ClosesAreDated,
     SkipsAreUnforced, Checked, Idle
<1>6. ClosedRowsDated'
  BY <1>1 DEF IInv, ClosedRowsDated
<1> QED BY <1>4, <1>5, <1>6 DEF IInv

LEMMA UpdateStep ==
  ASSUME IInv, NEW s \in Sessions, Update(s) PROVE IInv' /\ EdgeOnly
<1> DEFINE c == call[s]
<1>1. /\ c \in Calls /\ c.at = "checked"
      /\ rows' = IF rows[c.phase].status = c.from
                 THEN [rows EXCEPT ![c.phase] = Written(rows[c.phase], c.to, c.extra)]
                 ELSE rows
      /\ call' = [call EXCEPT ![s] = Idle]
  BY DEF IInv, TypeOK, Update
<1>2. /\ c.phase \in Phases /\ c.to \in PhaseStatus
      /\ c.extra \in ExtraFields
  BY <1>1 DEF Calls, Idle
<1>3. rows[c.phase] \in Row
  BY <1>2 DEF IInv, TypeOK
<1>4. /\ Written(rows[c.phase], c.to, c.extra) \in Row
      /\ Written(rows[c.phase], c.to, c.extra).status = c.to
  BY <1>2, <1>3, WrittenType
<1>5. CanMove(c.from, c.to)
  BY <1>1 DEF IInv, ChecksAreLegal
<1>6. TypeOK'
  BY <1>1, <1>2, <1>4 DEF IInv, TypeOK, Calls
<1>7. (ChecksAreLegal /\ ClosesAreDated /\ SkipsAreUnforced)'
  BY <1>1 DEF IInv, TypeOK, ChecksAreLegal, ClosesAreDated,
     SkipsAreUnforced, Idle
<1>8. c.to \in {Completed, Failed, Skipped}
        => Written(rows[c.phase], c.to, c.extra).completed = Stamped
  <2>1. /\ c.to \in {Completed, Failed} => c.extra["completed"] = Stamped
        /\ c.to = Skipped => c.extra["completed"] = Unset
    BY <1>1 DEF IInv, ClosesAreDated, SkipsAreUnforced
  <2> QED BY <1>2, <1>3, <2>1, WrittenDated
<1>9. ClosedRowsDated'
  BY <1>1, <1>2, <1>4, <1>8 DEF IInv, TypeOK, ClosedRowsDated
<1>10. EdgeOnly
  BY <1>1, <1>2, <1>4, <1>5 DEF IInv, TypeOK, EdgeOnly
<1> QED BY <1>6, <1>7, <1>9, <1>10 DEF IInv

\* The claim column, and a termination's dating of a live row, never move a
\* status.
LEMMA ColumnStep ==
  ASSUME IInv, NEW p \in Phases, Claim(p) \/ ClearClaim(p) \/ TerminateLive(p)
  PROVE  IInv' /\ \A q \in Phases : rows'[q].status = rows[q].status
<1>1. \A q \in Phases : rows[q] \in Row
  BY DEF IInv, TypeOK
<1>2. /\ \A q \in Phases : rows'[q] \in Row /\ rows'[q].status = rows[q].status
      /\ \A q \in Phases : rows[q].completed = Stamped => rows'[q].completed = Stamped
      /\ rows' \in [Phases -> Row]
  BY <1>1 DEF IInv, TypeOK, Claim, ClearClaim, TerminateLive, Row, Stamp,
              Null, Stamped
<1>3. call' = call
  BY DEF Claim, ClearClaim, TerminateLive
<1> QED BY <1>1, <1>2, <1>3 DEF IInv, TypeOK, ChecksAreLegal, ClosesAreDated,
            SkipsAreUnforced, ClosedRowsDated

LEMMA StepIInv == IInv /\ [Next]_vars => IInv' /\ EdgeOnly
<1> SUFFICES ASSUME IInv, [Next]_vars PROVE IInv' /\ EdgeOnly
  OBVIOUS
<1>1. ASSUME NEW s \in Sessions, Call(s) PROVE IInv' /\ EdgeOnly
  BY <1>1, CallStep DEF Call, EdgeOnly
<1>2. ASSUME NEW s \in Sessions, Check(s) PROVE IInv' /\ EdgeOnly
  BY <1>2, CheckStep DEF Check, EdgeOnly
<1>3. ASSUME NEW s \in Sessions, Update(s) PROVE IInv' /\ EdgeOnly
  BY <1>3, UpdateStep
<1>4. ASSUME NEW p \in Phases, Claim(p) \/ ClearClaim(p) \/ TerminateLive(p)
      PROVE  IInv' /\ EdgeOnly
  BY <1>4, ColumnStep DEF EdgeOnly
<1>5. CASE UNCHANGED vars
  BY <1>5 DEF vars, IInv, TypeOK, ChecksAreLegal, ClosesAreDated,
              SkipsAreUnforced, ClosedRowsDated, EdgeOnly
<1> QED BY <1>1, <1>2, <1>3, <1>4, <1>5 DEF Next

\* One legal move of phase p to `to`, and of nothing else.
Moves(p, to) ==
  /\ CanMove(rows[p].status, to)
  /\ \A q \in Phases : rows'[q].status = IF q = p THEN to ELSE rows[q].status

StatusesKept == \A q \in Phases : rows'[q].status = rows[q].status

\* Seen through the status column alone, a step of any session is one legal
\* move or nothing.
LEMMA MoveOrStutter ==
  ASSUME IInv, [Next]_vars
  PROVE  StatusesKept \/ \E p \in Phases, to \in PhaseStatus : Moves(p, to)
<1>1. ASSUME NEW s \in Sessions, Call(s) \/ Check(s) PROVE StatusesKept
  BY <1>1 DEF Call, Check, StatusesKept
<1>2. ASSUME NEW s \in Sessions, Update(s)
      PROVE  StatusesKept \/ \E p \in Phases, to \in PhaseStatus : Moves(p, to)
  <2> DEFINE c == call[s]
  <2>1. /\ c \in Calls /\ c.at = "checked"
        /\ rows' = IF rows[c.phase].status = c.from
                   THEN [rows EXCEPT ![c.phase] = Written(rows[c.phase], c.to, c.extra)]
                   ELSE rows
    BY <1>2 DEF IInv, TypeOK, Update
  <2>2. c.phase \in Phases /\ c.to \in PhaseStatus /\ c.extra \in ExtraFields
    BY <2>1 DEF Calls, Idle
  <2>3. rows \in [Phases -> Row] /\ rows[c.phase] \in Row
    BY <2>2 DEF IInv, TypeOK
  <2>4. Written(rows[c.phase], c.to, c.extra).status = c.to
    BY <2>2, <2>3, WrittenType
  <2>5. CanMove(c.from, c.to)
    BY <2>1 DEF IInv, ChecksAreLegal
  <2>6. CASE rows[c.phase].status = c.from
    <3>1. Moves(c.phase, c.to)
      BY <2>1, <2>2, <2>3, <2>4, <2>5, <2>6 DEF Moves
    <3> QED BY <2>2, <3>1
  <2>7. CASE rows[c.phase].status # c.from
    BY <2>1, <2>7 DEF StatusesKept
  <2> QED BY <2>6, <2>7
<1>3. ASSUME NEW p \in Phases, Claim(p) \/ ClearClaim(p) \/ TerminateLive(p)
      PROVE  StatusesKept
  BY <1>3, ColumnStep DEF StatusesKept
<1>4. CASE UNCHANGED vars
  BY <1>4 DEF vars, StatusesKept
<1> QED BY <1>1, <1>2, <1>3, <1>4 DEF Next

-----------------------------------------------------------------------------

\* The rows and the sessions' in-flight calls keep their types.
THEOREM TypeCorrect == Spec => []TypeOK
<1>1. IInv => TypeOK
  BY DEF IInv
<1> QED BY InitIInv, StepIInv, <1>1, PTL DEF Spec

\* A row that readers count as over always carries completed_at.
THEOREM ClosedDated == Spec => []ClosedRowsDated
<1>1. IInv => ClosedRowsDated
  BY DEF IInv
<1> QED BY InitIInv, StepIInv, <1>1, PTL DEF Spec

\* No interleaving of callers moves a status off the transition table.
THEOREM EdgesLegal == Spec => LegalEdges
<1>1. IInv /\ [Next]_vars => [EdgeOnly]_vars
  BY StepIInv
<1> QED BY InitIInv, StepIInv, <1>1, PTL DEF Spec, LegalEdges

\* Read, check and conditional UPDATE together implement one atomic legal move.
THEOREM Refinement == Spec => ImplementsLifecycle
<1>1. Init => Lifecycle!LifecycleInit
  BY DEF Init, NewRow, Lifecycle!LifecycleInit, Lifecycle!Pending, Pending
<1>2. IInv /\ [Next]_vars => [Lifecycle!LifecycleNext]_([p \in Phases |-> rows[p].status])
  <2> DEFINE st == [p \in Phases |-> rows[p].status]
  <2> SUFFICES ASSUME IInv, [Next]_vars PROVE [Lifecycle!LifecycleNext]_st
    OBVIOUS
  <2>1. CASE StatusesKept
    BY <2>1 DEF StatusesKept
  <2>2. ASSUME NEW p \in Phases, NEW to \in PhaseStatus, Moves(p, to)
        PROVE  Lifecycle!LifecycleNext
    <3>1. to \in Lifecycle!PhaseStatus
      BY DEF PhaseStatus, Pending, InProgress, Completed, Failed, Skipped,
             Lifecycle!PhaseStatus, Lifecycle!Pending, Lifecycle!InProgress,
             Lifecycle!Completed, Lifecycle!Failed, Lifecycle!Skipped
    <3>2. rows[p].status \in PhaseStatus
      BY DEF IInv, TypeOK, Row
    <3>3. Lifecycle!CanMove(st[p], to)
      BY <2>2, <3>2 DEF Moves, CanMove, ValidTransitions,
         PhaseStatus, Pending, InProgress, Completed, Failed, Skipped,
         Lifecycle!CanMove, Lifecycle!ValidTransitions, Lifecycle!PhaseStatus,
         Lifecycle!Pending, Lifecycle!InProgress, Lifecycle!Completed,
         Lifecycle!Failed, Lifecycle!Skipped
    <3>4. st' = [st EXCEPT ![p] = to]
      BY <2>2 DEF Moves
    <3> QED BY <3>1, <3>3, <3>4 DEF Lifecycle!LifecycleNext, Lifecycle!Move
  <2> QED BY <2>1, <2>2, MoveOrStutter
<1> QED BY InitIInv, StepIInv, <1>1, <1>2, PTL DEF Spec, ImplementsLifecycle,
          Lifecycle!LifecycleSpec

-----------------------------------------------------------------------------
(* The first task of a phase.  OneFirstTask is not inductive: it needs to  *)
(* know that while the launch endpoint has yet to insert its task the      *)
(* claim is in its hands and no sweep relies on one, and that a sweep past *)
(* its re-check still finds the phase without a task.                      *)

LaunchOwns ==
  launch = "creating" => tasks = <<>> /\ holder = "launch" /\ sweep.at \notin Holding

LaunchInserted == launch = "created" => tasks # <<>>

RecheckHolds == sweep.at \in {"cleared", "inserting"} => tasks = <<>>

\* The cycle never starts after the first task: the scoped re-check of
\* _case_in_progress_complete sees every task there is.
AnchoredAtFirst == started <= 1

FirstInv ==
  /\ FirstTypeOK
  /\ OneFirstTask
  /\ LaunchOwns /\ LaunchInserted /\ RecheckHolds /\ AnchoredAtFirst

\* A phase has one task or none.
LEMMA ShortSequence ==
  ASSUME NEW S, NEW s \in Seq(S), Len(s) <= 1
  PROVE  Len(s) \in {0, 1} /\ (s = <<>> <=> Len(s) = 0)
<1>1. Len(s) \in Nat
  BY LenProperties
<1>2. \A n \in Nat : n <= 1 => n \in {0, 1}
  OBVIOUS
<1>3. s = <<>> <=> Len(s) = 0
  BY EmptySeq
<1> QED
  BY <1>1, <1>2, <1>3, Zenon

USE DEF Pending, InProgress, Completed, Failed, Skipped, PhaseStatus, Nobody, Case,
        Holding, Resting

LEMMA FirstInvInit == FirstInit => FirstInv
  BY MaxCrashesType DEF FirstInit, FirstInv, FirstTypeOK, OneFirstTask, LaunchOwns, LaunchInserted,
     RecheckHolds, AnchoredAtFirst

LEMMA FirstInvNext == FirstInv /\ [FirstNext]_firstVars => FirstInv'
<1> SUFFICES ASSUME FirstInv, [FirstNext]_firstVars PROVE FirstInv'
  OBVIOUS
<1> USE MaxCrashesType
    DEF FirstInv, FirstTypeOK, OneFirstTask, LaunchOwns, LaunchInserted, RecheckHolds, AnchoredAtFirst
<1>0. Len(tasks) \in {0, 1} /\ (tasks = <<>> <=> Len(tasks) = 0)
  BY ShortSequence
<1>1. CASE LaunchInsert
  BY <1>0, <1>1 DEF LaunchInsert
<1>2. CASE LaunchRelease
  BY <1>0, <1>2 DEF LaunchRelease, Release
<1>3. CASE LaunchDies
  BY <1>0, <1>3 DEF LaunchDies
<1>4. CASE SweepHeal
  BY <1>0, <1>4 DEF SweepHeal, Stale
<1>5. CASE SweepReleaseDone
  <2>1. CASE Done = {}
    BY <1>0, <1>5, <2>1 DEF SweepReleaseDone
  <2>2. CASE Done # {}
    <3>1. Done = {1} /\ Len(tasks) = 1
      BY <1>0, <2>2 DEF Done
    <3>2. (CHOOSE i \in Done : \A j \in Done : j <= i) = 1
      BY <3>1
    <3> QED
      BY <1>0, <1>5, <3>1, <3>2 DEF SweepReleaseDone
  <2> QED
    BY <2>1, <2>2
<1>6. CASE SweepCount
  BY <1>0, <1>6 DEF SweepCount, At
<1>7. CASE SweepClaim
  BY <1>0, <1>7 DEF SweepClaim, At
<1>8. CASE SweepRecheck
  <2>1. Cycle = {} <=> tasks = <<>>
    BY <1>0 DEF Cycle
  <2> QED
    BY <1>0, <1>8, <2>1 DEF SweepRecheck, At, Otherwise, Release
<1>9. CASE SweepExisting
  BY <1>0, <1>9 DEF SweepExisting, At
<1>10. CASE SweepInsert
  BY <1>0, <1>10 DEF SweepInsert
<1>11. CASE SweepDies
  BY <1>0, <1>11 DEF SweepDies
<1>12. ASSUME NEW i \in 1..Len(tasks), Finish(i) PROVE FirstInv'
  <2>1. tasks' \in Seq({"live", "done"}) /\ Len(tasks') = Len(tasks)
    BY <1>12 DEF Finish
  <2> QED
    BY <1>0, <1>12, <2>1 DEF Finish
<1>13. CASE Close
  BY <1>0, <1>13 DEF Close
<1>14. CASE UNCHANGED firstVars
  BY <1>14 DEF firstVars
<1> QED
  BY <1>1, <1>2, <1>3, <1>4, <1>5, <1>6, <1>7, <1>8, <1>9, <1>10, <1>11,
     <1>12, <1>13, <1>14 DEF FirstNext, SweepStep

LEMMA FirstSafe == FirstSpec => []FirstInv
  BY FirstInvInit, FirstInvNext, PTL DEF FirstSpec

\* The claim, the tasks and the two actors of a phase's first task keep their
\* types, however often processes die.
THEOREM FirstTypeCorrect == FirstSpec => []FirstTypeOK
  BY FirstSafe, PTL DEF FirstInv

\* The launch endpoint and the sweep never both create the phase's first task,
\* however often they die and are retried.
THEOREM NoDuplicateFirstTask == FirstSpec => []OneFirstTask
  BY FirstSafe, PTL DEF FirstInv
==============================================================================
