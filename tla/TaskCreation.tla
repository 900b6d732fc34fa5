---------------------------- MODULE TaskCreation ----------------------------
(***************************************************************************)
(* Who creates a phase's first task.  Two paths race for it: the launch    *)
(* endpoint (start_execution commits phase 1 already claimed, then the     *)
(* endpoint spends a long time enriching and inserting the task) and the   *)
(* background sweep, whose three self-heal cases each see "a phase without *)
(* a task" in their own way.  The claim column, re-checks made after it is *)
(* won, and the anchoring of started_at keep them apart.                   *)
(*                                                                         *)
(* One phase is modelled, statement by statement.  tasks is in creation    *)
(* order; started is the position of the first task the phase's cycle      *)
(* filter (Task.created_at >= started_at) lets through, 0 when started_at  *)
(* IS NULL and nothing is filtered out.                                    *)
(*                                                                         *)
(* Timing assumption (CLAIM_STALE_TIMEOUT_SECONDS, eight minutes): a claim *)
(* outlives the timeout only if its holder died or returned without        *)
(* releasing it.                                                           *)
(***************************************************************************)
EXTENDS PhaseRow, Naturals, Sequences

CONSTANT MaxCrashes     \* bound on process deaths, so that one run can end
ASSUME MaxCrashesType == MaxCrashes \in Nat

VARIABLES
  status,    \* PhaseExecution.status
  started,   \* PhaseExecution.started_at, as a position in tasks
  holder,    \* task_creation_claimed_at: who wrote it, or Nobody
  tasks,     \* the phase's tasks, each "live" or "done"
  launch,    \* the launch endpoint
  sweep,     \* the sweep: where it is, and in which case
  crashes

firstVars == <<status, started, holder, tasks, launch, sweep, crashes>>

Nobody  == "nobody"
Case    == {"first", "no_tasks", "no_cycle"}
Resting == [at |-> "idle", in |-> "first"]

Cycle == {i \in 1..Len(tasks) : i >= started}
Live  == {i \in 1..Len(tasks) : tasks[i] = "live"}
Done  == {i \in 1..Len(tasks) : tasks[i] = "done"}

\* The sweep steps during which it relies on the claim it won.
Holding == {"won", "cleared", "inserting"}

Stale ==
  \/ holder = "launch" /\ launch = "dead"
  \/ holder = "sweep" /\ sweep.at \notin Holding

-----------------------------------------------------------------------------
(* Mutants of the code below. *)

\* start_execution commits the row and leaves the claim to the endpoint.
InitUnclaimed ==
  /\ status = Pending /\ started = 0 /\ holder = Nobody /\ tasks = <<>>
  /\ launch = "creating" /\ sweep = Resting /\ crashes = 0

\* The cycle is anchored at the moment of the release: the cycle filter hides
\* the task that is being surfaced.
ReleaseAnchorsNow ==
  /\ holder' = Nobody
  /\ IF status # InProgress
     THEN status' = InProgress /\ started' = Len(tasks) + 1
     ELSE UNCHANGED <<status, started>>

\* The release clears the claim and leaves a pending row pending.
ReleaseOnly ==
  /\ holder' = Nobody
  /\ UNCHANGED <<status, started>>

\* Clearing a stale claim without repairing the status.
HealClaimOnly ==
  /\ sweep = Resting
  /\ holder' = IF Stale THEN Nobody ELSE holder
  /\ sweep' = [Resting EXCEPT !.at = "healed"]
  /\ UNCHANGED <<status, started, tasks, launch, crashes>>

\* A held claim is never taken back.
NeverHeal ==
  /\ sweep = Resting
  /\ sweep' = [Resting EXCEPT !.at = "healed"]
  /\ UNCHANGED <<status, started, holder, tasks, launch, crashes>>

-----------------------------------------------------------------------------

FirstInit ==
  /\ status = Pending /\ started = 0 /\ holder = "launch" /\ tasks = <<>>
  /\ launch = "creating" /\ sweep = Resting /\ crashes = 0

\* _release_phase_task_creation_claim: a row that is not running is moved to
\* in_progress with the cycle anchored at its earliest task.
Release ==
  /\ holder' = Nobody
  /\ IF status # InProgress
     THEN /\ status' = InProgress
          /\ started' = 1
     ELSE UNCHANGED <<status, started>>

LaunchInsert ==
  /\ launch = "creating"
  /\ tasks' = Append(tasks, "live")
  /\ launch' = "created"
  /\ UNCHANGED <<status, started, holder, sweep, crashes>>

LaunchRelease ==
  /\ launch = "created"
  /\ Release
  /\ launch' = "done"
  /\ UNCHANGED <<tasks, sweep, crashes>>

\* create_task raises, or the server dies: the claim is not released.
LaunchDies ==
  /\ launch \in {"creating", "created"}
  /\ crashes < MaxCrashes
  /\ launch' = "dead"
  /\ crashes' = crashes + 1
  /\ UNCHANGED <<status, started, holder, tasks, sweep>>

-----------------------------------------------------------------------------

\* _release_stale_task_creation_claims, then _clear_stale_task_creation_claim:
\* a task that exists behind a row that is not running brings the row back.
SweepHeal ==
  /\ sweep = Resting
  /\ IF Stale
     THEN /\ holder' = Nobody
          /\ IF status # InProgress /\ tasks # <<>>
             THEN /\ status' = InProgress
                  /\ started' = IF started = 0 THEN Len(tasks) ELSE started
             ELSE UNCHANGED <<status, started>>
     ELSE UNCHANGED <<status, started, holder>>
  /\ sweep' = [Resting EXCEPT !.at = "healed"]
  /\ UNCHANGED <<tasks, launch, crashes>>

\* _release_pending_phases_with_done_tasks: the cycle starts at the latest
\* done task.
SweepReleaseDone ==
  /\ sweep.at = "healed"
  /\ IF status = Pending /\ Done # {}
     THEN /\ status' = InProgress
          /\ started' = IF started = 0
                        THEN CHOOSE i \in Done : \A j \in Done : j <= i
                        ELSE started
          /\ holder' = Nobody
     ELSE UNCHANGED <<status, started, holder>>
  /\ sweep' = [Resting EXCEPT !.at = "looking"]
  /\ UNCHANGED <<tasks, launch, crashes>>

At(where, case) == [at |-> where, in |-> case]

\* The snapshot of the row, and the first count of the case it falls into.
SweepCount ==
  /\ sweep.at = "looking"
  /\ sweep' = IF status = Pending /\ tasks = <<>> THEN At("counted", "first")
              ELSE IF status = InProgress /\ Cycle = {} THEN At("counted", "no_tasks")
              ELSE Resting
  /\ UNCHANGED <<status, started, holder, tasks, launch, crashes>>

\* _claim_phase_task_creation: one UPDATE ... WHERE the column IS NULL.
SweepClaim ==
  /\ sweep.at = "counted"
  /\ IF holder = Nobody
     THEN /\ holder' = "sweep"
          /\ sweep' = At("won", sweep.in)
     ELSE /\ sweep' = Resting
          /\ UNCHANGED holder
  /\ UNCHANGED <<status, started, tasks, launch, crashes>>

\* Mutant: the claim alone decides, with no second look at the tasks.
SweepTrustsClaim ==
  /\ sweep.at = "won"
  /\ sweep' = At("inserting", sweep.in)
  /\ UNCHANGED <<status, started, holder, tasks, launch, crashes>>

\* Where the no-tasks case goes on after finding a task: the same pass falls
\* through to _case_in_progress_complete, which looks at the cycle only.
Otherwise ==
  IF sweep.in = "no_tasks" /\ Cycle = {} THEN At("counted", "no_cycle") ELSE Resting

\* The re-check made while holding the claim: unscoped in the first two
\* cases, scoped to the cycle in _case_in_progress_complete.
SweepRecheck ==
  /\ sweep.at = "won"
  /\ IF IF sweep.in = "no_cycle" THEN Cycle # {} ELSE tasks # <<>>
     THEN Release /\ sweep' = Otherwise
     ELSE sweep' = At("cleared", sweep.in) /\ UNCHANGED <<status, started, holder>>
  /\ UNCHANGED <<tasks, launch, crashes>>

\* _create_phase_task refuses when a live task exists; the caller's claim
\* stays where it is.
SweepExisting ==
  /\ sweep.at = "cleared"
  /\ sweep' = IF Live # {} THEN Resting ELSE At("inserting", sweep.in)
  /\ UNCHANGED <<status, started, holder, tasks, launch, crashes>>

\* One commit: the task, the row's move to in_progress, the claim cleared.
SweepInsert ==
  /\ sweep.at = "inserting"
  /\ tasks' = Append(tasks, "live")
  /\ IF status # InProgress
     THEN /\ status' = InProgress
          /\ started' = Len(tasks) + 1
     ELSE UNCHANGED <<status, started>>
  /\ holder' = Nobody
  /\ sweep' = Resting
  /\ UNCHANGED <<launch, crashes>>

SweepDies ==
  /\ sweep # Resting
  /\ crashes < MaxCrashes
  /\ sweep' = Resting
  /\ crashes' = crashes + 1
  /\ UNCHANGED <<status, started, holder, tasks, launch>>

SweepStep ==
  \/ SweepHeal \/ SweepReleaseDone \/ SweepCount \/ SweepClaim
  \/ SweepRecheck \/ SweepExisting \/ SweepInsert

-----------------------------------------------------------------------------

\* The agent reports done.
Finish(i) ==
  /\ tasks[i] = "live"
  /\ tasks' = [tasks EXCEPT ![i] = "done"]
  /\ UNCHANGED <<status, started, holder, launch, sweep, crashes>>

\* The phase is evaluated and closed, under its own claim (see PhaseAdvance).
Close ==
  /\ status = InProgress /\ holder = Nobody
  /\ Live = {} /\ Cycle # {}
  /\ status' = Completed
  /\ UNCHANGED <<started, holder, tasks, launch, sweep, crashes>>

FirstNext ==
  \/ LaunchInsert \/ LaunchRelease \/ LaunchDies
  \/ SweepStep \/ SweepDies
  \/ \E i \in 1..Len(tasks) : Finish(i)
  \/ Close

\* The sweep is a polling loop and always takes its next step.  The launch
\* endpoint is a request handler: it returns, raises, or dies with the server.
\* An agent may never report, so Finish has no fairness.
Fairness ==
  /\ WF_firstVars(SweepStep)
  /\ WF_firstVars(LaunchInsert \/ LaunchRelease \/ LaunchDies)

FirstSpec == FirstInit /\ [][FirstNext]_firstVars /\ Fairness

-----------------------------------------------------------------------------

FirstTypeOK ==
  /\ status \in PhaseStatus
  /\ started \in 0..(Len(tasks) + 1)
  /\ holder \in {Nobody, "launch", "sweep"}
  /\ tasks \in Seq({"live", "done"})
  /\ launch \in {"creating", "created", "done", "dead"}
  /\ sweep \in [at : {"idle", "healed", "looking", "counted"} \cup Holding,
                in : Case]
  /\ crashes \in 0..MaxCrashes

\* However the launch endpoint and the sweep interleave, die and are retried,
\* the phase gets one first task ("a duplicate task+agent got spawned for the
\* same phase" is what _claim_phase_task_creation was written against).
OneFirstTask == Len(tasks) <= 1

\* However often the launch and the sweep die, with the claim in their hands or
\* between the task's commit and the claim's release, the phase has its first task
\* in the end, behind a row that the cases of the sweep can see, and no claim is
\* held for ever.
TaskSurfaces ==
  <>[](tasks # <<>> /\ status # Pending) /\ []<>(holder = Nobody)

=============================================================================
