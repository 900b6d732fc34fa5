# HephaestusNG: a verification project

TLA+ modules, TLC runs and TLAPS proofs kept beside the HephaestusNG source.
Paths of the form `src/src/...`, `src/docs/...` and `src/tests/...` name files of
the repository. `PROJECT.json` maps every definition to the lines it models and
lists the runs, mutants, findings, hazards and theorems.

## 1. The system

HephaestusNG drives coding agents (CLI processes in tmux sessions) through a
*workflow*: an ordered list of *phases* (requirements, architecture,
development, a chain of reviews, QA, deploy, ...).  All durable state is rows of
one SQLite database; three kinds of code act on it concurrently:

* a **sweep** that wakes up periodically and moves every workflow forward
  (`autopilot/orchestrator`), serialised per workflow by a non-blocking lock;
* the **completion path**, run when an agent reports a task done
  (`fire_spec_gate_if_ready`), which takes no lock and coordinates with the sweep
  only through columns of the database;
* the **HTTP/MCP handlers** and the monitoring loops (`mcp`, `monitoring`),
  which pause, resume, restart, terminate and repair.

Sessions are `autoflush=False, expire_on_commit=False`, so what a function has
read stays in its hands while others commit.

### Inventory

| Component | State it keeps | Operations and partners | What is hard | What makes it correct |
|---|---|---|---|---|
| **Phase rows** (`core/database.py`, `phase_transitions.transition_phase_execution`) | `phase_executions.status`, `started_at`, `completed_at`, `task_creation_claimed_at` | some twenty call sites in the sweep, the gate, the phase manager, arbitration and the handlers | read, check and update are three statements | the status moves along `_VALID_TRANSITIONS` only; a closed row is dated |
| **First task** (`workflow_execution_routes`, `phase_transitions`) | the claim column, `tasks` | launch endpoint and three self-heal cases of the sweep | the launch is slow and may die at any statement | one first task, no stranded phase, no claim for ever |
| **Phase advancement** (`phase_transitions`, `phases/phase_manager`, `task_completion/completion_steps`) | rows, tasks, `retry_count`, `total_gotos`, workflow status | sweep (`_advance_phases`) and gate (`fire_spec_gate_if_ready`) both call `mark_phase_complete` and `_create_phase_task`, a commit at a time | two unlocked paths, phases revisited by gotos and retries, restarts | one phase runs at a time, each is closed by its own work, each retry is paid for, the workflow ends |
| **Pause and resume** (`engine_client`, `lifecycle`, `project_routes`, `feature_*_routes`) | `Workflow.status`, `paused_by`, `paused_retry_count`, `AutopilotProject` | buttons, budget, review, the sweep's own retries | five reasons share a column; the sweep writes what it read earlier | a pause says why, is lifted only by whom it belongs to, and a system pause ends |
| **Queue and dispatch** (`queue_service`, `agent_dispatch_service`, `create_task_service`, `agents/launch_pipeline`) | task and agent rows, `_pending_reservations`, coroutines | create, restart, queue passes, pauses, reports, terminations, sweeps | a dispatch takes minutes; anything may happen meanwhile | one agent per task, slots kept, queued work served |
| **Status derivation** (`core/status_derivation.py`) | none (writes back workflow status) | status pages, board | writes from a reader | agrees with the rows |
| **Review and pull requests** (`feature_review_routes`, `pr_resolution`, `policy.evaluate_review_gate`) | `Feature.review_status`, `pr_url`, `auto_merge_sync_pending`, the pull request on GitHub | git_expert, gate, reviewer, auto-merge, sweep | everybody acts on an answer of GitHub that is half a minute old; the gate has two entrances | finished work reaches a reviewer, nothing is over or merged that nobody approved, an approval lands |
| **Arbitration, escalation** (`arbitration.py`, `human_escalation.py`, `policy.py`) | claim column, arbitration tasks, `arbitration_result.json`, the marker in `status_reason`, request and response files | gate, sweep, arbiter, a person | found only through the claim, which many calls clear; two paths act on one file | a decision is acted on, once; an open question to a person stays open |
| **Budget and cost** (`cost_derivation`, `cost_collection_service`) | cost entries, session checkpoints, project limit | completion and termination threads | two collectors of one session | a line is charged once; the limit bites |
| **Agent lifecycle** (`agents/*`, `monitoring/mechanical_recovery`, `monitoring/monitor`) | agent rows, tmux sessions, the task an agent holds | the monitor's cycle nudges, relaunches and ends agents; the report handler ends them; the sweep fails and retries tasks | each reads a row, waits for seconds or minutes, and writes | one agent works on a task; a report is not undone; the task ends or gets to a person |
| **Orphan reaper** (`monitoring/orphan_reaper`) | when a session was first seen without a row | end of every monitor cycle | kills what a launch may just be setting up | no session stays up that no row accounts for |
| **CLI launch backoff** (`agents/cli_launch_backoff.py`) | failures and not-before time per CLI | launch pipeline | clock readings | no launch within the backoff, and it ends |
| **Task reports** (`agent_task_routes`, `task_completion/*`) | task status, verification results | agents, gate | late and repeated reports | a report counts once |
| **Validation and results** (`validation/*`, `result_service`, `termination_handler`) | results, verdicts | validator agents | verdict after the task moved on | one verdict per result |
| **Project runs** (`autopilot/service.py`, `state.py`, `control_routes`, `pipeline_runtime`) | per project: a stop event, a flag, an asyncio task, the walk's thread, a reservation; persisted: the marker, `is_active` | start and stop requests, the sweep that resyncs, start-up, drain | a cancelled task does not end its thread; stop waits with the lock held | one walk per project, slots kept, stopped stays stopped, what should run comes to run |
| **Design queue and walk** (`pipeline.py`, `queue.py`, `features.py`, `pipeline_features`) | `AutopilotDesign`, `Feature` and `Workflow` rows, `PipelineState`, the threads of the walk | reviewers, stop, sweep repairs, dashboards, crashes | a thread decides on the status it read; reviews in the middle | a design comes to its outcome; a feature is built on approved ones |
| **Feature housekeeping** (`features.py`) | task status, feature rows | sweep | time scales that overlap | repairs nothing that is alive |
| **Tickets and blocking** (`ticket_service`, `task_blocking_service`) | blocked-by graph, task status `blocked` | tickets API, dispatch | shares a status with a person's pause | a task waits exactly for its open blockers |
| **Worktrees and merging** (`core/worktree_*`) | git branches, a file lock | completion, integration | conflicts and crashes between git steps | nothing merged is lost |
| **Server lifecycle, loops** (`background_loops`, `server_lifecycle`) | tasks of the event loop | all of the above | restarts; ticks that overlap | every loop goes round |
| **Monitoring by language models** (`monitoring/guardian`, `conductor`) | analyses, steering messages | the monitor's cycle | acts minutes after it looked | what it may do to an agent, recovery may too |
| search and similarity, schema, workflow definitions, specs, repair service, prompts, messages, terminal capture, LLM/CLI clients, web API, dashboards | see `PROJECT.json` | | | |

## 2. What is hard to test here

`PROJECT.json` lists the hazards by line.  They are of five families, and the
properties are chosen from them:

1. **Two paths on one row.**  Gate, sweep, launch endpoint, monitor and buttons
   share rows without a lock: `ImplementsLifecycle`, `OneFirstTask`,
   `OneRunningPhase`, `InOrder`, `OneAgent` (of `TaskDispatch` and of
   `AgentRecovery`), `OneWalk`, `NobodySkipped`, `DecidedOnce`.
2. **Decided on an old read.**  A session keeps what it read while others commit,
   a thread what it heard from GitHub or found in a pane: `SweepRespects`,
   `SlotsKept`, `ReportKept` (twice), `CapKept`, `LandsApproved`, `BuiltOnApproved`,
   `Heard`.
3. **One commit of several.**  The server dies, or a step fails, between two
   commits: `TaskSurfaces`, `RetriesPaidFor`, `TaskServed`, `QueuedLands`,
   `Restarts`.
4. **Long legal sequences.**  Gotos revisit phases, people click in any order, a
   project is stopped and started again: `ClosedByWork`, `CompletedIsOver`,
   `StopMeansStop`, `PersonDecides`, and `PausedHasReason`, which is proved.
5. **It has to happen.**  Unattended work must end: `Finishes`,
   `SystemPauseRecovers`, `BudgetBites`, `TaskServed`, `DesignSettles`,
   `ReachesReviewer`, `Settles`.

## 3. Plan

Done, in the order in which they matter: `PhaseRow`, `PhaseLifecycle`,
`PhaseExecution`, `TaskCreation`, `PhaseAdvance`, `WorkflowPause`,
`TaskDispatch`, then the layers around them: `DesignPipeline` (what the project
does with whole workflows), `PullRequestGate` (how a workflow ends in review
mode), `ProjectRuns` (which projects run at all), `AgentRecovery` (what becomes
of the agents), `Arbitration` (what becomes of a phase that does not converge).
Status derivation has no module of its own: its operators are in
`DesignPipeline` and its write-back is a step of every module it disturbs.

What could come next, each small against what is there: `Arbitration` composed with
`PhaseAdvance` through the claim column; ticket blocking against a person's pause;
the cost ledger with two collectors of one session; the validator's round trip;
worktree merging with the branch as a set of commits.

Theorems proved are in section 7: every invariant and every action property of the runs
is one of them.  What is left to TLC alone is liveness.
An operator defined by recursion over a sequence (`SelectSeq`) cannot be reasoned
about, so an order that the code keeps in timestamps is a rank in the models:
`closings` in `PhaseAdvance`, `line` in `TaskDispatch`.

## 4. Modules and the code

### PhaseRow, PhaseLifecycle, PhaseExecution
`PhaseRow` is the row and the two tables `_VALID_TRANSITIONS`
(`ValidTransitions`) and `_FIELD_RESETS` (`FieldResets`) of
`phase_transitions.py`.  A timestamp is abstracted to NULL or not.
`PhaseLifecycle` is the abstract specification: the status of each phase moves
along the table and nothing else is said.  `PhaseExecution` is the protocol:
each session runs `Call` (the call site reads the row and composes
`extra_fields`), `Check` (`transition_phase_execution` validates), `Update` (the
`UPDATE ... WHERE status = from_status`).  Its twenty call sites are records of
their own guards and of the columns they keep or stamp; where several share both
they are still listed apart, since each maps to its own lines.  `Claim`,
`ClearClaim` and `TerminateLive` are the writes of the row outside a transition.

### TaskCreation
One phase and its `tasks` in creation order.  The launch endpoint starts with
the claim `start_execution` committed (`FirstInit`), inserts, releases; the sweep runs
`SweepHeal`, `SweepReleaseDone`, `SweepCount`, `SweepClaim`, `SweepRecheck`,
`SweepExisting`, `SweepInsert`, one statement each, in one of its three cases
(`_case_start_first_phase`, `_case_in_progress_no_tasks`,
`_case_in_progress_complete`).  `started` is a position in `tasks`: what the
filter `Task.created_at >= started_at` lets through.  `LaunchDies` is the
endpoint raising or the server dying, `SweepDies` the sweep.  The module's `Init`,
`Next`, `Spec` and `TypeOK` have a prefix (`FirstNext`, and `PauseNext` in
`WorkflowPause`), so that one proof module can extend it beside another.

### PhaseAdvance
All the phases of a workflow, the two actors that advance it, a commit per step.
`SweepHeal`, `SweepRelease`, `SweepLook`, `SweepGrab`, `SweepLast` are
`_advance_phases`; `GateClaim` is `fire_spec_gate_if_ready`; `Evaluate` ..
`Tag` are `mark_phase_complete` with its handlers for *continue*, *retry* and
*goto*; `Dispatch` .. `End` are what the caller does with the answer and
`_create_phase_task`.  `job[a]` is the call an actor is in the middle of, with
what it has in its hands; `closings` holds, per
closed phase, its rank among the `completed_at` of the others and what had closed
by then.
The evaluation's outcome is free within the budgets `MaxRetries`, `MaxGotos`.
`Poll` is the write-back of a status page.  Mutants stand beside the definitions
they change.

### WorkflowPause
The workflows of one project; `wf` holds the three columns, `work` what the
phase machinery would find (going, failed, idle, delivered, closed).  A button whose
handler does not wait is one action (`PauseFeature` .. `RequestChanges`, `StopProject`,
`Play`, `RaiseLimit`).  Stopping a workflow is two: `StopWorkflow` reads it active,
`Stopped` pauses it when its agents have ended, up to a minute each later; `stopping`
holds the requests in between, and whether a task has begun that they have not listed
(`Outrun`).  `LimitHit`, `Spend` and `Complete` are the system's own pauses;
`ReadRetry` / `ReadResume` read rows and `SweepWrite` commits from what was read, which
is what a session with `expire_on_commit=False` does.  `Acts` are the steps of the
program; `PauseNext` records with them, in the history variable `revived`, which
workflows were set going since the sweep read, or had a stop waiting when it did.

### TaskDispatch
Tasks, agents, the dispatches under way.  A worker is a coroutine: `Submit` (create
task), `Enter` (queue or go on), or `Select` and `Dequeue` (`claim_next_queued_task`);
then `Prepared` (`create_agent_for_task` to the stub row), `Launched` (session
and merged row), `Check` (`_check_termination_race`, prompt), `Mark`
(`mark_assigned`).  `PrepFails` and `LaunchFails` are the error paths, `Report`,
`Leave`, `NeverStarted` the agents' ends, `PauseTask`, `CancelTask`,
`RestartTask` the buttons, `Stale`, `Stranded`, `GivenUp` the sweep, `Crash` a
restart of the server.  `Agents` and `Workers` are pools that are reused, not
limits of the system: a row of an agent is taken again when no task and no dispatch
refers to it (`Unused`, the lowest), a worker when it is idle (`Free`).  `line` is the
rank of a queued task's `queued_at`, 0 for one that is not queued.  `Acts` are the
steps of the program; `Next` records with them, in the history variable `opened`,
which tasks were taken up again after they had been over or paused.

### DesignPipeline
One design.  `walk` is the thread of `run_continuous_pipeline`: `Pick`
(`pick_next_design` and what holds the queue up), `Phase0` .. `Signoff`
(decomposition, taking up an earlier one, its review), `Dispatch` and `Collect`
(groups in dependency order), `Aggregate`, `Persist`, `Shutdown`.  `run[j]` is the
thread of one feature (`_run_one_feature`, `run_single_workflow`): `Begin`,
`Launch`, `Read` and `Decide` (the status is read at the top of the loop and used
at its end, `saw`), `Finish`, `Wait` and `Gate` (the review, asked about twice).
Against them: `CloseWork` (the last phase closes, `_complete_workflow`),
`Approve`, which commits the verdict, and `Approved`, which commits the completion after the
merge; `RequestChanges`, `Redone`, the buttons, `Stop` and `StopWorkflows`; the
repairs of `features.py` (`SyncRow`, `SyncDesign`, `PauseStale`,
`RecoverDesign`); `Poll` (the derivations a dashboard writes back, `FeatureStatus`
and `DesignStatus`); `Crash`.  What happens inside a workflow is `PhaseAdvance`.

### PullRequestGate
The end of one workflow in review mode.  GitHub is external: `Checks`,
`AutoMerge`, `Drift`, `OnGitHub` are what the code expects of it.  `Push`, `Report`,
`Verify`, `Resolve`, `Retry` are git_expert's task and its verification;
`Close`, `GiveUp` and `PauseForReview` reach `evaluate_review_gate` by its two
entrances, which ask (`Asks`, the answer is kept in `gate[e]`) and act on it later
(`Decide`).  A person's approval is `Approve` (resume and verdict, first),
`CheckFirst`, `Merge` or `MergeLocally` or `Conflict`, `SyncAfterMerge`, `Settle`:
a request handler, statement by statement.  `RequestChanges`, `Resume` and
`Reworked` are the way back; `SyncMain` is the sweep that follows an armed
auto-merge.

### ProjectRuns
Two projects and their `AutopilotService`s.  A `Walk` is a thread: a task waits for
it, or has been cancelled and left it to itself (`left`), or it is over and its
task is not (`over`), which is where the second `finally` writes the flag.
`Reserve`, `Replace`, `Launch`, `Refused` are a start request with its
reservation; `Stop` and `StopReturns` the stop with its wait, lock held; `Resync`
the sweep; `Drain`, `Crash`, `ResumeRun` the server.  `said` is what a person was
last told and `swept` what the sweep has started, for the properties.

### AgentRecovery
One task and the agents put to work on it.  Three actors, `job[m]` being what each
is in the middle of: the **monitor** takes a snapshot (`Look`, `seen`), goes round
it (`Check` and one action per finding, in the order of the checks), and ends a
cycle with the reaper (`Reap`, `Reaped`, `Exorcise`); the **desk** ends agents that
have reported (`Leave`); the **sweep** fails, retries or passes on the task
(`Orphan`, `Stale`, `Retry`, `Ask`, `Lift`).  The end of an agent (`EndStart`,
`EndKill`, `EndRow`: the terminator) and a launch (`Place`, `Launch`, `Prompt`,
`Made`: `create_agent_for_task`) are shared.  What the code awaits lies between
two steps; what a session holds in memory over such a wait is `holds`.  `shows` is
what an agent's pane would show to the checks.

### Arbitration
One phase whose retries are spent whenever it is evaluated, its `tasks` in creation
order with the arbiters among them, and two actors, `job[a]` being the call each
is in the middle of.  `SweepComplete` and `GateReady` claim the phase, `Evaluate`
(`mark_phase_complete`) gives the claim back, `Trigger` (`_trigger_arbitration` up to its
first commit) takes it again, `Insert` and `Launch` send the arbiter out, `End` is the
`finally` that must not take its claim; `Bounce` is the other way in, a goto that
finds the bound of `_create_phase_task` spent.  `SweepRetry` sends a failed arbiter
out again or asks for another.  `Take` (`_claim_arbitration_resolution`), `Act`, `Finish`
are the resolution, entered by `SweepResolve` and by the arbiter's own request
(`GateResolve`), with `ActFails` and `ActThrows`, `Throw` where it breaks off.  Past
`Cap` arbiters `GiveUp` forces the phase through or asks a person; `Answer` is the
person, `SweepAnswer`, `SweepForce` what the sweep makes of it.  `file` says whose
decision `arbitration_result.json` holds; `acted`, `late` and `broken` on a task are
for the properties.  Where the work goes is `place`; `Return` brings it back.

## 5. Runs

| Run | Size | Checks | Shows |
|---|---|---|---|
| `phase_execution` | 2 phases, 2 sessions, symmetric | `ImplementsLifecycle` | no interleaving of two transitions leaves the table |
| `task_creation` | 1 phase, 3 deaths | `OneFirstTask`, `TaskSurfaces` | the claim protocol, with every death: one task, and the claim does not stay |
| `advance_sweep` | 3 phases, 2 of them gated, 2 retries, 1 goto, 1 restart | `TypeOK`, `OneRunningPhase`, `RetriesPaidFor`, `CompletedIsOver`, `Finishes` | the sweep alone brings every workflow home |
| `advance_gate` | 2 phases, 1 gated, 1 retry, 1 goto, 1 gate run, polling | `ClosedByWork`, `InOrder`, `Finishes` | so do sweep and gate together |
| `pause_all` | 1 workflow, 2 retry cycles, 4 clicks | `SweepRespects`, `SystemPauseRecovers`, `BudgetBites` | four clicks of any kind against sweep, budget and review; pauses that come upon a sweep with old rows in its hands |
| `dispatch_slots` | 2 tasks of 2 phases, both limited, 2 agents at a time, 1 click, 1 failure | `TypeOK`, `SlotsKept`, `ReportKept` | the slot discipline and late reports |
| `dispatch_served` | 2 tasks of 1 phase, 1 agent at a time, 1 failure, 1 restart | `OneAgent`, `TaskServed` | no second prompt, nothing forgotten |
| `design_walk` | 2 features, the second built on the first, review mode, a dashboard, 1 retry of the design; each kind of trouble alone, or a fault and a crash | `TypeOK`, `DesignSettles`, `BuiltOnApproved` | a design comes to its outcome on approved ground |
| `pr_gate` | 3 attempts, local fallback, any two of eight kinds of trouble | `TypeOK`, `NobodySkipped`, `ReachesReviewer`, `LandsApproved`, `QueuedLands` | the review gate against GitHub, reviewers and git |
| `project_runs` | 2 projects, 3 threads, 2 requests at a time, 1 slot, 3 starts, any two of six kinds of trouble | `TypeOK`, `OneWalk`, `CapKept`, `StopMeansStop`, `Restarts` | starts, stops, sweep and restarts of the server |
| `recovery` | 2 agent rows, 1 trouble of an agent and 1 of the rest, 1 retry | `TypeOK`, `OneAgent`, `ReportKept`, `Settles` | eleven troubles of an agent against monitor, report and sweep |
| `arbitration` | 1 phase, 2 arbiters before the cap, 3 tasks, 2 bounces, 2 questions, 2 faults | `TypeOK`, `DecidedOnce`, `PersonDecides`, `Heard` | no decision acted on twice, none lost, no question dropped |

The type invariants of `PhaseExecution`, `TaskCreation` (`FirstTypeOK`) and `WorkflowPause`
(`PauseTypeOK`), and `PausedHasReason`, are proved for every instance (section 7) and are
not run again.

**Bounds.**  A race over a row needs two sessions, and nothing couples two rows
but the call's choice of one.  Three phases let a goto pass over a phase that
has run, and a retry of one gated phase follow a goto from another; two phases
are enough for the meeting of gate and sweep on a successor.  One retry, goto,
gate run and restart each reach every branch of the budget; a second retry makes
the charge before the last one visible.  One workflow is enough for the pause:
the workflows of a project are coupled only by `Stop`, `Play`, `Spend` and
`RaiseLimit`, which treat each of them alike.  Two cycles of retries leave one
below the cap.  Two tasks are the queue's order, the sibling guard and the last
slot; two workers are two dispatches that overlap; four rows of agents are two
more than may live at a time when `Capacity` is two, for those on their way out (five
rows give the same states).
Trouble is bounded by kind: each kind comes once at most, and a run says which
come together (`Troubles`, `MaxTroubles`); what needs more of them than that is
not covered.  Two features in a chain have a dependency, a review between and a
group after; one retry of the design leaves one outcome before the cap and one
after.  Three attempts leave git_expert one more when its request first needs
work.  Three walks are a walk, one left behind and one that took its place; with
one slot, two projects compete for it.  In `AgentRecovery` the monitor, the sweep and
the desk are there once each, as in the program; two rows are an agent that ends
and one that follows it, and three rows (278,234 states) or a second retry
(324,741) were tried by hand and agree.
In `Arbitration` two arbiters reach the cap with a decision of an earlier one still in
the file, and two faults let the second meet what the first left; the cap of the
code is three (`arbitration.py:51`).
Deadlock is looked for in `PhaseExecution` and `TaskCreation` only: elsewhere a
workflow, design or task that is over, a request that has been merged, a project that
nobody starts again, clicks that are used up, really stand still.

**Fairness.**  `PhaseExecution` has none: it promises nothing but safety.
Elsewhere the sweep is a polling loop (`background_loops`), so its steps are
weakly fair; the launch endpoint and the gate are request handlers, which
return, raise or die with the server; `Poll` is fair where a page is open
(`Polled`).  `Finish` is fair in `PhaseAdvance`, since what a workflow owes to an
agent that never reports is another component's; it is not in `TaskCreation`.
In `WorkflowPause` one tick makes every call in turn, so a call that is possible
again and again is made (strong fairness), an agent at work posts its costs, and a stop
request returns; all of it is said of `program`, without `revived`.
In `TaskDispatch` coroutines run, agents end, the loops go round; pauses, faults,
crashes and creations are never fair, and what is fair is said of the program's own
variables (`program`), without `opened`.
In `DesignPipeline` threads run, workflows close, the sweep and the dashboard go
round, a reviewer answers, and a server that died is started again; in
`PullRequestGate` GitHub's checks come to a result and an armed request that is
ready is merged, while nobody has to approve; in `ProjectRuns` requests are carried
on, walks look at the event, the sweep goes round.  In `Arbitration`
a call in the middle of its work goes on and the sweep keeps resolving; neither
arbiters nor people have to answer.  In `AgentRecovery` an agent
that can work reports, and the reaper is strongly fair: every cycle of the monitor
ends with it, so a cycle that comes again and again reaps again and again.

**Assumptions on time.**  A claim outlives `CLAIM_STALE_TIMEOUT_SECONDS` (eight
minutes) only if its holder has gone.  No dispatch lasts as long as
`stranded_task_grace_seconds` (fifteen minutes).  The cooldown between automatic
retries has passed whenever it is asked about.  The queue's loop waits for the
pass it has started before it starts another.  In `AgentRecovery`: a CLI takes
longer to come up than the row of a killed session takes to be committed
(`CliReady`); between the guard of a launch and its stub row lie milliseconds, so
that two launches pass together only as a trouble (`tie`); a report rarely comes before its
launch has returned (`early`); the grace of the reaper (120 s) outlasts a launch.
In `Arbitration`: between the end of an evaluation, which clears the claim, and the
next commit of the same call no other call evaluates or resolves the phase (`Alone`);
agents, people and the rest of the pipeline take longer than the calls under way
(`Settled`); no evaluation outlasts the eight minutes of its claim.  An arbiter may.

**Conditions in the properties.**  Some properties name the trouble under which
the code does not keep them; each such case is a divergence of section 6.
`ReachesReviewer` excepts `early`, `LandsApproved` `overlap`, `NobodySkipped` both
`poll` and `overlap`; `OneWalk` excepts `slow` and `quick`, `CapKept` what the sweep
started, `zombie` and `fails`; `OneAgent` of `AgentRecovery` excepts `tie`, that of
`TaskDispatch` the tasks that were taken up again (`opened`), and
`ReportKept` lists the writes that may overtake a report; `DesignSettles` excepts
what the walk suspended on its way out; `SweepRespects` excepts the workflows that were
set going between the sweep's read and its commit, and those with a stop waiting at the
read (`revived`); `BuiltOnApproved` is stated for one kind
of trouble at a time; `OneRunningPhase` without restart and gate, `RetriesPaidFor` for
the sweep alone with one retry more per restart, `CompletedIsOver` for the sweep alone
with no status page open; `SlotsKept` without a restart of the server.
`DecidedOnce` and `PersonDecides` hold while no error has cut a decision short
(`Intact`); `Heard` excepts an arbiter that reported after its claim's timeout (`late`)
and one sent out by a bounce.

## 6. Divergences seen while modelling

These are not kept as runs that fail; most were counterexamples of a property before its
condition was stated, and the condition names them.

*Phases.*
* Starting a phase clears whoever's claim is on it (`phase_manager.py:1989`), so gate
  and sweep both create a task for one phase, though the docstring of
  `_claim_phase_task_creation` (`:1925`) says "This closes the race by
  construction instead of by timing".
* A retry decided by the gate has no branch to carry it out: the sweep reopens the
  phase and charges a second retry for one output: the condition `gates = 0` of
  `RetriesPaidFor`.
* The `finally` of `fire_spec_gate_if_ready` (`phase_transitions.py:4698`) only
  clears a claim that has gone stale, so the gate's own claim survives it; eight
  minutes later `_release_stale_task_creation_claims` reopens the closed row.
* `_clear_stale_task_creation_claim(repair_status=True)` (`:158`), after a restart
  between a close and the release of its claim, reopens the closed phase beside
  its running successor: `OneRunningPhase` holds while `crashes = 0`.
* `derive_workflow_status(write_back=True)` (`status_derivation.py:470`) can
  complete a workflow between a goto's close and its reset: `CompletedIsOver` says
  `~ Polled`.
* A retry's task is tagged with its own phase as target (`phase_manager.py:1898`),
  so a retry that passes is run once more.
* Without a status page open, a race of gate and sweep can leave a workflow
  completed with an open row, or unfinished: `advance_gate` is checked with polling.

*Pauses.*
* The sweep's commit does not look at the reason of the pause it lifts
  (`phase_transitions.py:1115`), against "Respect any deliberate pause" (`:1406`): a
  workflow resumed and paused again between its read and its commit is set going, and so
  is one whose stop had looked before the read and commits after it.  A workflow cancelled
  in between is set going too.
* A stop reads "active", waits up to a minute for each agent, and pauses whatever the
  workflow is by then (`workflow_execution_routes.py:418-457`): completed, before its
  reviewer, or stopped by the budget, whose `paused_by` it overwrites.  A phase begun
  during the wait keeps its agent under a stopped workflow.
* A workflow the system gave up on is a candidate of the next pass, which resets its
  count: the cap ends nothing.
* The workflow's own Resume button ends a review without a verdict
  (`workflow_execution_routes.py:493`).
* Pause, cancel, restart of a task leaves a workflow active with `paused_by` set
  (`task_admin_routes.py:717`); `_start_next_phase` then refuses
  (`phase_manager.py:1815`).
* `_retry_exhausted_paused_workflows` (`phase_transitions.py:1024`) does not look at
  `AutopilotProject.is_active` and resumes a workflow of a stopped project.
* A status poll (`status_derivation.py:523`) completes a workflow in review mode
  before it is paused for its review.

*Dispatch.*
* A slot reserved by `claim_next_queued_task` is lost when the dequeue after the
  choice fails (`queue_service.py:612-620`; its docstring calls a caller that never
  releases one that "permanently steals a slot"): `Leaked`.
* The claim counts rows of agents; between a dequeue and the stub row other
  passes see the same room, so `max_concurrent_agents` can be exceeded.
* `queued_at` is not refreshed at the dequeue, though `features.py:686-690` says it
  is: a task that waited more than the grace period is put back while its dispatch
  is in flight.
* `started_at` is never cleared by a requeue: a task that was dispatched before,
  taken off the queue by a server that dies, stays assigned to nobody
  (`features.py:676-712`): `Lost`.
* A pause during the launch is overwritten by `mark_assigned`
  (`agent_dispatch_service.py:251`), which spares only finished tasks.
* `session.merge` (`_create_agent_for_task_steps.py:466-484`) brings an agent
  terminated during its stub stage back as working; once a task that was over or paused
  is opened again two agents may have its prompt: the condition of `OneAgent`.  No
  person is needed for it: the sweep gives a task up, and a launch that retreats from
  a sibling (`enqueue_task`) opens it again.
* A launch that found itself pointless returns its `AgentInfo` all the same and the
  queue marks a dead agent assigned; `enqueue_task` after a failed preparation
  opens a task another attempt has finished; after a restart a half-launched agent
  has no `cli_model` and is not counted: the condition of `SlotsKept`.
* Two passes with two tasks of one phase can put each other back for ever if
  neither ever runs alone; the model's loop awaits its pass, and passes that are
  called come to an end.

*The walk over designs.*
* An approval that lands between the walk's read of "paused" (`pipeline.py:768`) and
  its `finally` (`:944-946`) is paused again by the system and its completion
  dropped: `Suspended`.  Such a workflow holds the queue and is never abandoned.
* Without a dashboard `DesignSettles` fails: a stop, a pause or a skipped feature
  records the design as failed and `pick_next_design` ignores it, though the comment at
  `pipeline.py:2576-2581` says the next walk comes upon what is pending.  The
  dashboard's derivation is what sets it going again.
* `_populate_feature_folder` (`phase_manager.py:2418`) derives the design as completed
  before the review of its last feature.
* A dependent can be skipped between the resumption and the completion of an approval.
* The recovery of designs (`features.py:407-489`) races a live walk and consumes retries.
* A design with completed and with paused or skipped features is recorded as completed.
* `_wait_for_pending_reviews` does not look at the stop event; a review that is
  cancelled rather than decided leaves `paused_by` at "review" and the
  walk waiting (`pipeline.py:1721`).
* After a crash an active design without rows is marked completed by the queue.
* Feature rows are checked for and then inserted (`features.py:72-75`): two walks
  can insert them twice.
* A phase closed without its completion, a crash and a status poll together skip a
  review: the condition of `BuiltOnApproved`.
* The `else` branch of the queue's search for a failed workflow cannot be reached.

*Pull requests.*
* An approval resumes the workflow and records the verdict before it looks at the
  pull request.  One that is not mergeable is refused with "The review gate stays
  open; fix the PR [...] and approve again." (`feature_review_routes.py:452-466`), but the
  gate is no longer open: a second approval answers that nothing awaits review
  (`:366-369`), and the workflow is completed with its request unmerged.
* A task parked for its checks, in a phase the sweep has closed meanwhile, stays parked
  if the gate holds: `early`.
* A stale answer at the second entrance pauses a feature again that was approved in
  between; changes asked for then can be followed by a merge nobody approved, or
  by a workflow that is over: `overlap`.
* A status poll between the close of the last phase and the gate's answer completes
  an unreviewed workflow: `poll`.
* A hold on an answer that came after the workflow was seen completed leaves the row
  completed and the worktree cleaned while git_expert is at work again.
* Approving a request a person has merged on GitHub is refused (`ready_to_merge` asks
  for an open one).  An armed auto-merge whose request falls behind never lands.  An
  approval after a request for changes merges the old commits before the rework.
  A failed sync after an immediate merge is logged, no more.

*Project runs.*
* The slot of a run is free while it is replaced, up to ten seconds (`service.py:544`;
  its docstring at `:530-534` says the reservation closes the window): `zombie`.
* Two requests for one project share a reservation; the first that fails returns it
  for both: `fails`.
* The sweep starts projects without a look at the cap, so what start-up refused
  (`server_lifecycle`) runs within a minute; a start that is refused (409)
  has activated its project, and the sweep starts it (`state.py:345-348`).
* Stopping a service that is not running leaves its marker (`service.py:284-285`), and
  the sweep starts it again; a crash during a stop's wait leaves `is_active` set, with
  the same outcome.
* When a start fails after a stop, the event stays set and the second net of the
  resync (`pipeline_runtime.py:237-246`) skips an active project for ever, the case
  its comment (`:191-212`) says it is for.
* A stop that waits too long cancels the task, not the thread: two walks, `slow`.  A
  start between a walk's end and its task's `finally` (`service.py:444`) has its
  flag cleared by it: `quick`.

*Agents.*
* A spend limit without another tool is noted in memory, carried through the wait of
  `terminate_agent` and written after it, over a report that came meanwhile
  (`mechanical_recovery.py:301-506`; the docstring at `:141-147` warns of such writes);
  with another tool `pending` is written after the wait whatever happened (`:446-456`).
* The retry of the sweep (`phase_transitions.py:3236-3239`) and the launch from a worker
  thread (`engine_client.py:968`) set a task in progress that was reported done before the launch
  returned, even when the launch was found pointless.  If every retry reports as
  fast it goes on for ever: `early` comes once.
* The orphan check (`_phase_case_steps.py:35-74`) fails and retries a task the monitor
  is just launching another agent for; the requeues and the credit limit write the
  task by its id, whoever holds it by now.
* An agent whose CLI exits while its end is waiting is relaunched under another
  session name, which the terminator does not kill: a prompted session without a
  live row works beside the next agent until the reaper's grace is over
  (`OneAgent` counts live rows).
* Two launches can pass the guard of `create_agent_for_task` together: `tie`.
* The reaper does nothing at all when no agent session is up (`orphan_reaper.py:102-106`),
  and what it computes for a row is computed before it waits for the kill.

*Arbitration.*
* An arbiter sent out by the bound of `_create_phase_task` (`phase_transitions.py:3944-3962`)
  loses its mark: `_trigger_arbitration(already_claimed=True)` moves the pending row to
  in progress (`arbitration.py:478-505`), whose `_FIELD_RESETS` clear the claim just
  held.  `_maybe_resolve_arbitration` (`:1016`) then never finds the decision, and
  the sweep, which sees that it is there, skips the phase for ever
  (`phase_transitions.py:2694-2713`), against the docstring of `_phase_has_arbitration_in_flight`
  (`:2025`): "a live arbiter's phase is claimed" was a counterexample, and `Heard`
  excepts it.
* `mark_phase_complete` answers an exception with "arbitrate" (`phase_manager.py:1595`), which
  `_resolve_arbitration_outcome` does not act on: the phase is left as it is, the
  decision taken and its file consumed.
* An exception after the effect releases both claims and leaves the file: the decision
  is replayed, in a later round or beside another call, or by nobody (`Intact`).
* An arbiter slower than eight minutes that reports just before
  `_release_stale_task_creation_claims` looks has its claim released and its decision lost,
  since a finished arbiter is no longer "in flight": `late`.
* An evaluation clears the claim (`phase_manager.py:1295`) before `_trigger_arbitration`
  takes it: a call that comes in between evaluates the phase as well, and two
  arbiters or two questions to a person can follow.  `Alone` excludes it.

*Elsewhere* (hazards without a model): ticks of the sweep that overlap after a
timeout (`background_loops.py:450`), and its filter of active projects that is
dropped when none is active (`:659-664`); a resolved ticket that sets a paused task going
(`task_blocking_service.py:323`); two collectors of one session's costs
(`cost_collection_service.py:1038`).

## 7. Proofs

Each proof module extends the module it is about, two of them a pair; its theorems hold
for every value of the constants allowed by the named assumptions of that module, and for
any set of faults, clicks and restarts within its bounds, whatever the bounds are.

* **PhaseRowsProofs**, of `PhaseExecution` — no assumption.  `TypeCorrect`, `ClosedDated`,
  `EdgesLegal`, `Refinement`; the second and the third (a closed row is dated, a status
  moves along the table) are proved only, the run checks the refinement that
  contains the moves.  `EdgeOnly` follows only from what a session checked
  earlier, so `IInv` adds that a session past its check holds a move legal from the
  status it will compare with (`ChecksAreLegal`), that a closing call brings
  `completed_at` (`ClosesAreDated`) and that a skipping one leaves it to
  `_FIELD_RESETS` (`SkipsAreUnforced`).  `Refinement` maps an `Update` whose WHERE
  matches to `Move` and every other step to a stutter (`MoveOrStutter`).
* **PhaseRowsProofs**, of `TaskCreation` — `MaxCrashesType`.  `FirstTypeCorrect`,
  `NoDuplicateFirstTask`.  `OneFirstTask` needs that the claim is the launch's until
  it inserts (`LaunchOwns`, `LaunchInserted`), that a sweep past its re-check still
  finds no task (`RecheckHolds`), and that the cycle never starts after the first
  task, or the scoped re-check would miss it (`AnchoredAtFirst`).
* **ProjectRunsProofs**, of `WorkflowPause` — `PauseAssumption`.  `PausesTyped`,
  `PausedHasReasonAlways`, `SweepRespectsAlways`.  The type invariant speaks of the
  rows in the sweep's hand too, which is what keeps the committed count under its
  cap however stale the row is.  `SweepRespectsAlways` rests on `OldRows`: a workflow
  whose row is in the sweep's hands, and that was not set going since, is not active and
  has no stop waiting, so no pause but the system's comes upon one of the system
  (`NobodyPauses`; `SweepInHand` says that the rows stay what was read).
* **PhaseAdvanceProofs** — `SomePhases`, `Budgets`, `Bounds`, `Switches`: any number
  of phases, any of them gated.  `TypeCorrect`, with `Shape` for what a call has in
  its hands at each of its points and for `closings` (dates are distinct, so the last
  close is one phase: the greatest element of a finite set of numbers, `MaxIsGreatest`).
  `OnlyWorkCloses` and `StartedInOrder`, with gate and sweep interleaved: a call that
  is about to close, tag or start a phase has seen its work and keeps it in a local
  variable, so `Ordered` says of every job that the phase it names has delivered and,
  if it is to start one, the phase before that too.  Three more of the sweep alone
  (`gates = 0`): `ReportedMeansOver` from `Alone` (the gate's job is idle, and a phase
  has a live task only while its row runs); `EveryRetryIsPaid` from `Paid`: a phase that
  has been charged as many retries as it has results has the next run on its way or at
  work, so that it is not judged before there is one more; `OnePhaseRuns` from
  `Single`: what may run at each point of the sweep's call (`Confined`), that every
  claim is one the call relies on, so that none is ever healed (`Held`), and that
  nobody works while it closes and starts phases (`AtRest`).  The counting is by
  cardinalities of sets of tasks, never by induction over the phases.
* **TaskDispatchProofs** — `DispatchAssumption`: finitely many tasks, agents and
  workers, any limits.  `TypeCorrect`, which needs more than types, for `reserved` is a
  natural number only because every slot in a dispatch's hands is backed by a
  reservation (`Handed`, `Rows`, `Backed`), and a rank in `line` stays within the number
  of tasks only because ranks are distinct (a counting argument over an injection).
  `OneAgentAtATime`: a dispatch holds the identifier of a row for as long as a launch
  takes, in which the row may be cleared and taken again; `Agreed` says that all that
  refers to a row — the task, the dispatch, the row itself — means the same task and
  one launch, `Leaving` that an agent told to go has no task under way, `Single` that
  the launch of a task that was never over has a live row, which is what the guard of
  the next launch finds.  `ReportsAreKept` follows from `Agreed`.  `SlotsAreKept` is an
  inequality of counts: `Room` says that the rows on the limited model and the
  reservations stay within the limit together, where a row whose dispatch has still to
  give its slot back is not counted a second time (`Counted`), and `Known` that a row
  with a session shows its model, so that the session is counted by one or the other.
* **ProjectRunsProofs**, of `ProjectRuns` — `RunsAssumption`.  `TypeCorrect`; `StoppedStaysStopped`, which
  needs that a project whose stop was confirmed has no marker, no flag and no request
  left (`Forgotten`); `OneWalkAtATime`, from what a task may be waiting for (`AllWaited`):
  a thread that nobody waits for is one that was left by a stop that waited too long
  (`slow`), or whose task has not ended (`quick`); `CapIsKept`, from a count of the claims
  on a slot that requests and the start-up make (`Counted`), and that nothing runs
  under the lock a stop holds (`Quiet`).
* **PullRequestGateProofs** — `GateAssumption`.  `TypeCorrect`; `NobodyIsSkipped` and
  `LandsOnlyApproved` from one invariant.  What an entrance has heard may be acted on
  long after, so `AskedOnce` says that an answer is kept only while nobody reviews or
  has approved, unless both entrances asked at once (`Calm`); `MergedStays` that what was
  heard to be merged is merged.
* **ArbitrationProofs** — `Limits` and `Bounds`: any cap above zero, any number of tasks,
  bounces, questions and faults.  `TypeCorrect`; `ActedOnOnce` and `LeftToThePerson` from
  one invariant, `Shape /\ (Intact => Good)`.  No single lock keeps the sweep and the gate
  apart: the claim is cleared in the middle of an evaluation and by every `End`, a
  decision in the file is another's to consume, a question stays open while both go on
  looking.  So `Meet` lists the points the two calls can be at together, and for each
  point the invariant says what the call relies on: `AtWork` and `OnFile` (an agent at
  work, a decision in the file, exclude every evaluation), `Stays` (work that has moved
  on left nothing to decide), `Asked` (behind an open question no call is past its
  guard), `Evaluating`, `Acting` (whoever acts holds the last arbiter's decision, taken
  and not acted on), `Gate` (what the gate's re-check saw still holds at its later
  points), `SweepEvaluates`, `OldClaim` (a claim goes stale under no call).  `Past` and
  `Heeded` are the table's side: only the latest task is live or unheard.  TLC checked
  the invariant on the run's instance first.  `Good` is implied, not conjoined:
  an error cuts a decision short, after which it does not hold, and `Intact` never
  becomes true again (`ArbitersStay`, `CutShort`).  The proof also showed that
  `DecidedOnce` needs no exception for an arbiter that comes after its claim's timeout.
  Each action is one lemma, whose last leaf is one obligation over all the
  parts and is given thirty seconds (`SMTT`).

* **AgentRecoveryProofs** — `RecoveryAssumption`: any rows with a first one among them, any
  troubles and retries.  `TypeCorrect`; `LateReportsOnly`; `NeverTwoAgents`, that at most
  one row is not over, unless two launches passed the guard together (`tie`).  `OneAgent`
  is not inductive: `create_agent_for_task` commits a live row before the session exists,
  the monitor may end it meanwhile as a zombie or an orphan, and the launch, which does
  not notice, writes the row whole again.  `Fresh` is what keeps that from being a second
  agent: while a launch is under way no other agent lives and nobody else launches, and
  what the monitor is in the middle of, if it is about the launched agent, ends in no
  launch; once the row was ended the launch is the sweep's, and the monitor is idle with
  none of its snapshot left.  TLC checked the invariant on the run's instance first.
* **DesignPipelineProofs** — `PipelineAssumption`: any features, whatever their
  dependencies and groups, any limit of retries and any troubles.  `TypeCorrect`, which needs
  that an outcome is there when it is recorded (`Recorded`); `NothingUnapproved`, which is
  `BuiltOnApproved`, and `NothingSlipsBy`, from one invariant, `Inv`.  What a launch has in
  its hands is old: the rows of the features below it, as its thread found them when it
  began; and four writers complete a row.  So the invariant says what a completed row
  stands for once its thread is over: a feature that is closed, not approved and not
  before its reviewer is `Loose`; only a fault makes one, and only while its thread still
  looks at the workflow (`Bound`), finds it closed and goes to the review, and does not give
  it up instead (`Going`).  `Behind` is the rest: what a group depends on is over before it
  begins, and a group begins together (`Grouped`, over `Together` as an equivalence, which
  holds whatever the layers are; the next group is the
  least element of a finite set, `MinIsLeast`).  All but the types holds in the
  circumstances of the property (`Calm`); trouble never goes away, so a calm step starts
  calm.  TLC checked the invariant on the run's instance, and by simulation on three
  features; the proof still added a clause to it, that a loose feature being looked at is
  active or completed.

Only model-checked: every liveness property (`TaskSurfaces`, `Finishes`,
`SystemPauseRecovers`, `BudgetBites`, `TaskServed`, `DesignSettles`, `ReachesReviewer`,
`QueuedLands`, `Restarts`, `Settles`, `Heard`).  Liveness under fairness, and `ENABLED`,
are out of the prover's reach, and so is a fact computed by recursion over data, for which
the library's induction theorems would be needed.  No module uses a `RECURSIVE`
operator, so that each can be proved about; the functions the models define are sets
and choices, whose facts are lemmas of the proof modules.

## 8. What is not modelled, and why

* Text, search and embeddings, terminal capture, prompts, dashboards, command
  line: no state that a sequence of steps could spoil.
* The verdict of a language model (evaluation, guardian, conductor, diagnosis) is
  a free choice of the models that take it.
* In `PhaseAdvance`: pauses and failures of the workflow, arbitration (an exhausted
  budget continues: `Arbitration` begins where it does not), failing agents, the shortcuts of `_create_phase_task` that
  close a phase without a task, parallel workflows.  A pass of the sweep ends with
  its first case; the code may go on with the rest of its snapshot, the model's
  next pass does.
* In `WorkflowPause`: overlapping ticks of the sweep, the pull request, the phases
  themselves; the wait of a cancel, which looks at no status before it and writes one
  after it; two stops of one workflow at a time.  A stop always writes its reason, though
  the session leaves out a column that held "user" already when it was read.
* In `DesignPipeline`: the phases of a workflow, the pull request, budget and worktrees;
  a second design (the queue takes one at a time, by priority).
* In `PullRequestGate`: the earlier phases, the row of the feature, the text of
  reviews; git's own operations are their outcomes.
* In `ProjectRuns`: what a walk does; POST /stop for all projects at once; the
  activation of a project by its page (`project_routes.py:479`, `:517`), which writes
  `is_active` only.
* In `AgentRecovery`: other tasks and the queue; the guardian's analyses are taken one
  after another; validation statuses, the fallback of a phase's tool inside a launch,
  the retry of failed tasks by their age, detectors that only send a message.
  A row of an agent being launched has no session name, so the recovery of idle
  agents finds none; the stale retry of a phase is contained in `Orphan`.
* In `Arbitration`: the other phases and what a decision sets off there, a restart between
  two commits, a pause for another reason, a person's restart of a task, `gotos_reset_at`,
  a dismissed request (it is answered by "c") and one that asks to wait.
* In `TaskDispatch`: bumping a task past the limit, fallback tools and models,
  `depends_on` and ticket blocking, validation and self review, the dispatch from
  worker threads (`create_agent_for_task_direct`), where the guard and the stub are
  two steps.
* The backoff of CLI launches (a counter and a clock reading per CLI), the ledger of
  costs, tickets, the validator's round trip and git worktrees
  have no module; the steps of theirs that touch a modelled row are actions there.
* Migrations, YAML loading and the repair service run alone and once.
