---------------------------- MODULE PhaseAdvance ----------------------------
(***************************************************************************)
(* A workflow's way through its phases.  Two paths evaluate a finished     *)
(* phase and start what comes next: the sweep (_advance_phases, run by one *)
(* poll loop at a time behind _try_advance_phases) and the gate            *)
(* (fire_spec_gate_if_ready, run inside the request in which an agent      *)
(* reports done).  Both go through mark_phase_complete and                 *)
(* _create_phase_task, a commit at a time; only the claim column keeps     *)
(* them apart.                                                             *)
(*                                                                         *)
(* tasks is the workflow's task table in creation order.  A row's started  *)
(* is the position of the first task that its cycle filter lets through    *)
(* (Task.created_at >= started_at), 0 when started_at IS NULL.             *)
(* A closing's rank orders the phases by completed_at, the latest highest  *)
(* and 0 without one; its after is the number of tasks there were then.    *)
(* A task is "lost" when a goto terminated its agent: terminate_agent      *)
(* leaves it pending and unassigned, and the next reader that finds it     *)
(* over a minute old marks it failed.                                      *)
(*                                                                         *)
(* Not here: pauses and failures of the workflow, arbitration (an          *)
(* exhausted budget continues), failing agents, the shortcuts of           *)
(* _create_phase_task that close a phase without a task.                   *)
(***************************************************************************)
EXTENDS PhaseRow, Integers, Sequences, FiniteSetsExt

CONSTANTS
  N,            \* phases are numbered by Phase.order
  Gated,        \* the phases whose evaluation point may send work back
  Polled,       \* whether someone watches the design's status page
  MaxRetries,   \* an evaluation point's max_retries
  MaxGotos,     \* the workflow's max_total_gotos
  MaxGates,     \* bound on gate runs; another reported done is left to the
                \* sweep, as it is by the gate's early returns and errors
  MaxCrashes    \* bound on restarts of the backend

ASSUME SomePhases == N \in Nat \ {0} /\ Gated \subseteq 1..N
ASSUME Budgets == MaxRetries \in Nat /\ MaxGotos \in Nat
ASSUME Bounds == MaxGates \in Nat /\ MaxCrashes \in Nat
ASSUME Switches == Polled \in BOOLEAN

Phases == 1..N
Actors == {"sweep", "gate"}
Nobody == "nobody"

VARIABLES
  rows,      \* phase_executions: status, started_at, who claimed
  tasks,     \* tasks: phase, state, action_target_phase (0 if none)
  closings,  \* phase_executions.completed_at
  retries,   \* Phase.retry_count
  gotos,     \* Workflow.total_gotos
  wf,        \* Workflow.status
  job,       \* per actor: the call it is in the middle of
  gates, crashes

vars == <<rows, tasks, closings, retries, gotos, wf, job, gates, crashes>>

-----------------------------------------------------------------------------

TasksOf(p)  == {i \in DOMAIN tasks : tasks[i].phase = p}
Cycle(p)    == {i \in TasksOf(p) : i >= rows[p].started}
In(s, S)    == {i \in S : tasks[i].state = s}
With(s)     == {p \in Phases : rows[p].status = s}
\* Mutant: the workflow is over when its last phase is.
LastClosed == rows[N].status = Completed

AllClosed   == With(Completed) \cup With(Skipped) = Phases

\* transition_phase_execution(p, "in_progress"), the cycle starting at task i.
Run(row, i) ==
  IF row.status = InProgress THEN row
  ELSE [status |-> InProgress, started |-> i, claim |-> Nobody]

Now == Len(tasks) + 1

IdleJob == [at |-> "idle", phase |-> 0, act |-> "none", to |-> 0, own |-> FALSE, since |-> 0]

Goes(a, at) == job' = [job EXCEPT ![a].at = at]
Ends(a)     == job' = [job EXCEPT ![a] = IdleJob]

\* The claim an actor relies on: on the phase it evaluates, and on the phase
\* it creates a task for.
Holds(a, p) ==
  /\ job[a].at # "idle"
  /\ \/ job[a].own /\ job[a].phase = p
     \/ job[a].to = p /\ job[a].at \in {"check", "insert", "end"}

\* As in TaskCreation, only a claim nobody relies on outlives the timeout.
Stale(p) == rows[p].claim # Nobody /\ ~ Holds(rows[p].claim, p)

\* _clear_stale_task_creation_claim(repair_status=True).
Healed(p) ==
  IF rows[p].status # InProgress /\ TasksOf(p) # {}
  THEN Run(rows[p], IF rows[p].started = 0 THEN Max(TasksOf(p)) ELSE rows[p].started)
  ELSE [rows[p] EXCEPT !.claim = Nobody]

Init ==
  /\ rows = [p \in Phases |-> [status |-> Pending, started |-> 0, claim |-> Nobody]]
  /\ tasks = <<>> /\ closings = [p \in Phases |-> [rank |-> 0, after |-> 0]]
  /\ retries = [p \in Phases |-> 0] /\ gotos = 0
  /\ wf = "active"
  /\ job = [a \in Actors |-> IdleJob]
  /\ gates = 0 /\ crashes = 0

-----------------------------------------------------------------------------
(* mark_phase_complete, one commit per step. *)

\* Mutant: the retry budget is never looked at.
VerdictsUnbounded(p) ==
  {[act |-> "continue", to |-> 0]}
    \cup IF p \notin Gated THEN {} ELSE {[act |-> "retry", to |-> p]}

\* What the evaluation point may answer.  A spent retry budget answers before
\* the output is looked at; a spent goto budget answers after it is charged.
Verdicts(p) ==
  {[act |-> "continue", to |-> 0]}
    \cup IF p \notin Gated \/ retries[p] >= MaxRetries THEN {}
         ELSE {[act |-> "retry", to |-> p]} \cup [act : {"goto"}, to : 1..(p - 1)]

Evaluate(a) ==
  LET p == job[a].phase IN
  /\ job[a].at = "evaluate"
  /\ IF rows[p].status = Completed
     THEN Goes(a, "dispatch") /\ UNCHANGED <<retries, gotos>>
     ELSE \E v \in Verdicts(p) :
            LET act == IF v.act = "goto" /\ gotos >= MaxGotos THEN "continue" ELSE v.act IN
            /\ job' = [job EXCEPT ![a].at = "close", ![a].act = act,
                                  ![a].to = IF act = "continue" THEN 0 ELSE v.to]
            /\ retries' = [retries EXCEPT ![p] = @ + IF v.act = "retry" THEN 1 ELSE 0]
            /\ gotos' = IF v.act = "goto" THEN Min({gotos + 1, MaxGotos + 1}) ELSE gotos
  /\ UNCHANGED <<rows, tasks, closings, wf, gates, crashes>>

\* completed_at of p becomes the latest.
Dated(p) ==
  [q \in Phases |->
     IF q = p THEN [rank |-> N, after |-> Len(tasks)]
     ELSE IF closings[q].rank > closings[p].rank THEN [closings[q] EXCEPT !.rank = @ - 1]
     ELSE closings[q]]

\* A rejected transition is not an error: the handler goes on.
Close(a) ==
  LET p == job[a].phase
      into == IF job[a].act = "retry" THEN Pending ELSE Completed IN
  /\ job[a].at = "close"
  /\ IF ~ CanMove(rows[p].status, into) THEN UNCHANGED <<rows, closings>>
     ELSE IF into = Completed
     THEN /\ rows' = [rows EXCEPT ![p].status = Completed]
          /\ closings' = Dated(p)
     ELSE /\ rows' = [rows EXCEPT ![p] = [status |-> Pending, started |-> 0, claim |-> Nobody]]
          /\ UNCHANGED closings
  /\ Goes(a, CASE job[a].act = "continue" -> "next"
               [] job[a].act = "goto"     -> "reset"
               [] job[a].act = "retry"    -> "tag")
  /\ UNCHANGED <<tasks, retries, gotos, wf, gates, crashes>>

\* mark_skipped_over_phases.
SkipOver(from, to) ==
  [p \in Phases |-> IF from < p /\ p < to /\ rows[p].status = Pending
                    THEN [rows[p] EXCEPT !.status = Skipped] ELSE rows[p]]

\* action_target_phase of the latest done task among these, 0 if it has none.
Target(S) == IF In("done", S) = {} THEN 0 ELSE tasks[Max(In("done", S))].tag

\* _start_next_phase up to its transition, or else _complete_workflow.
Next_(a) ==
  LET p == job[a].phase
      next == IF wf # "active" \/ With(InProgress) \ {p} # {} THEN 0
              ELSE IF Target(Cycle(p)) # 0 THEN Target(Cycle(p))
              ELSE IF p < N THEN p + 1 ELSE 0 IN
  /\ job[a].at = "next"
  /\ job' = [job EXCEPT ![a].at = IF next = 0 THEN "dispatch" ELSE "start", ![a].to = next]
  /\ rows' = SkipOver(p, next)
  /\ wf' = IF next = 0 /\ p = N /\ AllClosed /\ tasks # <<>> THEN "completed" ELSE wf
  /\ UNCHANGED <<tasks, closings, retries, gotos, gates, crashes>>

Start(a) ==
  /\ job[a].at = "start"
  /\ rows' = [rows EXCEPT ![job[a].to] = Run(@, Now)]
  /\ Goes(a, "dispatch")
  /\ UNCHANGED <<tasks, closings, retries, gotos, wf, gates, crashes>>

\* reset_stale_executions_on_goto: a live task at or before the target keeps
\* its phase running; one past it is terminated.
ResetTo(t, except) ==
  LET hit(p) == /\ p >= t /\ p # except
                /\ rows[p].status \in {InProgress, Completed, Failed}
                /\ p > t \/ In("live", TasksOf(p)) = {} IN
  /\ rows' = [p \in Phases |-> IF hit(p) THEN [status |-> Pending, started |-> 0, claim |-> Nobody]
                               ELSE rows[p]]
  /\ tasks' = [i \in DOMAIN tasks |->
                 IF hit(tasks[i].phase) /\ tasks[i].state = "live"
                 THEN [tasks[i] EXCEPT !.state = "lost"] ELSE tasks[i]]

Reset(a) ==
  /\ job[a].at = "reset"
  /\ ResetTo(job[a].to, job[a].phase)
  /\ Goes(a, "tag")
  /\ UNCHANGED <<closings, retries, gotos, wf, gates, crashes>>

\* _tag_completing_task.
Tag(a) ==
  LET S == In("done", TasksOf(job[a].phase)) IN
  /\ job[a].at = "tag"
  /\ tasks' = IF S = {} THEN tasks ELSE [tasks EXCEPT ![Max(S)].tag = job[a].to]
  /\ Goes(a, "dispatch")
  /\ UNCHANGED <<rows, closings, retries, gotos, wf, gates, crashes>>

-----------------------------------------------------------------------------
(* What the caller does with the answer, and _create_phase_task. *)

\* Mutant: neither path has a branch for "retry".
DispatchDropsRetry(a) ==
  LET j == job[a] IN
  /\ j.at = "dispatch"
  /\ IF j.to = 0 \/ j.act = "retry" THEN Ends(a)
     ELSE Goes(a, IF a = "gate" /\ j.act = "goto" THEN "rewind" ELSE "claim")
  /\ UNCHANGED <<rows, tasks, closings, retries, gotos, wf, gates, crashes>>

\* The gate clears its claim here only if it has gone stale, has no branch for
\* "retry", and repeats the reset of a goto.
Dispatch(a) ==
  LET j == job[a] IN
  /\ j.at = "dispatch"
  /\ IF a = "gate" /\ (j.to = 0 \/ j.act = "retry") THEN Ends(a)
     ELSE Goes(a, IF j.to = 0 THEN "end"
                  ELSE IF a = "gate" /\ j.act = "goto" THEN "rewind" ELSE "claim")
  /\ UNCHANGED <<rows, tasks, closings, retries, gotos, wf, gates, crashes>>

Rewind(a) ==
  /\ job[a].at = "rewind"
  /\ ResetTo(job[a].to, job[a].phase)
  /\ Goes(a, "claim")
  /\ UNCHANGED <<closings, retries, gotos, wf, gates, crashes>>

Claim(a) ==
  LET t == job[a].to IN
  /\ job[a].at = "claim"
  /\ IF rows[t].claim # Nobody /\ ~ Stale(t)
     THEN /\ job' = [job EXCEPT ![a].at = "end", ![a].to = 0]
          /\ UNCHANGED rows
     ELSE /\ rows' = [rows EXCEPT ![t] =
                        [(IF Stale(t) THEN Healed(t) ELSE rows[t]) EXCEPT !.claim = a]]
          /\ Goes(a, "check")
  /\ UNCHANGED <<tasks, closings, retries, gotos, wf, gates, crashes>>

\* A caller that brought its own claim keeps it when the creation is refused.
Check(a) ==
  /\ job[a].at = "check"
  /\ IF In("live", TasksOf(job[a].to)) = {} THEN Goes(a, "insert")
     ELSE IF job[a].own THEN Goes(a, "end") ELSE Ends(a)
  /\ UNCHANGED <<rows, tasks, closings, retries, gotos, wf, gates, crashes>>

Insert(a) ==
  LET j == job[a] IN
  /\ j.at = "insert"
  /\ tasks' = Append(tasks, [phase |-> j.to, state |-> "live",
                             tag |-> IF j.act \in {"goto", "retry"} THEN j.phase ELSE 0])
  /\ rows' = [rows EXCEPT ![j.to] = [Run(@, Now) EXCEPT !.claim = Nobody]]
  /\ IF j.own THEN Goes(a, "end") ELSE Ends(a)
  /\ UNCHANGED <<closings, retries, gotos, wf, gates, crashes>>

\* The finally of _create_phase_task, then the sweep's own.
End(a) ==
  LET freed == {job[a].to} \cup (IF a = "sweep" THEN {job[a].phase} ELSE {}) IN
  /\ job[a].at = "end"
  /\ rows' = [p \in Phases |-> IF p \in freed THEN [rows[p] EXCEPT !.claim = Nobody] ELSE rows[p]]
  /\ Ends(a)
  /\ UNCHANGED <<tasks, closings, retries, gotos, wf, gates, crashes>>

Step(a) ==
  \/ Evaluate(a) \/ Close(a) \/ Next_(a) \/ Start(a) \/ Reset(a) \/ Tag(a)
  \/ Dispatch(a) \/ Rewind(a) \/ Claim(a) \/ Check(a) \/ Insert(a) \/ End(a)

-----------------------------------------------------------------------------
(* _advance_phases: heal, release, take a snapshot, act on its first case. *)

\* Mutant: no claim is ever taken for stale.
NeverHeal ==
  /\ wf = "active" /\ job["sweep"] = IdleJob
  /\ Goes("sweep", "healed")
  /\ UNCHANGED <<rows, tasks, closings, retries, gotos, wf, gates, crashes>>

SweepHeal ==
  /\ wf = "active" /\ job["sweep"] = IdleJob
  /\ rows' = [p \in Phases |-> IF Stale(p) THEN Healed(p) ELSE rows[p]]
  /\ Goes("sweep", "healed")
  /\ UNCHANGED <<tasks, closings, retries, gotos, wf, gates, crashes>>

\* Mutant: a phase left pending behind its finished task is not reopened.
NeverRelease ==
  /\ job["sweep"].at = "healed"
  /\ Goes("sweep", "look")
  /\ UNCHANGED <<rows, tasks, closings, retries, gotos, wf, gates, crashes>>

\* _release_pending_phases_with_done_tasks.
SweepRelease ==
  LET done == In("done", DOMAIN tasks)
      i == Max(done)
      p == tasks[i].phase IN
  /\ job["sweep"].at = "healed"
  /\ rows' = IF With(InProgress) = {} /\ done # {} /\ rows[p].status = Pending
             THEN [rows EXCEPT ![p] = Run(@, IF @.started = 0 THEN i ELSE @.started)]
             ELSE rows
  /\ Goes("sweep", "look")
  /\ UNCHANGED <<tasks, closings, retries, gotos, wf, gates, crashes>>


\* A case that found p without a task later than the given one.
Grabs(at, p, act, source, since) ==
  job' = [job EXCEPT !["sweep"] = [at |-> at, phase |-> source, act |-> act, to |-> p,
                                   own |-> FALSE, since |-> since]]

\* Mutant: a running phase does not keep the first pending one back.
CaseStartAny ==
  LET p == Min(With(Pending)) IN
  /\ With(Completed) = {} /\ With(Pending) # {}
  /\ IF TasksOf(p) = {} THEN Grabs("grab", p, "continue", 0, 0) ELSE Ends("sweep")
  /\ UNCHANGED <<rows, tasks>>

CaseStartFirst ==
  LET p == Min(With(Pending)) IN
  /\ With(InProgress) = {} /\ With(Completed) = {} /\ With(Pending) # {}
  /\ IF TasksOf(p) = {} THEN Grabs("grab", p, "continue", 0, 0) ELSE Ends("sweep")
  /\ UNCHANGED <<rows, tasks>>

\* Mutant: a running phase with no unfinished task is taken for finished.
CaseInProgressVacuous ==
  LET p == Min(With(InProgress)) IN
  /\ With(InProgress) # {} /\ Cycle(p) = {}
  /\ job' = [job EXCEPT !["sweep"] = [IdleJob EXCEPT !.at = "evaluate", !.phase = p, !.own = TRUE]]
  /\ rows' = [rows EXCEPT ![p].claim = "sweep"]
  /\ UNCHANGED tasks

\* Only the earliest running phase may be given a task.
CaseInProgressNoTasks ==
  LET p == Min(With(InProgress)) IN
  /\ With(InProgress) # {} /\ Cycle(p) = {}
  /\ Grabs("try", p, "continue", 0, 0)
  /\ UNCHANGED <<rows, tasks>>

\* The completed phase with the latest completed_at.
LastClosing ==
  CHOOSE p \in With(Completed) : \A q \in With(Completed) : closings[q].rank <= closings[p].rank

\* Mutant: a running phase does not keep the successor back.
CaseSuccessorAnytime ==
  LET last   == LastClosing
      target == Target(TasksOf(last))
      tagged == target \in With(Pending)
      later  == {p \in With(Pending) : p > last}
      next   == IF tagged THEN target ELSE Min(IF later # {} THEN later ELSE With(Pending)) IN
  /\ With(Completed) # {} /\ With(Pending) # {}
  /\ rows' = SkipOver(last, next)
  /\ IF \E i \in TasksOf(next) : i > closings[last].after THEN Ends("sweep")
     ELSE Grabs("grab", next, IF tagged THEN "goto" ELSE "continue",
                      IF tagged THEN last ELSE 0, closings[last].after)
  /\ UNCHANGED tasks

CaseCompletedWithSuccessor ==
  LET last   == LastClosing
      target == Target(TasksOf(last))
      tagged == target \in With(Pending)
      later  == {p \in With(Pending) : p > last}
      next   == IF tagged THEN target ELSE Min(IF later # {} THEN later ELSE With(Pending)) IN
  /\ With(InProgress) = {} /\ With(Completed) # {} /\ With(Pending) # {}
  /\ rows' = SkipOver(last, next)
  /\ IF \E i \in TasksOf(next) : i > closings[last].after THEN Ends("sweep")
     ELSE Grabs("grab", next, IF tagged THEN "goto" ELSE "continue",
                      IF tagged THEN last ELSE 0, closings[last].after)
  /\ UNCHANGED tasks

\* The running phases whose tasks are all over and that nobody has claimed.
Quiet == {p \in With(InProgress) : rows[p].claim = Nobody /\ In("live", Cycle(p)) = {}}

\* _case_in_progress_complete, in its three parts: nothing was ever started;
\* _maybe_retry_failed_tasks and _retry_failed_tasks_with_done; evaluate.
CaseNeverStarted ==
  LET p == Min(Quiet) IN
  /\ Quiet # {} /\ Cycle(p) = {}
  /\ Grabs("grab", p, "continue", 0, rows[p].started - 1)
  /\ UNCHANGED <<rows, tasks>>

CaseRetry ==
  LET lost == In("lost", Cycle(Min(Quiet))) IN
  /\ Quiet # {} /\ lost # {}
  /\ tasks' = [i \in DOMAIN tasks |-> IF i \in lost THEN [tasks[i] EXCEPT !.state = "live"]
                                      ELSE tasks[i]]
  /\ Ends("sweep")
  /\ UNCHANGED rows

CaseComplete ==
  LET p == Min(Quiet) IN
  /\ Quiet # {} /\ Cycle(p) # {} /\ In("lost", Cycle(p)) = {}
  /\ job' = [job EXCEPT !["sweep"] = [IdleJob EXCEPT !.at = "evaluate", !.phase = p, !.own = TRUE]]
  /\ rows' = [rows EXCEPT ![p].claim = "sweep"]
  /\ UNCHANGED tasks

NothingToDo ==
  /\ Quiet = {}
  /\ Ends("sweep")
  /\ UNCHANGED <<rows, tasks>>

CaseInProgressComplete == CaseNeverStarted \/ CaseRetry \/ CaseComplete \/ NothingToDo

\* The snapshot and the first case it falls into.  A pass whose case finds the
\* claim taken ends here; the code may try the rest of its snapshot, and here
\* the next pass does.
SweepLook ==
  LET running == With(InProgress)
      idle == running # {} /\ Cycle(Min(running)) = {} IN
  /\ job["sweep"].at = "look"
  /\ \/ CaseStartFirst \/ CaseInProgressNoTasks \/ CaseCompletedWithSuccessor
     \/ /\ ~ idle /\ (running # {} \/ With(Pending) = {})
        /\ CaseInProgressComplete
  /\ UNCHANGED <<closings, retries, gotos, wf, gates, crashes>>

\* The case's claim, and the second look at the tasks while holding it.  The
\* second look of _case_in_progress_no_tasks takes a task of any cycle for the
\* phase's task, and leaves the phase to the last case.
SweepGrab ==
  LET j == job["sweep"]
      taken == rows[j.to].claim # Nobody
      seen == \E i \in TasksOf(j.to) : i > j.since IN
  /\ j.at \in {"grab", "try"}
  /\ IF taken \/ seen
     THEN /\ IF j.at = "try" THEN Goes("sweep", "last") ELSE Ends("sweep")
          /\ rows' = IF taken THEN rows
                     ELSE [rows EXCEPT ![j.to] = [Run(@, Min(TasksOf(j.to))) EXCEPT !.claim = Nobody]]
     ELSE /\ rows' = [rows EXCEPT ![j.to].claim = "sweep"]
          /\ Goes("sweep", "check")
  /\ UNCHANGED <<tasks, closings, retries, gotos, wf, gates, crashes>>

\* Mutant: a case that came to nothing ends the pass.
SweepStops ==
  /\ job["sweep"].at = "last"
  /\ Ends("sweep") /\ UNCHANGED <<rows, tasks>>
  /\ UNCHANGED <<closings, retries, gotos, wf, gates, crashes>>

SweepLast ==
  /\ job["sweep"].at = "last"
  /\ CaseInProgressComplete
  /\ UNCHANGED <<closings, retries, gotos, wf, gates, crashes>>

Sweep == SweepHeal \/ SweepRelease \/ SweepLook \/ SweepGrab \/ SweepLast \/ Step("sweep")

-----------------------------------------------------------------------------

\* An agent reports done; one request at a time reaches the gate.
Finish(i, fires) ==
  /\ tasks[i].state = "live"
  /\ fires => job["gate"] = IdleJob /\ gates < MaxGates
  /\ tasks' = [tasks EXCEPT ![i].state = "done"]
  /\ job' = IF fires
            THEN [job EXCEPT !["gate"] = [IdleJob EXCEPT !.at = "fired", !.phase = tasks[i].phase]]
            ELSE job
  /\ gates' = gates + IF fires THEN 1 ELSE 0
  /\ UNCHANGED <<rows, closings, retries, gotos, wf, crashes>>

\* fire_spec_gate_if_ready: no unfinished task of the phase, in any cycle.
GateClaim ==
  LET p == job["gate"].phase IN
  /\ job["gate"].at = "fired"
  /\ IF TasksOf(p) = In("done", TasksOf(p)) /\ rows[p].claim = Nobody
     THEN /\ rows' = [rows EXCEPT ![p].claim = "gate"]
          /\ job' = [job EXCEPT !["gate"].at = "evaluate", !["gate"].own = TRUE]
     ELSE Ends("gate") /\ UNCHANGED rows
  /\ UNCHANGED <<tasks, closings, retries, gotos, wf, gates, crashes>>

Gate == GateClaim \/ Step("gate")

\* The status page's derive_workflow_status(write_back=True).
Poll ==
  /\ Polled /\ tasks # <<>>
  /\ wf' = IF AllClosed THEN "completed" ELSE "active"
  /\ UNCHANGED <<rows, tasks, closings, retries, gotos, job, gates, crashes>>

\* The backend restarts: both paths are threads of one process.
Crash ==
  /\ crashes < MaxCrashes
  /\ \E a \in Actors : job[a] # IdleJob
  /\ crashes' = crashes + 1
  /\ job' = [a \in Actors |-> IdleJob]
  /\ UNCHANGED <<rows, tasks, closings, retries, gotos, wf, gates>>

Next ==
  \/ Sweep \/ Gate
  \/ \E i \in DOMAIN tasks, fires \in BOOLEAN : Finish(i, fires)
  \/ Poll \/ Crash

\* The sweep is a polling loop and a request runs to its end.  Agents report:
\* one that dies or stalls is the business of other components.
Fairness ==
  /\ WF_vars(Sweep) /\ WF_vars(Gate) /\ WF_vars(Poll)
  /\ WF_vars(\E i \in DOMAIN tasks, fires \in BOOLEAN : Finish(i, fires))

Spec == Init /\ [][Next]_vars /\ Fairness

-----------------------------------------------------------------------------

Task == [phase : Phases, state : {"live", "lost", "done"}, tag : {0} \cup Phases]

TypeOK ==
  /\ rows \in [Phases -> [status : PhaseStatus, started : Nat, claim : {Nobody} \cup Actors]]
  /\ tasks \in Seq(Task)
  /\ closings \in [Phases -> [rank : 0..N, after : Nat]]
  /\ retries \in [Phases -> 0..MaxRetries]
  /\ gotos \in 0..(MaxGotos + 1)
  /\ wf \in {"active", "completed"}
  /\ \A a \in Actors : job[a].phase \in {0} \cup Phases /\ job[a].to \in {0} \cup Phases
  /\ gates \in 0..MaxGates /\ crashes \in 0..MaxCrashes

\* As long as the backend is not restarted and the gate not run, no two phases
\* run: "a workflow legitimately doing something must never gain a second
\* concurrent one" (_release_pending_phases_with_done_tasks).
OneRunningPhase == crashes = 0 /\ gates = 0 => Cardinality(With(InProgress)) <= 1

\* Every retry the sweep charges to a phase's budget judges a finished run of its
\* own; only a restart between the charge and the close charges a result again,
\* and each restart only once.
RetriesPaidFor ==
  gates = 0 =>
    \A p \in Phases : retries[p] <= Cardinality(In("done", TasksOf(p))) + crashes

\* A phase is closed or passed over on the strength of a finished run of its
\* own, whichever path evaluates it and however gotos reset it in between.
ClosedByWork ==
  \A p \in With(Completed) \cup With(Skipped) : In("done", TasksOf(p)) # {}

\* No phase is given its first task before the one in front has delivered.
InOrder == \A p \in Phases \ {1} : TasksOf(p) # {} => In("done", TasksOf(p - 1)) # {}

\* The sweep reports a workflow completed only when nothing of it is left to run.
CompletedIsOver ==
  gates = 0 /\ ~ Polled /\ wf = "completed" => AllClosed /\ In("live", DOMAIN tasks) = {}

\* Whatever retries, gotos, restarts, gate runs and status polls it meets, the
\* workflow comes to its end with every phase closed.
Finishes == <>[](wf = "completed" /\ AllClosed)

=============================================================================
