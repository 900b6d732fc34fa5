--------------------------- MODULE WorkflowPause ---------------------------
(***************************************************************************)
(* Why a workflow stands still, and who may set it going again.  Five      *)
(* reasons share one column, Workflow.paused_by: a person's pause, the     *)
(* project's budget, a pending human review, a failure the system thinks   *)
(* it may retry, and the end of those retries.  Buttons, cost accounting   *)
(* and the background sweep all write it.                                  *)
(*                                                                         *)
(* The workflows are those of one project.  What a phase's own machinery   *)
(* does is reduced to work, the state of the workflow's current task.      *)
(* The cooldown between automatic retries has passed whenever it is asked. *)
(***************************************************************************)
EXTENDS Naturals

CONSTANTS
  Workflows,   \* the project's workflows
  MaxCycles,   \* paused_workflow_max_retry_cycles
  ReviewMode,  \* AutopilotProject.review_mode
  Others,      \* some other project is active
  MaxClicks    \* bound on what people do, so that one run can end

ASSUME PauseAssumption ==
  /\ MaxCycles \in Nat \ {0} /\ MaxClicks \in Nat
  /\ ReviewMode \in BOOLEAN /\ Others \in BOOLEAN

VARIABLES
  wf,       \* Workflow: status, paused_by, paused_retry_count
  verdict,  \* Feature.review_status of the workflow's feature
  work,     \* the current task, or "closed": no phase is left
  project,  \* AutopilotProject: is_active, and over: cost_limit_usd reached
  sweep,    \* what the sweep is about to commit, from the rows it has read
  stopping, \* the stop requests that wait for agents to end, and whether the
            \* workflow has a task by now that they have not listed
  clicks,
  revived   \* the workflows that were set going, or had a stop under way, since
            \* the sweep read: what has happened, and nothing the program keeps

program   == <<wf, verdict, work, project, sweep, stopping, clicks>>
pauseVars == <<program, revived>>

None    == "none"
Reasons == {"user", "budget", "review", "system", "system-exhausted"}
Row     == [status : {"active", "paused", "completed", "failed"},
            by : Reasons \union {None}, cycles : 0..MaxCycles]
Work    == {"going", "failed", "idle", "delivered", "closed"}
Idle    == [does |-> "nothing", rows |-> [w \in {} |-> None]]

\* The sweep skips the projects that are not active, unless none is.
Swept == project.active \/ ~Others

\* The sweep takes one step at a time; everyone else may come in between.
Alone == sweep = Idle

-----------------------------------------------------------------------------
(* Mutants of the code below. *)

\* A feature is paused whatever its workflow is doing.
PauseFeatureAlways(w) ==
  /\ clicks < MaxClicks /\ clicks' = clicks + 1
  /\ wf' = [wf EXCEPT ![w].status = "paused", ![w].by = "user"]
  /\ work' = [work EXCEPT ![w] = IF @ = "going" THEN "idle" ELSE @]
  /\ UNCHANGED <<verdict, project, sweep, stopping>>

\* The sweep retries what it has retried before.
CandidatesCounted ==
  {w \in Workflows : wf[w].status = "paused" /\ wf[w].by = "system" /\ wf[w].cycles > 0}

\* The project is switched off, its workflows are left as they are.
SpendProjectOnly ==
  /\ \E w \in Workflows : work[w] = "going"
  /\ project' = [active |-> FALSE, over |-> TRUE]
  /\ UNCHANGED <<wf, verdict, work, sweep, stopping, clicks>>

-----------------------------------------------------------------------------
(* The primitives. *)

Paused(row, why) == [row EXCEPT !.status = "paused", !.by = why]

Resumed == [status |-> "active", by |-> None, cycles |-> 0]

ForceResumed(row) == IF row.status = "paused" THEN Resumed ELSE row

\* A task is created that a stop under way has not listed.
Outrun(w) == [stopping EXCEPT ![w] = IF @ = "asked" THEN "outrun" ELSE @]

PauseInit ==
  /\ wf = [w \in Workflows |-> Resumed]
  /\ verdict = [w \in Workflows |-> None]
  /\ work = [w \in Workflows |-> "going"]
  /\ project = [active |-> TRUE, over |-> FALSE]
  /\ sweep = Idle /\ stopping = [w \in Workflows |-> "no"]
  /\ clicks = 0 /\ revived = {}

-----------------------------------------------------------------------------
(* The agents, and the machinery of the phases. *)

Deliver(w) ==
  /\ work[w] = "going"
  /\ work' = [work EXCEPT ![w] = "delivered"]
  /\ UNCHANGED <<wf, verdict, project, sweep, stopping, clicks>>

Fail(w) ==
  /\ work[w] = "going"
  /\ work' = [work EXCEPT ![w] = "failed"]
  /\ UNCHANGED <<wf, verdict, project, sweep, stopping, clicks>>

\* Out of credits, or at the CLI's usage limit with no fallback.
LimitHit(w) ==
  /\ work[w] = "going"
  /\ work' = [work EXCEPT ![w] = "failed"]
  /\ wf' = IF wf[w].status = "paused" THEN wf
           ELSE [wf EXCEPT ![w] = Paused(@, "system")]
  /\ UNCHANGED <<verdict, project, sweep, stopping, clicks>>

\* A delivered phase is closed, and the next begins, if there is one.  Work
\* redone during a review is closed too, but begins nothing.
Advance(w) ==
  /\ Swept /\ Alone /\ work[w] = "delivered"
  /\ \/ wf[w].status = "active" /\ work' = [work EXCEPT ![w] = "going"] /\ stopping' = Outrun(w)
     \/ /\ wf[w].status = "active" \/ (wf[w].status = "paused" /\ wf[w].by = "review")
        /\ work' = [work EXCEPT ![w] = "closed"] /\ UNCHANGED stopping
  /\ UNCHANGED <<wf, verdict, project, sweep, clicks>>

Redispatch(w) ==
  /\ Swept /\ Alone /\ wf[w].status = "active" /\ work[w] \in {"failed", "idle"}
  /\ work' = [work EXCEPT ![w] = "going"]
  /\ UNCHANGED <<wf, verdict, project, sweep, stopping, clicks>>

\* The last phase is over: in review mode a person has to see it first.
Complete(w) ==
  /\ work[w] = "closed" /\ wf[w].status = "active"
  /\ wf' = [wf EXCEPT ![w] = IF ReviewMode /\ verdict[w] # "approved"
                             THEN Paused(@, "review")
                             ELSE [@ EXCEPT !.status = "completed"]]
  /\ UNCHANGED <<verdict, work, project, sweep, stopping, clicks>>

\* A status poll derives the same from the rows and does not know of reviews.
Poll(w) ==
  /\ work[w] = "closed" /\ wf[w].status = "active"
  /\ wf' = [wf EXCEPT ![w].status = "completed"]
  /\ UNCHANGED <<verdict, work, project, sweep, stopping, clicks>>

\* An agent's cost brings the project to its limit, or finds it there.
Spend ==
  /\ \E w \in Workflows : work[w] = "going"
  /\ project' = [active |-> FALSE, over |-> TRUE]
  /\ LET stopped == {w \in Workflows : wf[w].status = "active"} IN
     /\ wf' = [w \in Workflows |-> IF w \in stopped THEN Paused(wf[w], "budget") ELSE wf[w]]
     /\ work' = [w \in Workflows |->
                   IF w \in stopped /\ work[w] = "going" THEN "idle" ELSE work[w]]
  /\ UNCHANGED <<verdict, sweep, stopping, clicks>>

-----------------------------------------------------------------------------
(* The buttons. *)

Click ==
  /\ clicks < MaxClicks /\ clicks' = clicks + 1
  /\ UNCHANGED sweep

Interrupted(w) == [work EXCEPT ![w] = IF @ = "going" THEN "idle" ELSE @]

\* The request has read an active workflow and waits for the agents it has found
\* to end, up to a minute each (_terminate_workflow_agents); then it pauses what
\* it has read, whatever has become of it.
StopWorkflow(w) ==
  /\ Click /\ wf[w].status = "active" /\ stopping[w] = "no"
  /\ stopping' = [stopping EXCEPT ![w] = "asked"]
  /\ UNCHANGED <<wf, verdict, work, project>>

Stopped(w) ==
  /\ stopping[w] # "no"
  /\ stopping' = [stopping EXCEPT ![w] = "no"]
  /\ wf' = [wf EXCEPT ![w] = Paused(@, "user")]
  /\ work' = IF stopping[w] = "asked" THEN Interrupted(w) ELSE work
  /\ UNCHANGED <<verdict, project, sweep, clicks>>

\* Only an active workflow: any other is "already" what it is.
PauseFeature(w) ==
  /\ Click /\ wf[w].status = "active"
  /\ wf' = [wf EXCEPT ![w] = Paused(@, "user")] /\ work' = Interrupted(w)
  /\ UNCHANGED <<verdict, project, stopping>>

CancelWorkflow(w) ==
  /\ Click
  /\ wf' = [wf EXCEPT ![w].status = "failed"]
  /\ work' = [work EXCEPT ![w] = IF @ \in {"going", "idle"} THEN "failed" ELSE @]
  /\ UNCHANGED <<verdict, project, stopping>>

ResumeWorkflow(w) ==
  /\ Click /\ wf[w].status = "paused"
  /\ wf' = [wf EXCEPT ![w] = ForceResumed(@)]
  /\ UNCHANGED <<verdict, work, project, stopping>>

\* Unlike the button of the workflow it leaves a review pending.
ResumeFeature(w) ==
  /\ Click
  /\ wf' = [wf EXCEPT ![w] = IF @.status = "paused" /\ @.by # "review" THEN ForceResumed(@)
                             ELSE IF @.status = "failed" THEN [@ EXCEPT !.status = "active", !.by = None]
                             ELSE @]
  /\ work' = [work EXCEPT ![w] = IF @ \in {"failed", "idle"} THEN "going" ELSE @]
  /\ UNCHANGED <<verdict, project, stopping>>

RestartTask(w) ==
  /\ Click /\ work[w] # "going"
  /\ wf' = [wf EXCEPT ![w] = IF @.by = "review" THEN @
                             ELSE IF @.status = "paused" THEN ForceResumed(@)
                             ELSE [@ EXCEPT !.status = "active"]]
  /\ work' = [work EXCEPT ![w] = "going"]
  /\ UNCHANGED <<verdict, project, stopping>>

Approve(w) ==
  /\ Click /\ wf[w].by = "review"
  /\ verdict' = [verdict EXCEPT ![w] = "approved"]
  /\ wf' = [wf EXCEPT ![w] = IF @.status = "paused" /\ work[w] = "closed"
                             THEN [Resumed EXCEPT !.status = "completed"]
                             ELSE ForceResumed(@)]
  /\ UNCHANGED <<work, project, stopping>>

RequestChanges(w) ==
  /\ Click /\ wf[w].by = "review"
  /\ verdict' = [verdict EXCEPT ![w] = "changes_requested"]
  /\ work' = [work EXCEPT ![w] = "going"]
  /\ stopping' = IF work[w] \in {"failed", "idle"} THEN stopping ELSE Outrun(w)
  /\ UNCHANGED <<wf, project>>

StopProject ==
  /\ Click
  /\ project' = [project EXCEPT !.active = FALSE]
  /\ LET stopped == {w \in Workflows : wf[w].status = "active"} IN
     /\ wf' = [w \in Workflows |-> IF w \in stopped THEN Paused(wf[w], "user") ELSE wf[w]]
     /\ work' = [w \in Workflows |->
                   IF w \in stopped /\ work[w] = "going" THEN "idle" ELSE work[w]]
  /\ UNCHANGED <<verdict, stopping>>

Play ==
  /\ Click
  /\ project' = [project EXCEPT !.active = TRUE]
  /\ wf' = [w \in Workflows |-> IF wf[w].by = "user" THEN ForceResumed(wf[w]) ELSE wf[w]]
  /\ UNCHANGED <<verdict, work, stopping>>

RaiseLimit ==
  /\ Click
  /\ project' = [project EXCEPT !.over = FALSE]
  /\ wf' = [w \in Workflows |-> IF wf[w].by = "budget" THEN ForceResumed(wf[w]) ELSE wf[w]]
  /\ UNCHANGED <<verdict, work, stopping>>

-----------------------------------------------------------------------------
(* The sweep's own resumptions.  Each reads the rows, looks at the tasks,  *)
(* and writes the columns that differ from what it has read.               *)

Candidates ==
  {w \in Workflows : wf[w].status = "paused" /\ wf[w].by \in {"system", "system-exhausted"}}

Retried(row) ==
  IF row.by = "system-exhausted" THEN Resumed
  ELSE [Resumed EXCEPT !.cycles = row.cycles + 1]

Resumable(row) == row.status = "paused" /\ row.by = "system"

RetryRow(w, row) ==
  IF row.by = "system" /\ row.cycles >= MaxCycles THEN [wf[w] EXCEPT !.by = "system-exhausted"]
  ELSE IF \/ work[w] = "failed"
          \/ work[w] = "idle" /\ row.by = "system-exhausted"
  THEN Retried(row)
  ELSE wf[w]

Retry(rows) ==
  wf' = [w \in Workflows |-> IF w \in DOMAIN rows THEN RetryRow(w, rows[w]) ELSE wf[w]]

AutoResume(rows) ==
  wf' = [w \in Workflows |->
           IF w \in DOMAIN rows /\ work[w] = "delivered" /\ Resumable(rows[w])
           THEN Resumed ELSE wf[w]]

ReadRetry ==
  /\ Alone /\ Candidates # {}
  /\ sweep' = [does |-> "retry", rows |-> [w \in Candidates |-> wf[w]]]
  /\ UNCHANGED <<wf, verdict, work, project, stopping, clicks>>

ReadResume(w) ==
  /\ Alone /\ Swept /\ wf[w].status = "paused"
  /\ sweep' = [does |-> "resume", rows |-> [x \in {w} |-> wf[x]]]
  /\ UNCHANGED <<wf, verdict, work, project, stopping, clicks>>

SweepWrite ==
  /\ \/ sweep.does = "retry" /\ Retry(sweep.rows)
     \/ sweep.does = "resume" /\ AutoResume(sweep.rows)
  /\ sweep' = Idle
  /\ UNCHANGED <<verdict, work, project, stopping, clicks>>

-----------------------------------------------------------------------------
Phases(w) == Deliver(w) \/ Fail(w) \/ LimitHit(w) \/ Advance(w) \/ Redispatch(w)
             \/ Complete(w) \/ Poll(w)
People(w) == StopWorkflow(w) \/ Stopped(w) \/ PauseFeature(w) \/ CancelWorkflow(w)
             \/ ResumeWorkflow(w) \/ ResumeFeature(w) \/ RestartTask(w) \/ Approve(w)
             \/ RequestChanges(w)

Acts ==
  \/ \E w \in Workflows : Phases(w) \/ People(w)
  \/ Spend \/ StopProject \/ Play \/ RaiseLimit
  \/ ReadRetry \/ (\E w \in Workflows : ReadResume(w)) \/ SweepWrite

PauseNext ==
  /\ Acts
  /\ revived' = IF sweep' = Idle THEN {}
                ELSE IF Alone THEN {w \in Workflows : stopping[w] # "no"}
                ELSE revived \union
                     {w \in Workflows : wf[w].status # "active" /\ wf'[w].status = "active"}

\* One tick of the sweep makes each of its calls in turn, and ticks keep
\* coming; a running agent posts its costs; a request returns.
PauseFairness ==
  /\ SF_program(ReadRetry) /\ WF_program(SweepWrite) /\ SF_program(Spend)
  /\ \A w \in Workflows : /\ SF_program(ReadResume(w)) /\ SF_program(Advance(w))
                         /\ SF_program(Redispatch(w)) /\ SF_program(Complete(w))
                         /\ WF_program(Stopped(w))

PauseSpec == PauseInit /\ [][PauseNext]_pauseVars /\ PauseFairness
-----------------------------------------------------------------------------
(* Properties. *)

\* The columns hold the values the code writes; the count of automatic
\* retries never passes its cap, whatever the sweep read before a click.
PauseTypeOK ==
  /\ wf \in [Workflows -> Row]
  /\ verdict \in [Workflows -> {None, "approved", "changes_requested"}]
  /\ work \in [Workflows -> Work]
  /\ project \in [active : BOOLEAN, over : BOOLEAN]
  /\ clicks \in 0..MaxClicks /\ revived \subseteq Workflows
  /\ stopping \in [Workflows -> {"no", "asked", "outrun"}]
  /\ sweep.does \in {"nothing", "retry", "resume"}
  /\ DOMAIN sweep.rows \subseteq Workflows
  /\ \A w \in DOMAIN sweep.rows :
       /\ sweep.rows[w] \in Row
       /\ sweep.does = "retry" => sweep.rows[w].by \in {"system", "system-exhausted"}

\* A paused workflow says who may resume it: no writer of either column,
\* however stale the row it read, leaves a pause without its reason.  Play,
\* RaiseLimit, the retries and the review all look for theirs.
PausedHasReason == \A w \in Workflows : wf[w].status = "paused" => wf[w].by # None

\* "Respect any deliberate pause" (_try_auto_resume_paused_workflow), by a sweep
\* that commits from rows it read before.  The reason it read may be an old one,
\* and its commit does not look: a person's pause, the budget's or a review's that
\* came since would be lifted.  It is not, for whoever pauses looks whether the
\* workflow is active, and a row the sweep works on was paused when it read it.
\* What is left are a workflow that was set going and paused again in between, and
\* a stop that had looked before and was still waiting for its agents.
SweepRespects ==
  [][SweepWrite =>
       \A w \in Workflows \ revived :
         wf[w].by \in {"user", "budget", "review"} => wf'[w] = wf[w]]_pauseVars

\* A workflow the system paused over a failure does not stand still for want
\* of a person: it is retried, or given up on.
SystemPauseRecovers ==
  \A w \in Workflows :
    wf[w].by = "system" /\ wf[w].status = "paused" /\ work[w] \in {"failed", "delivered"}
      ~> ~(wf[w].by = "system" /\ wf[w].status = "paused")

\* A project at its limit stops spending: once people leave it alone, none of
\* its workflows stays active, whatever was resumed meanwhile.
BudgetBites ==
  (project.over /\ clicks = MaxClicks) ~> \A w \in Workflows : wf[w].status # "active"

=============================================================================
