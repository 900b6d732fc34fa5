--------------------------- MODULE DesignPipeline ---------------------------
(***************************************************************************)
(* One design of a project, from the queue to its outcome.  The pipeline's *)
(* thread picks the design, has it decomposed by an architect's workflow,  *)
(* waits for a person to sign the decomposition off, and runs the features *)
(* in the order of their dependencies, a thread each, with a review after  *)
(* every one.  It decides on what it has read: meanwhile workflows close,  *)
(* people approve, ask for changes, stop and start the project, the sweep  *)
(* repairs rows, a dashboard derives them anew, and the server may die.    *)
(*                                                                         *)
(* A feature and its workflow go by one name; Architect is the workflow of *)
(* phase 0.  What happens within a workflow is PhaseAdvance; its pull      *)
(* request, the budget and the worktrees are not here.                     *)
(***************************************************************************)
EXTENDS Integers, FiniteSets, FiniteSetsExt

CONSTANTS
  Features,    \* features.json: what the design is decomposed into, in order,
  DependsOn,   \* depends_on of each,
  Parallel,    \* and those whose execution is "parallel"
  ReviewMode,  \* AutopilotProject.review_mode
  MaxRetries,  \* MAX_DESIGN_RETRIES
  Dashboard,   \* somebody has the dashboard open
  Troubles     \* bound of a run: the kinds of trouble that come together, once each

Architect == 0
Kinds     == {"fault", "stop", "crash", "click"}
Jobs == Features \union {Architect}

\* What _validate_features_json lets through, numbered so that it shows.
Acyclic == \A f \in Features : \A g \in DependsOn[f] : g < f

ASSUME PipelineAssumption ==
  /\ Features \subseteq Nat \ {0} /\ Features # {} /\ IsFiniteSet(Features)
  /\ DependsOn \in [Features -> SUBSET Features] /\ Acyclic
  /\ Parallel \subseteq Features
  /\ ReviewMode \in BOOLEAN /\ Dashboard \in BOOLEAN
  /\ MaxRetries \in Nat /\ Troubles \subseteq SUBSET Kinds

VARIABLES
  design,   \* AutopilotDesign.status, and its autopilot_retry_ count
  plan,     \* the features.json the architect has left, if any
  row,      \* Feature.status, None while the row does not exist
  wf,       \* Workflow.status and paused_by of each job
  closed,   \* all phases of the job's workflow are closed, its tasks done
  approved, \* Feature.review_status = "approved"
  walk,     \* the pipeline's thread: where it is, the outcome to record, and
            \* PipelineState.current_workflow_id
  saved,    \* the current_workflow_id that is persisted
  run,      \* the thread that runs a job: where it is, what it has read of
            \* the workflow, its result
  signing,  \* the features whose approval is under way in a request
  stop,     \* POST /stop: not asked, the event set, the workflows paused
  trouble   \* the kinds of trouble there has been

vars == <<design, plan, row, wf, closed, approved, walk, saved, run, signing, stop, trouble>>

None      == "none"
Nobody    == "nobody"
NoJob     == -1
Results   == {"completed", "failed", "paused", "skipped", "interrupted"}
Statuses  == {"active", "paused", "completed", "failed"}
Idle      == [at |-> "idle", saw |-> None, result |-> None]
Off       == [at |-> "off", outcome |-> None, current |-> NoJob]

TypeOK ==
  /\ design \in [status : {"pending", "processing", "decomposing"} \union Statuses, retries : 0..MaxRetries]
  /\ plan \in {None, "good", "bad"}
  /\ row \in [Features -> Statuses \union {None, "pending"}]
  /\ wf \in [Jobs -> [status : Statuses \union {None}, by : {Nobody, "review", "system", "user"}]]
  /\ closed \in [Jobs -> BOOLEAN] /\ approved \in [Features -> BOOLEAN]
  /\ walk \in [at : {"off", "scan", "phase0", "resign", "architect", "signoff", "dispatch", "collect", "persist"},
               outcome : {None, "completed", "failed"}, current : Jobs \union {NoJob}]
  /\ saved \in Jobs \union {NoJob}
  /\ run \in [Jobs -> [at : {"idle", "begin", "launch", "read", "decide", "finish", "wait", "gate", "regate",
                              "over", "resolved"},
                       saw : Statuses \union {None}, result : Results \union {None}]]
  /\ signing \in SUBSET Features
  /\ stop \in {"no", "asked", "done"}
  /\ trouble \in SUBSET Kinds

Init ==
  /\ design = [status |-> "pending", retries |-> 0]
  /\ plan = None
  /\ row = [f \in Features |-> None]
  /\ wf = [j \in Jobs |-> [status |-> None, by |-> Nobody]]
  /\ closed = [j \in Jobs |-> FALSE] /\ approved = [f \in Features |-> FALSE]
  /\ walk = [Off EXCEPT !.at = "scan"]
  /\ saved = NoJob
  /\ run = [j \in Jobs |-> Idle]
  /\ signing = {}
  /\ stop = "no"
  /\ trouble = {}

Made     == \A f \in Features : row[f] # None
Stopping == stop # "no"
Trouble(what) == /\ what \notin trouble
                 /\ \E all \in Troubles : trouble \union {what} \subseteq all
                 /\ trouble' = trouble \union {what}

-----------------------------------------------------------------------------
(* What a bug in the code would make of three of the definitions below. *)

\* Whether somebody has approved the feature is not asked.
NeedsReviewAgain(f) == ReviewMode /\ wf[f].by # "review" /\ wf[f].status # "failed"

\* The next group does not wait for the reviews of the last.
DispatchAtOnce ==
  /\ walk.at = "dispatch"
  /\ LET resolved == {f \in Features : run[f].at = "resolved"}
         ready    == {f \in Features : run[f].at = "idle" /\ DependsOn[f] \subseteq resolved}
     IN run' = [j \in Jobs |-> IF ready # {} /\ j = Min(ready) THEN [Idle EXCEPT !.at = "begin"] ELSE run[j]]
  /\ walk' = [walk EXCEPT !.at = IF run' = run THEN "collect" ELSE @]
  /\ UNCHANGED <<design, plan, row, wf, closed, approved, saved, signing, stop, trouble>>

\* The retries of a stuck decomposition are counted but not limited.
RecoverDesignUncapped ==
  /\ design.status \in {"processing", "decomposing"}
  /\ wf[Architect].status \notin {"active", "paused"}
  /\ design' = [design EXCEPT !.status = "pending", !.retries = @ + 1]
  /\ UNCHANGED <<plan, row, wf, closed, approved, walk, saved, run, signing, stop, trouble>>

-----------------------------------------------------------------------------
(* _resolve_execution_order: a layer is what has its dependencies in earlier *)
(* ones; neighbours in a layer that are parallel form a group.               *)

Layer[f \in Features] == IF DependsOn[f] = {} THEN 0 ELSE 1 + Max({Layer[g] : g \in DependsOn[f]})

Together(f, g) ==
  \/ f = g
  \/ /\ Layer[f] = Layer[g]
     /\ \A h \in Features : /\ Layer[h] = Layer[f]
                            /\ (f <= h /\ h <= g) \/ (g <= h /\ h <= f)
                            => h \in Parallel

GroupOf(f) == {g \in Features : Together(f, g)}

-----------------------------------------------------------------------------
(* What the steps are made of. *)

\* pause_workflow and resume_workflow, with the cascade to the feature.
PausedRows(rows, js) ==
  [f \in Features |-> IF f \in js /\ rows[f] \in {"pending", "active"} THEN "paused" ELSE rows[f]]
ResumedRows(rows, js) ==
  [f \in Features |-> IF f \in js /\ rows[f] = "paused" THEN "active" ELSE rows[f]]

SetWf(j, status, by) == [wf EXCEPT ![j] = [status |-> status, by |-> by]]

\* What becomes of a row whose workflow has ended.
WriteRow(f, status) == row' = [row EXCEPT ![f] = status]

\* derive_feature_status, the tasks' part in it reduced to whether all the
\* phases are closed.
FeatureStatus(f, flow, rows, shut) ==
  CASE flow[f].status = None -> rows[f]
    [] rows[f] = "paused" /\ flow[f].status = "paused" -> "paused"
    [] flow[f].status \in {"failed", "completed"} -> flow[f].status
    [] flow[f].by = "review" -> "paused"
    [] flow[f].status = "active" /\ shut[f] -> "completed"
    [] OTHER -> "active"

\* derive_design_status.
DesignStatus(flow, rows, shut) ==
  LET derived == {FeatureStatus(f, flow, rows, shut) : f \in Features} IN
  CASE design.status = "pending" \/ ~Made -> design.status
    [] derived = {"completed"} -> "completed"
    [] "active" \in derived -> "active"
    [] "failed" \in derived -> "failed"
    [] derived = {"pending"} -> "pending"
    [] "completed" \in derived -> "active"
    [] OTHER -> design.status

\* has_incomplete: a row the design still has to see completed.
Unfinished == {f \in Features : row[f] \notin {None, "completed"}}
Resumable  == design.status = "active" /\ Unfinished # {}
Reviewing  == {j \in Jobs : wf[j] = [status |-> "paused", by |-> "review"]}
FailedRun  == {f \in Unfinished : wf[f].status = "failed"}

\* should_pause: nobody has approved the feature, and its workflow is neither
\* waiting for that already nor failed.
NeedsReview(f) == ReviewMode /\ ~approved[f] /\ wf[f].by # "review" /\ wf[f].status # "failed"

DesignIs(status) == design' = [design EXCEPT !.status = status]
WalkTo(at)       == walk' = [walk EXCEPT !.at = at]

\* _create_feature_records, which leaves records that exist alone.
CreateRecords == row' = IF Made THEN row ELSE [f \in Features |-> "pending"]

\* RuntimeError of run_single_design, caught by the loop.
Abort == walk' = [walk EXCEPT !.at = "persist", !.outcome = "failed"]

-----------------------------------------------------------------------------
(* The walk: run_continuous_pipeline and run_single_design. *)

\* An active workflow holds the queue up, and so does the one the walk was
\* last concerned with, unless there is an active design to go on with.
Blocked == ~Resumable /\ \E j \in Jobs : wf[j].status = "active"
Held    == ~Resumable /\ walk.current # NoJob /\ wf[walk.current].status # "completed"

\* After five attempts at the recovery of a workflow without any activity.
AbandonCurrent ==
  /\ walk.at = "scan" /\ ~Stopping /\ ~Blocked
  /\ Held /\ wf[walk.current].status = "failed"
  /\ walk' = [walk EXCEPT !.current = NoJob]
  /\ UNCHANGED <<design, plan, row, wf, closed, approved, saved, run, signing, stop, trouble>>

\* The workflow cannot be looked up and is forgotten.
ForgetCurrent ==
  /\ walk.at = "scan" /\ ~Stopping /\ ~Blocked
  /\ Held /\ Trouble("fault")
  /\ walk' = [walk EXCEPT !.current = NoJob]
  /\ UNCHANGED <<design, plan, row, wf, closed, approved, saved, run, signing, stop>>

\* pick_next_design.  A design with a failed workflow goes back to the queue,
\* MaxRetries times; one with nothing left to do is over.
Pick ==
  LET retry == design.status = "active" /\ FailedRun # {}
      rest  == IF Resumable THEN walk.current ELSE NoJob
  IN
  /\ walk.at = "scan" /\ ~Stopping /\ ~Blocked /\ ~Held
  /\ \/ /\ retry /\ design.retries < MaxRetries
        /\ design' = [design EXCEPT !.status = "pending", !.retries = @ + 1]
        /\ walk' = [walk EXCEPT !.current = rest]
     \/ /\ retry /\ design.retries = MaxRetries
        /\ DesignIs("failed")
        /\ walk' = [walk EXCEPT !.current = rest]
     \/ /\ design.status = "active" /\ Unfinished = {}
        /\ DesignIs("completed")
        /\ walk' = [walk EXCEPT !.current = rest]
     \/ /\ design.status = "pending" \/ (Resumable /\ ~retry)
        /\ DesignIs("processing")
        /\ walk' = [walk EXCEPT !.at = "phase0", !.current = rest]
  /\ UNCHANGED <<plan, row, wf, closed, approved, saved, run, signing, stop, trouble>>

Decompose ==
  /\ DesignIs("decomposing")
  /\ run' = [run EXCEPT ![Architect] = [Idle EXCEPT !.at = "launch"]]
  /\ WalkTo("architect")
  /\ UNCHANGED row

\* The decomposition of an earlier walk is there to be taken up.
FromFolder ==
  IF plan = "good" THEN CreateRecords /\ WalkTo("dispatch") /\ UNCHANGED <<design, run>>
  ELSE Decompose

Phase0 ==
  /\ walk.at = "phase0"
  /\ \/ /\ Made
        /\ DesignIs("active") /\ WalkTo("dispatch")
        /\ UNCHANGED <<row, run>>
     \/ /\ ~Made /\ Architect \in Reviewing
        /\ WalkTo("resign")
        /\ UNCHANGED <<design, row, run>>
     \/ ~Made /\ Architect \notin Reviewing /\ wf[Architect].status = "completed" /\ FromFolder
     \/ ~Made /\ Architect \notin Reviewing /\ wf[Architect].status # "completed" /\ Decompose
  /\ UNCHANGED <<plan, wf, closed, approved, saved, signing, stop, trouble>>

\* The walk comes upon a decomposition that waits for its reviewer.
Resign ==
  /\ walk.at = "resign"
  /\ \/ /\ Stopping /\ Abort
        /\ UNCHANGED <<design, row, wf, run>>
     \/ /\ ~Stopping /\ Architect \notin Reviewing
        /\ wf' = [wf EXCEPT ![Architect].status = "completed"]
        /\ FromFolder
  /\ UNCHANGED <<plan, closed, approved, saved, signing, stop, trouble>>

\* What the architect has left is read, unless its run came to nothing.
Harvest ==
  /\ walk.at = "architect" /\ run[Architect].at = "over"
  /\ run' = [run EXCEPT ![Architect] = Idle]
  /\ IF run[Architect].result \in {"completed", "paused"} /\ plan = "good"
     THEN /\ DesignIs("active") /\ WalkTo("signoff")
          /\ wf' = IF ReviewMode /\ wf[Architect].by # "review" /\ wf[Architect].status # "failed"
                   THEN SetWf(Architect, "paused", "review") ELSE wf
     ELSE DesignIs("failed") /\ Abort /\ UNCHANGED wf
  /\ UNCHANGED <<plan, row, closed, approved, saved, signing, stop, trouble>>

Signoff ==
  /\ walk.at = "signoff"
  /\ \/ /\ ReviewMode /\ Stopping /\ Abort
        /\ UNCHANGED <<row, wf>>
     \/ /\ ReviewMode => ~Stopping /\ Architect \notin Reviewing
        /\ wf' = IF ReviewMode THEN [wf EXCEPT ![Architect].status = "completed"] ELSE wf
        /\ CreateRecords /\ WalkTo("dispatch")
  /\ UNCHANGED <<design, plan, closed, approved, saved, run, signing, stop, trouble>>

\* A group is ready when all its members depend on is resolved, however; in
\* review mode it waits until no review is pending, stop or no stop.
Resolved == {f \in Features : run[f].at = "resolved"}
Ready    == {f \in Features : /\ run[f].at = "idle"
                              /\ \A g \in GroupOf(f) : DependsOn[g] \subseteq Resolved}
InFlight == {f \in Features : run[f].at \notin {"idle", "resolved"}}

Dispatch ==
  /\ walk.at = "dispatch"
  /\ IF Ready = {}
     THEN WalkTo("collect") /\ UNCHANGED run
     ELSE /\ ReviewMode => Reviewing = {}
          /\ run' = [j \in Jobs |-> IF j \in GroupOf(Min(Ready)) THEN [Idle EXCEPT !.at = "begin"] ELSE run[j]]
          /\ UNCHANGED walk
  /\ UNCHANGED <<design, plan, row, wf, closed, approved, saved, signing, stop, trouble>>

\* A result that resolves nothing halts the dispatch for good.
Collect ==
  LET over   == {f \in Features : run[f].at = "over"}
      halted == \E f \in over \union Resolved : run[f].result = "interrupted"
  IN
  /\ walk.at = "collect" /\ over # {}
  /\ run' = [j \in Jobs |-> IF j \in over THEN [run[j] EXCEPT !.at = "resolved"] ELSE run[j]]
  /\ IF halted THEN UNCHANGED walk ELSE WalkTo("dispatch")
  /\ UNCHANGED <<design, plan, row, wf, closed, approved, saved, signing, stop, trouble>>

\* run_design_aggregate.
Outcome ==
  LET results == {run[f].result : f \in Resolved} IN
  IF "completed" \in results /\ results \intersect {"failed", "interrupted"} = {}
  THEN "completed" ELSE "failed"

Aggregate ==
  /\ walk.at = "collect" /\ InFlight = {}
  /\ DesignIs(Outcome)
  /\ walk' = [walk EXCEPT !.at = "persist", !.outcome = Outcome]
  /\ run' = [j \in Jobs |-> Idle]
  /\ UNCHANGED <<plan, row, wf, closed, approved, saved, signing, stop, trouble>>

Persist ==
  /\ walk.at = "persist"
  /\ design' = [design EXCEPT !.status = walk.outcome,
                              !.retries = IF walk.outcome = "completed" THEN 0 ELSE @]
  /\ walk' = [walk EXCEPT !.at = "scan", !.outcome = None]
  /\ saved' = walk.current
  /\ UNCHANGED <<plan, row, wf, closed, approved, run, signing, stop, trouble>>

\* Every active workflow of the project is paused by whom.
PauseAll(whom) ==
  LET active == {j \in Jobs : wf[j].status = "active"} IN
  /\ wf' = [j \in Jobs |-> IF j \in active THEN [status |-> "paused", by |-> whom] ELSE wf[j]]
  /\ row' = PausedRows(row, active)

Shutdown ==
  /\ walk.at = "scan" /\ Stopping
  /\ walk' = Off
  /\ saved' = walk.current
  /\ PauseAll("system")
  /\ UNCHANGED <<design, plan, closed, approved, run, signing, stop, trouble>>

-----------------------------------------------------------------------------
(* A job's thread: _run_one_feature and run_single_workflow. *)

To(j, at)     == run' = [run EXCEPT ![j].at = at, ![j].saw = None]
Over(f, what) == run' = [run EXCEPT ![f].at = "over", ![f].result = what]

Begin(f) ==
  /\ run[f].at = "begin"
  /\ \/ /\ \E g \in DependsOn[f] : row[g] # "completed"
        /\ Over(f, "skipped") /\ UNCHANGED row
     \/ /\ \A g \in DependsOn[f] : row[g] = "completed"
        /\ CASE wf[f].status = "completed" -> WriteRow(f, "completed") /\ Over(f, "completed")
             [] wf[f].by = "review"        -> Over(f, "paused") /\ UNCHANGED row
             [] OTHER                      -> WriteRow(f, "active") /\ To(f, "launch")
  /\ UNCHANGED <<design, plan, wf, closed, approved, walk, saved, signing, stop, trouble>>

\* A workflow that failed is set going again, one that is paused is left alone.
Launch(j) ==
  /\ run[j].at = "launch"
  /\ To(j, "read")
  /\ IF j = Architect \/ wf[j].status = None
     THEN wf' = SetWf(j, "active", Nobody) /\ closed' = [closed EXCEPT ![j] = FALSE]
     ELSE /\ wf' = IF wf[j].status = "failed" THEN SetWf(j, "active", Nobody) ELSE wf
          /\ UNCHANGED closed
  /\ plan' = IF j = Architect THEN None ELSE plan
  /\ walk' = IF j = Architect THEN [walk EXCEPT !.current = j] ELSE walk
  /\ saved' = j
  /\ UNCHANGED <<design, row, approved, signing, stop, trouble>>

LaunchFails(j) ==
  /\ run[j].at = "launch" /\ Trouble("fault")
  /\ Over(j, "failed")
  /\ row' = IF j = Architect THEN row ELSE [row EXCEPT ![j] = "failed"]
  /\ UNCHANGED <<design, plan, wf, closed, approved, walk, saved, signing, stop>>

\* The loop ends; a workflow that is still active is paused on the way out.
Ends(j, what) ==
  /\ run' = [run EXCEPT ![j] = [at |-> IF j = Architect THEN "over" ELSE "finish",
                                saw |-> None, result |-> what]]
  /\ IF wf[j].status = "active"
     THEN wf' = SetWf(j, "paused", "system") /\ row' = PausedRows(row, {j})
     ELSE UNCHANGED <<wf, row>>

\* The workflow's status is read at the top of the loop and used at its end.
Read(j) ==
  /\ run[j].at = "read"
  /\ IF Stopping THEN Ends(j, "interrupted")
     ELSE /\ run' = [run EXCEPT ![j].at = "decide", ![j].saw = wf[j].status]
          /\ UNCHANGED <<row, wf>>
  /\ UNCHANGED <<design, plan, closed, approved, walk, saved, signing, stop, trouble>>

Decide(j) ==
  LET over == run[j].saw = "active" /\ closed[j] IN
  /\ run[j].at = "decide"
  /\ CASE run[j].saw # "active" -> Ends(j, run[j].saw)
       [] over                  -> Ends(j, "completed")
       [] OTHER                 -> To(j, "read") /\ UNCHANGED <<row, wf>>
  /\ walk' = IF over /\ j = Architect THEN [walk EXCEPT !.current = NoJob] ELSE walk
  /\ UNCHANGED <<design, plan, closed, approved, saved, signing, stop, trouble>>

\* A timeout, a hard error, or somebody asked about an impasse who quits.
GivesUp(j) ==
  /\ run[j].at = "decide" /\ run[j].saw = "active" /\ Trouble("fault")
  /\ \E what \in {"failed", "interrupted"} : Ends(j, what)
  /\ UNCHANGED <<design, plan, closed, approved, walk, saved, signing, stop>>

\* _pause_feature_for_review.
ForReview(f) ==
  IF NeedsReview(f) THEN wf' = SetWf(f, "paused", "review") /\ WriteRow(f, "paused")
  ELSE UNCHANGED <<wf, row>>

Finish(f) ==
  /\ run[f].at = "finish"
  /\ CASE run[f].result = "completed" -> ForReview(f) /\ To(f, "wait")
       [] run[f].result = "paused" -> WriteRow(f, "paused") /\ To(f, "over") /\ UNCHANGED wf
       [] run[f].result = "failed" -> WriteRow(f, "failed") /\ To(f, "over") /\ UNCHANGED wf
       [] OTHER -> To(f, "over") /\ UNCHANGED <<row, wf>>
  /\ UNCHANGED <<design, plan, closed, approved, walk, saved, signing, stop, trouble>>

\* The wait for the review ends, by a verdict or by a stop, and the feature is
\* recorded as completed; a second gate looks whether that was a verdict.
Waited(f) == ~ReviewMode \/ Stopping \/ wf[f].by # "review"

Wait(f) ==
  /\ run[f].at = "wait" /\ Waited(f)
  /\ WriteRow(f, "completed") /\ To(f, "gate")
  /\ UNCHANGED <<design, plan, wf, closed, approved, walk, saved, signing, stop, trouble>>

Gate(f) ==
  /\ \/ run[f].at = "gate" /\ ForReview(f) /\ To(f, "regate")
     \/ run[f].at = "regate" /\ Waited(f) /\ To(f, "over") /\ UNCHANGED <<row, wf>>
  /\ UNCHANGED <<design, plan, closed, approved, walk, saved, signing, stop, trouble>>

-----------------------------------------------------------------------------
(* The workflows: the last phase closes, and _complete_workflow. *)

Closed(j) == [closed EXCEPT ![j] = TRUE]

\* The design is derived anew before the workflow is closed or paused.
CloseWork(j) ==
  /\ wf[j].status = "active" /\ ~closed[j]
  /\ closed' = Closed(j)
  /\ plan' = IF j = Architect THEN "good" ELSE plan
  /\ LET derived == [design EXCEPT !.status = DesignStatus(wf, row, Closed(j))]
         review  == ReviewMode /\ (j = Architect \/ ~approved[j])
     IN
     IF review
     THEN /\ wf' = SetWf(j, "paused", "review")
          /\ row' = PausedRows(row, {j})
          /\ design' = derived
     ELSE /\ wf' = SetWf(j, "completed", Nobody)
          /\ IF j = Architect /\ ~Made
             THEN CreateRecords /\ DesignIs("active")
             ELSE UNCHANGED row /\ design' = derived
  /\ UNCHANGED <<approved, walk, saved, run, signing, stop, trouble>>

\* The phase closes but what follows is cut short; a features.json that does
\* not validate; a phase that fails for good.
GoesWrong(j) ==
  /\ wf[j].status = "active" /\ ~closed[j] /\ Trouble("fault")
  /\ \/ /\ closed' = Closed(j)
        /\ plan' = IF j = Architect THEN "good" ELSE plan
        /\ UNCHANGED wf
     \/ /\ j = Architect /\ closed' = Closed(j) /\ plan' = "bad"
        /\ wf' = IF ReviewMode THEN SetWf(j, "paused", "review") ELSE SetWf(j, "completed", Nobody)
     \/ /\ wf' = SetWf(j, "failed", Nobody)
        /\ UNCHANGED <<closed, plan>>
  /\ UNCHANGED <<design, row, approved, walk, saved, run, signing, stop>>

-----------------------------------------------------------------------------
(* People. *)

\* The verdict is recorded and the workflow resumed; the merge takes a while,
\* and only then is the feature completed.
Approve(f) ==
  /\ f \in Reviewing
  /\ approved' = [approved EXCEPT ![f] = TRUE]
  /\ wf' = SetWf(f, "active", Nobody)
  /\ WriteRow(f, "active")
  /\ signing' = signing \union {f}
  /\ UNCHANGED <<design, plan, closed, walk, saved, run, stop, trouble>>

Approved(f) ==
  /\ f \in signing
  /\ signing' = signing \ {f}
  /\ IF wf[f].status \in {"active", "completed"} /\ closed[f]
     THEN wf' = SetWf(f, "completed", Nobody) /\ WriteRow(f, "completed")
     ELSE UNCHANGED <<wf, row>>
  /\ UNCHANGED <<design, plan, closed, approved, walk, saved, run, stop, trouble>>

ApprovePlan ==
  /\ Architect \in Reviewing /\ closed[Architect]
  /\ wf' = SetWf(Architect, "active", Nobody)
  /\ IF ~Made /\ plan = "good" THEN CreateRecords /\ DesignIs("active") ELSE UNCHANGED <<design, row>>
  /\ UNCHANGED <<plan, closed, approved, walk, saved, run, signing, stop, trouble>>

\* The work is done again, while the workflow stays paused for the review.
RequestChanges(j) ==
  /\ j \in Reviewing /\ closed[j]
  /\ closed' = [closed EXCEPT ![j] = FALSE]
  /\ approved' = [f \in Features |-> approved[f] /\ f # j]
  /\ Trouble("click")
  /\ UNCHANGED <<design, plan, row, wf, walk, saved, run, signing, stop>>

Redone(j) ==
  /\ j \in Reviewing /\ ~closed[j]
  /\ closed' = Closed(j)
  /\ plan' = IF j = Architect THEN "good" ELSE plan
  /\ UNCHANGED <<design, row, wf, approved, walk, saved, run, signing, stop, trouble>>

\* The buttons of a workflow, and the sweep's own resumption of a system pause.
PauseWorkflow(j) ==
  /\ wf[j].status = "active"
  /\ wf' = SetWf(j, "paused", "user") /\ row' = PausedRows(row, {j})
  /\ Trouble("click")
  /\ UNCHANGED <<design, plan, closed, approved, walk, saved, run, signing, stop>>

ResumeWorkflow(j) ==
  /\ wf[j].status = "paused"
  /\ wf' = SetWf(j, "active", Nobody) /\ row' = ResumedRows(row, {j})
  /\ Trouble("click")
  /\ UNCHANGED <<design, plan, closed, approved, walk, saved, run, signing, stop>>

\* POST /stop: the event, and once the walk had its time the workflows.
Stop ==
  /\ walk.at # "off" /\ stop = "no"
  /\ stop' = "asked" /\ Trouble("stop")
  /\ UNCHANGED <<design, plan, row, wf, closed, approved, walk, saved, run, signing>>

StopWorkflows ==
  /\ stop = "asked"
  /\ stop' = "done"
  /\ PauseAll("user")
  /\ UNCHANGED <<design, plan, closed, approved, walk, saved, run, signing, trouble>>

\* Play, or the server's start after a crash: what people paused is resumed.
Start ==
  LET mine == {j \in Jobs : wf[j].by = "user"} IN
  /\ walk.at = "off" /\ stop # "asked"
  /\ stop' = "no"
  /\ walk' = [Off EXCEPT !.at = "scan", !.current = saved]
  /\ wf' = [j \in Jobs |-> IF j \in mine THEN [status |-> "active", by |-> Nobody] ELSE wf[j]]
  /\ row' = ResumedRows(row, mine)
  /\ UNCHANGED <<design, plan, closed, approved, saved, run, signing, trouble>>

-----------------------------------------------------------------------------
(* The sweep, a dashboard, and a crash. *)

\* _sync_stale_feature_statuses.
SyncRow(f) ==
  /\ wf[f].status = "completed" /\ row[f] \in {"pending", "active", "paused"}
  /\ WriteRow(f, "completed")
  /\ UNCHANGED <<design, plan, wf, closed, approved, walk, saved, run, signing, stop, trouble>>

\* _sync_stale_design_statuses, of a design that has records.
SyncDesign ==
  /\ design.status = "active" /\ Made /\ Unfinished = {}
  /\ DesignIs(DesignStatus(wf, row, closed))
  /\ UNCHANGED <<plan, row, wf, closed, approved, walk, saved, run, signing, stop, trouble>>

\* _recover_designs_stuck_mid_decomposition.
RecoverDesign ==
  /\ design.status \in {"processing", "decomposing"}
  /\ wf[Architect].status \notin {"active", "paused"}
  /\ design' = IF design.retries = MaxRetries THEN [design EXCEPT !.status = "failed"]
               ELSE [design EXCEPT !.status = "pending", !.retries = @ + 1]
  /\ UNCHANGED <<plan, row, wf, closed, approved, walk, saved, run, signing, stop, trouble>>

\* _pause_stale_completed_workflows_for_review.
PauseStale(f) ==
  /\ wf[f] = [status |-> "active", by |-> Nobody] /\ closed[f] /\ NeedsReview(f)
  /\ ForReview(f)
  /\ UNCHANGED <<design, plan, closed, approved, walk, saved, run, signing, stop, trouble>>

\* A dashboard's request derives the workflows, the features and the design
\* anew, each from what it has just written of the others.
Poll ==
  LET flow == [j \in Jobs |-> IF wf[j].status = "active" /\ closed[j]
                              THEN [wf[j] EXCEPT !.status = "completed"] ELSE wf[j]]
      rows == [f \in Features |-> IF Made THEN FeatureStatus(f, flow, row, closed) ELSE None]
  IN
  /\ Dashboard
  /\ wf' = flow /\ row' = rows
  /\ DesignIs(DesignStatus(flow, rows, closed))
  /\ UNCHANGED <<plan, closed, approved, walk, saved, run, signing, stop, trouble>>

Crash ==
  /\ Trouble("crash")
  /\ walk' = Off
  /\ run' = [j \in Jobs |-> Idle]
  /\ signing' = {}
  /\ stop' = IF stop = "asked" THEN "done" ELSE stop
  /\ UNCHANGED <<design, plan, row, wf, closed, approved, saved>>

-----------------------------------------------------------------------------
Walk == \/ AbandonCurrent \/ Pick \/ Phase0 \/ Resign \/ Harvest \/ Signoff
        \/ Dispatch \/ Collect \/ Aggregate \/ Persist \/ Shutdown

Thread(j) == Launch(j) \/ Read(j) \/ Decide(j)
FeatureThread(f) == Begin(f) \/ Thread(f) \/ Finish(f) \/ Wait(f) \/ Gate(f)

Click == \E j \in Jobs : RequestChanges(j) \/ PauseWorkflow(j) \/ ResumeWorkflow(j)

Next ==
  \/ Walk
  \/ Thread(Architect)
  \/ \E f \in Features : FeatureThread(f)
  \/ \E j \in Jobs : LaunchFails(j) \/ GivesUp(j) \/ CloseWork(j) \/ GoesWrong(j)
  \/ \E f \in Features : Approve(f) \/ Approved(f)
  \/ ApprovePlan \/ (\E j \in Jobs : Redone(j))
  \/ Click \/ Stop \/ StopWorkflows \/ Start
  \/ \E f \in Features : SyncRow(f) \/ PauseStale(f)
  \/ ForgetCurrent
  \/ SyncDesign \/ RecoverDesign \/ Poll \/ Crash

\* Threads run, agents come to an end, reviewers answer, the sweep goes round;
\* so does a dashboard, where there is one.  Nobody need press a button, but a
\* server that has died is started again.
Fairness ==
  /\ WF_vars(Walk) /\ WF_vars(Start /\ stop = "no") /\ WF_vars(Thread(Architect))
  /\ \A f \in Features : WF_vars(FeatureThread(f)) /\ WF_vars(SyncRow(f)) /\ WF_vars(PauseStale(f))
  /\ \A j \in Jobs : WF_vars(CloseWork(j)) /\ WF_vars(Redone(j))
  /\ \A f \in Features : WF_vars(Approve(f)) /\ WF_vars(Approved(f))
  /\ WF_vars(ApprovePlan) /\ WF_vars(StopWorkflows)
  /\ WF_vars(SyncDesign) /\ WF_vars(RecoverDesign) /\ WF_vars(Poll)

Spec == Init /\ [][Next]_vars /\ Fairness

-----------------------------------------------------------------------------
(* Properties. *)

\* The walk has paused a workflow on its way out, for a person to resume: one
\* it gave up, or one that had been approved since it last looked.
Suspended == \E j \in Jobs : wf[j] = [status |-> "paused", by |-> "system"]

\* A design of a project nobody stops comes to its outcome, and without a
\* failure or a crash that is every feature built.
DesignSettles ==
  <>[](trouble \subseteq {"fault", "crash"} =>
         \/ Suspended
         \/ design.status = "completed"
         \/ trouble # {} /\ design.status = "failed")

\* A feature is built on features that were approved.
BuiltOnApproved ==
  [][\A f \in Features :
       wf[f].status = None /\ wf'[f].status # None /\ ReviewMode /\ Cardinality(trouble) < 2 /\ "click" \notin trouble =>
         \A g \in DependsOn[f] : approved[g]]_vars
=============================================================================
