----------------------------- MODULE Arbitration -----------------------------
(***************************************************************************)
(* A phase that has spent its retries asks an arbiter, a one-shot agent    *)
(* that writes its decision into a file (arbitration.py).  Two paths act   *)
(* on it: the sweep and the request in which an agent reports (the gate).  *)
(* What tells either that an arbiter is at work is the claim on the row of *)
(* the phase; what keeps them from both acting on one decision is          *)
(* tasks.arbitration_resolved_at, taken.  Past Cap arbiters the phase is   *)
(* forced through, or a person is asked.                                   *)
(*                                                                         *)
(* tasks is the phase's task table in creation order.  place is where the  *)
(* pipeline's work is: in this phase, sent back before it, or on past it;  *)
(* what happens there, up to the phase's next task, is PhaseAdvance's.     *)
(*                                                                         *)
(* Not here: a restart between two commits, a workflow paused or resumed   *)
(* for another reason, a person's restart of a task, a budget reset.       *)
(***************************************************************************)
EXTENDS PhaseRow, Integers, Sequences, FiniteSets

CONSTANTS
  Cap,         \* MAX_ARBITRATIONS_PER_PHASE
  MaxTasks,    \* bound on ordinary tasks of the phase
  MaxBounces,  \* bound on gotos that find the phase's own bound spent
  MaxAsks,     \* bound on requests to a person
  MaxFaults    \* bound on failing arbiters, launches and commits

ASSUME Limits == Cap \in Nat \ {0} /\ MaxTasks \in Nat \ {0}
ASSUME Bounds == MaxBounces \in Nat /\ MaxAsks \in Nat /\ MaxFaults \in Nat

Actors == {"sweep", "gate"}
Choices == {"c", "s", "g"}

VARIABLES
  wf,      \* Workflow.status; the request its status_reason names, 0 if none
  row,     \* the phase's row; claim: free, held, or old (past its timeout)
  tasks,
  file,    \* the arbiter whose decision arbitration_result.json holds, or 0
  place,
  asks,    \* per request to a person: open, its answer, or closed
  job,     \* per actor: the call it is in the middle of
  bounces, faults

vars == <<wf, row, tasks, file, place, asks, job, bounces, faults>>

-----------------------------------------------------------------------------

Latest == Len(tasks)
Is(i, kind) == i \in DOMAIN tasks /\ tasks[i].kind = kind
Over(i) == tasks[i].state # "live"
Live == {i \in DOMAIN tasks : ~ Over(i)}
Arbiters == {i \in DOMAIN tasks : Is(i, "arbiter")}
LastOf(kind) == CHOOSE i \in 0..Latest : /\ i = 0 \/ Is(i, kind)
                                         /\ \A j \in i + 1..Latest : ~ Is(j, kind)

\* _phase_has_arbitration_in_flight.
InFlight == Is(Latest, "arbiter") /\ ~ Over(Latest)

\* A mutant: who has acted on it is not recorded.
ResolvableAgain == LET i == LastOf("arbiter") IN row.claim # "free" /\ i # 0 /\ Over(i)

\* What _maybe_resolve_arbitration finds to act on.
Resolvable ==
  LET i == LastOf("arbiter") IN
  row.claim # "free" /\ i # 0 /\ Over(i) /\ ~ tasks[i].taken

\* The mark by which an open request is found again.
Escalated == wf.status = "paused" /\ wf.marker # 0

\* A mutant: the phase is given up once more while a person thinks.
NeverAsked == FALSE

\* Its test at the head of _trigger_arbitration.
AlreadyAsked == Escalated

NewTask(kind) == [kind |-> kind, state |-> "live", taken |-> FALSE,
                  acted |-> 0, late |-> FALSE, broken |-> FALSE]

IdleJob == [at |-> "idle", arb |-> 0, own |-> FALSE, then |-> "idle"]
Goes(a, at) == job' = [job EXCEPT ![a].at = at]
Leaves(a)   == job' = [job EXCEPT ![a] = [IdleJob EXCEPT !.at = job[a].then]]

\* No other call has evaluated the phase and not yet committed what it makes of
\* it: assumed, the row is unclaimed for that moment.
Alone(a) == \A b \in Actors \ {a} : job[b].at \notin {"trigger", "give_up"}

\* An agent or a person takes longer than the calls under way: assumed too.
Settled == \A a \in Actors : job[a] = IdleJob

Fault == faults < MaxFaults /\ faults' = faults + 1

Init ==
  /\ wf = [status |-> "active", marker |-> 0]
  /\ row = [status |-> InProgress, claim |-> "free"]
  /\ tasks = <<NewTask("work")>>
  /\ file = 0 /\ place = "here" /\ asks = <<>>
  /\ job = [a \in Actors |-> IdleJob]
  /\ bounces = 0 /\ faults = 0

-----------------------------------------------------------------------------
(* From a finished phase to its arbiter. *)

\* The gate turns back at a task that failed, whatever its cycle.
GateReady ==
  /\ job["gate"].at = "ready" /\ Alone("gate")
  /\ IF row.claim # "free" \/ \E i \in DOMAIN tasks : tasks[i].state # "done"
     THEN Leaves("gate") /\ UNCHANGED row
     ELSE Goes("gate", "evaluate") /\ row' = [row EXCEPT !.claim = "held"]
  /\ UNCHANGED <<wf, tasks, file, place, asks, bounces, faults>>

\* Whether _advance_phases looks at the phase, and finds nobody at work on it.
SweepLooks ==
  /\ job["sweep"] = IdleJob /\ Alone("sweep")
  /\ (wf.status = "active" \/ Escalated)
  /\ row = [status |-> InProgress, claim |-> "free"] /\ Live = {}

\* A done arbiter that nobody resolved is not evaluated: see _maybe_resolve.
SweepComplete ==
  /\ SweepLooks /\ Is(Latest, "work")
  /\ row' = [row EXCEPT !.claim = "held"]
  /\ job' = [job EXCEPT !["sweep"] = [IdleJob EXCEPT !.at = "evaluate", !.then = "end"]]
  /\ UNCHANGED <<wf, tasks, file, place, asks, bounces, faults>>

\* _retry_failed_tasks_with_done: the failed arbiter of an unclaimed phase is
\* sent out again, or has spent its retries.
SweepRetry ==
  /\ SweepLooks /\ Is(Latest, "arbiter")
  /\ \/ /\ tasks[Latest].state = "failed"
        /\ tasks' = [tasks EXCEPT ![Latest].state = "live"]
        /\ UNCHANGED <<row, job>>
     \/ /\ tasks[Latest].state = "spent"
        /\ row' = [row EXCEPT !.claim = "held"]
        /\ job' = [job EXCEPT !["sweep"] = [IdleJob EXCEPT !.at = "trigger", !.own = TRUE,
                                                           !.then = "end"]]
        /\ UNCHANGED tasks
  /\ UNCHANGED <<wf, file, place, asks, bounces, faults>>

\* mark_phase_complete where the retry budget is spent.
Evaluate(a) ==
  /\ job[a].at = "evaluate"
  /\ IF row.status = Completed THEN Leaves(a) /\ UNCHANGED row
     ELSE Goes(a, "trigger") /\ row' = [status |-> InProgress, claim |-> "free"]
  /\ UNCHANGED <<wf, tasks, file, place, asks, bounces, faults>>

\* A goto back to the phase finds the bound of _create_phase_task spent.
Bounce(a) ==
  /\ job[a] = IdleJob /\ Settled /\ bounces < MaxBounces
  /\ wf.status = "active" /\ place # "here" /\ Live = {} /\ row.claim = "free"
  /\ row' = [status |-> Pending, claim |-> "held"]
  /\ job' = [job EXCEPT ![a] = [IdleJob EXCEPT !.at = "trigger", !.own = TRUE, !.then = "end"]]
  /\ place' = "here" /\ bounces' = bounces + 1
  /\ UNCHANGED <<wf, tasks, file, asks, faults>>

\* _trigger_arbitration up to its first commit.  Moving the row to in_progress
\* resets its claim, the caller's own included.
Trigger(a) ==
  LET last == LastOf("arbiter") IN
  /\ job[a].at = "trigger"
  /\ \/ /\ AlreadyAsked
        /\ Leaves(a) /\ UNCHANGED row
     \/ /\ ~ AlreadyAsked /\ Cardinality(Arbiters) < Cap
        /\ IF job[a].own \/ row.claim = "free"
           THEN /\ row' = IF row.status = InProgress THEN [row EXCEPT !.claim = "held"]
                          ELSE [status |-> InProgress, claim |-> "free"]
                /\ Goes(a, "insert")
           ELSE Leaves(a) /\ UNCHANGED row
     \/ /\ ~ AlreadyAsked /\ Cardinality(Arbiters) >= Cap
        /\ IF tasks[last].state = "done" /\ file # 0
           THEN job' = [job EXCEPT ![a].at = "act", ![a].arb = last]
           ELSE Goes(a, "give_up")
        /\ UNCHANGED row
  /\ UNCHANGED <<wf, tasks, file, place, asks, bounces, faults>>

FailWorkflow == [status |-> "failed", marker |-> 0]

Insert(a) ==
  /\ job[a].at = "insert"
  /\ tasks' = Append(tasks, NewTask("arbiter"))
  /\ job' = [job EXCEPT ![a].at = "launch", ![a].arb = Latest + 1]
  /\ UNCHANGED <<wf, row, file, place, asks, bounces, faults>>

\* A launch that fails ends the workflow.
Launch(a) ==
  /\ job[a].at = "launch"
  /\ \/ UNCHANGED <<wf, row, tasks, faults>>
     \/ /\ Fault
        /\ tasks' = [tasks EXCEPT ![job[a].arb].state = "failed"]
        /\ row' = [row EXCEPT !.status = Failed]
        /\ wf' = FailWorkflow
  /\ Leaves(a)
  /\ UNCHANGED <<file, place, asks, bounces>>

Closed == IF CanMove(row.status, Completed) THEN [row EXCEPT !.status = Completed] ELSE row

\* mark_phase_complete(force_action="continue"), to which the close of a row
\* that cannot be closed is no obstacle.
ForceOn ==
  /\ row' = Closed
  /\ place' = IF row.status = Completed \/ wf.status = "failed" THEN place ELSE "on"

\* A mutant: the marker is written and the request is not.
GiveUpSilently(a) ==
  /\ job[a].at = "give_up"
  /\ wf' = [status |-> "paused", marker |-> Len(asks) + 1]
  /\ Leaves(a)
  /\ UNCHANGED <<row, tasks, file, place, asks, bounces, faults>>

\* The cap is spent and no decision is left: what the phase produced passes by
\* now, or nobody is watching, or else a person decides.
GiveUp(a) ==
  /\ job[a].at = "give_up"
  /\ \/ ForceOn /\ UNCHANGED <<wf, asks>>
     \/ /\ Len(asks) < MaxAsks
        /\ asks' = Append(asks, "open")
        /\ wf' = [status |-> "paused", marker |-> Len(asks) + 1]
        /\ UNCHANGED <<row, place>>
  /\ Leaves(a)
  /\ UNCHANGED <<tasks, file, bounces, faults>>

\* A mutant: the claim is taken from the arbiter just sent out.
EndClears(a) ==
  /\ job[a].at = "end"
  /\ row' = [row EXCEPT !.claim = "free"]
  /\ Leaves(a)
  /\ UNCHANGED <<wf, tasks, file, place, asks, bounces, faults>>

\* The finally of the sweep's case, and of _create_phase_task.
End(a) ==
  /\ job[a].at = "end"
  /\ row' = IF InFlight THEN row ELSE [row EXCEPT !.claim = "free"]
  /\ Leaves(a)
  /\ UNCHANGED <<wf, tasks, file, place, asks, bounces, faults>>

-----------------------------------------------------------------------------
(* From the arbiter's report to what becomes of its decision. *)

\* _maybe_resolve_arbitration up to the commit of its claim.
Take(a) ==
  /\ Resolvable /\ Alone(a)
  /\ tasks' = [tasks EXCEPT ![LastOf("arbiter")].taken = TRUE]
  /\ job' = [job EXCEPT ![a] = [IdleJob EXCEPT !.at = "act", !.arb = LastOf("arbiter")]]

SweepResolve ==
  /\ job["sweep"] = IdleJob /\ wf.status = "active"
  /\ Take("sweep")
  /\ UNCHANGED <<wf, row, file, place, asks, bounces, faults>>

\* The request of the arbiter itself; whether the workflow is paused is not asked.
GateResolve ==
  /\ job["gate"].at = "look"
  /\ Take("gate") \/ (~ Resolvable /\ Leaves("gate") /\ UNCHANGED tasks)
  /\ UNCHANGED <<wf, row, file, place, asks, bounces, faults>>

\* What the decision is: a person's, or none, or what the file says.
Decisions(i) ==
  IF i = 0 THEN {"goto"}
  ELSE IF tasks[i].state # "done" \/ file = 0 THEN {"fail"}
  ELSE {"continue", "goto", "astray", "fail"}

\* _resolve_arbitration_outcome: the phase is closed as decided, and the
\* workflow's status_reason rewritten.  "astray" names no phase.
Outcome(d) ==
  IF row.status = Completed
  THEN wf' = [wf EXCEPT !.marker = 0] /\ UNCHANGED <<row, place>>
  ELSE /\ row' = IF d = "fail" THEN [row EXCEPT !.status = Failed] ELSE Closed
       /\ place' = CASE d = "continue" -> "on" [] d = "goto" -> "back" [] OTHER -> place
       /\ wf' = IF d \in {"fail", "astray"} THEN FailWorkflow ELSE [wf EXCEPT !.marker = 0]

\* Whose decision it is: the file's, which may be another arbiter's.
Author(i) == IF i # 0 /\ tasks[i].state = "done" /\ file # 0 THEN file ELSE i

Counted(i) ==
  IF i = 0 \/ row.status = Completed THEN tasks
  ELSE [tasks EXCEPT ![Author(i)].acted = IF @ = 2 THEN 2 ELSE @ + 1]

Act(a) ==
  LET i == job[a].arb IN
  /\ job[a].at = "act"
  /\ \E d \in Decisions(i) : Outcome(d)
  /\ tasks' = Counted(i)
  /\ Goes(a, "finish")
  /\ UNCHANGED <<file, asks, bounces, faults>>

\* mark_phase_complete fails: it answers "arbitrate", which nobody hears.
ActFails(a) ==
  LET i == job[a].arb IN
  /\ job[a].at = "act" /\ i # 0 /\ Fault
  /\ tasks' = [tasks EXCEPT ![Author(i)].broken = TRUE]
  /\ wf' = [wf EXCEPT !.marker = 0]
  /\ Goes(a, "finish")
  /\ UNCHANGED <<row, file, place, asks, bounces>>

\* An exception after it: both claims are released, the file stays.
ActThrows(a) ==
  LET i == job[a].arb IN
  /\ job[a].at = "act" /\ i # 0 /\ Fault
  /\ \E d \in Decisions(i) : Outcome(d)
  /\ tasks' = [Counted(i) EXCEPT ![Author(i)].broken = TRUE, ![i].broken = TRUE]
  /\ job' = [job EXCEPT ![a].at = "throw"]
  /\ UNCHANGED <<file, asks, bounces>>

Throw(a) ==
  LET i == job[a].arb IN
  /\ job[a].at = "throw"
  /\ row' = [row EXCEPT !.claim = "free"]
  /\ tasks' = IF job[a].then = "idle" THEN [tasks EXCEPT ![i].taken = FALSE] ELSE tasks
  /\ Leaves(a)
  /\ UNCHANGED <<wf, file, place, asks, bounces, faults>>

\* The next task is created: the finally frees the phase, the file is consumed.
Finish(a) ==
  LET i == job[a].arb IN
  /\ job[a].at = "finish"
  /\ row' = [row EXCEPT !.claim = "free"]
  /\ file' = IF i = 0 \/ tasks[i].state # "done" THEN file ELSE 0
  /\ Leaves(a)
  /\ UNCHANGED <<wf, tasks, place, asks, bounces, faults>>

-----------------------------------------------------------------------------
(* A person's answer, at the sweep. *)

SweepAnswer ==
  LET k == wf.marker IN
  /\ job["sweep"] = IdleJob /\ Escalated /\ asks[k] \in Choices
  /\ asks' = [asks EXCEPT ![k] = "closed"]
  /\ wf' = IF asks[k] = "s" THEN FailWorkflow ELSE [status |-> "active", marker |-> 0]
  /\ job' = [job EXCEPT !["sweep"].at =
               CASE asks[k] = "s" -> "idle" [] asks[k] = "c" -> "force" [] asks[k] = "g" -> "act"]
  /\ UNCHANGED <<row, tasks, file, place, bounces, faults>>

SweepForce ==
  /\ job["sweep"].at = "force"
  /\ ForceOn
  /\ Leaves("sweep")
  /\ UNCHANGED <<wf, tasks, file, asks, bounces, faults>>

-----------------------------------------------------------------------------
(* The claim's timeout: it spares an arbiter at work, whatever its age. *)

Age ==
  /\ row.claim = "held" /\ ~ Resolvable /\ \A a \in Actors : job[a] = IdleJob
  /\ row' = [row EXCEPT !.claim = "old"]
  /\ tasks' = IF InFlight THEN [tasks EXCEPT ![Latest].late = TRUE] ELSE tasks
  /\ UNCHANGED <<wf, file, place, asks, job, bounces, faults>>

Release ==
  /\ job["sweep"] = IdleJob /\ (wf.status = "active" \/ Escalated)
  /\ row.claim = "old" /\ ~ InFlight
  /\ row' = [status |-> InProgress, claim |-> "free"]
  /\ UNCHANGED <<wf, tasks, file, place, asks, job, bounces, faults>>

-----------------------------------------------------------------------------
(* Agents and people, and the rest of the pipeline. *)

Requests(at) == job' = IF job["gate"] = IdleJob THEN [job EXCEPT !["gate"].at = at] ELSE job

WorkReports ==
  /\ wf.status # "failed" /\ Settled
  /\ \E i \in Live :
       /\ Is(i, "work")
       /\ tasks' = [tasks EXCEPT ![i].state = "done"]
  /\ Requests("ready")
  /\ UNCHANGED <<wf, row, file, place, asks, bounces, faults>>

ArbiterReports ==
  /\ wf.status # "failed" /\ Settled
  /\ \E i \in Live :
       /\ Is(i, "arbiter")
       /\ \/ file' = i /\ UNCHANGED faults
          \/ Fault /\ UNCHANGED file
       /\ tasks' = [tasks EXCEPT ![i].state = "done"]
  /\ Requests("look")
  /\ UNCHANGED <<wf, row, place, asks, bounces>>

ArbiterFails ==
  /\ wf.status # "failed" /\ Settled /\ Fault
  /\ \E i \in Live, state \in {"failed", "spent"} :
       Is(i, "arbiter") /\ tasks' = [tasks EXCEPT ![i].state = state]
  /\ UNCHANGED <<wf, row, file, place, asks, job, bounces>>

Answer ==
  /\ Settled
  /\ \E k \in DOMAIN asks : /\ asks[k] = "open"
                            /\ \E c \in Choices : asks' = [asks EXCEPT ![k] = c]
  /\ UNCHANGED <<wf, row, tasks, file, place, job, bounces, faults>>

\* The pipeline is back at the phase, which gets a task of its own.
Return ==
  /\ wf.status = "active" /\ place # "here" /\ Settled /\ Live = {} /\ row.claim = "free"
  /\ Latest - Cardinality(Arbiters) < MaxTasks
  /\ tasks' = Append(tasks, NewTask("work"))
  /\ row' = [status |-> InProgress, claim |-> "free"]
  /\ place' = "here"
  /\ UNCHANGED <<wf, file, asks, job, bounces, faults>>

-----------------------------------------------------------------------------

Step(a) ==
  \/ Evaluate(a) \/ Trigger(a) \/ Insert(a) \/ Launch(a) \/ GiveUp(a) \/ End(a)
  \/ Act(a) \/ ActFails(a) \/ ActThrows(a) \/ Throw(a) \/ Finish(a)

Sweep == SweepComplete \/ SweepRetry \/ SweepResolve \/ SweepAnswer \/ SweepForce \/ Release

Next ==
  \/ \E a \in Actors : Step(a) \/ Bounce(a)
  \/ Sweep \/ GateReady \/ GateResolve
  \/ WorkReports \/ ArbiterReports \/ ArbiterFails \/ Answer \/ Return \/ Age

\* A call in the middle of its work goes on; the sweep keeps looking.
Fairness ==
  /\ \A a \in Actors : WF_vars(Step(a))
  /\ WF_vars(GateReady) /\ WF_vars(GateResolve)
  /\ WF_vars(SweepResolve) /\ WF_vars(SweepAnswer) /\ WF_vars(SweepForce)

Spec == Init /\ [][Next]_vars /\ Fairness

-----------------------------------------------------------------------------

TaskRecord == [kind : {"work", "arbiter"}, state : {"live", "done", "failed", "spent"},
               taken : BOOLEAN, acted : 0..2, late : BOOLEAN, broken : BOOLEAN]

TypeOK ==
  /\ wf \in [status : {"active", "paused", "failed"}, marker : 0..Len(asks)]
  /\ row \in [status : PhaseStatus, claim : {"free", "held", "old"}]
  /\ tasks \in Seq(TaskRecord)
  /\ file \in {0} \cup Arbiters
  /\ place \in {"here", "back", "on"}
  /\ asks \in Seq(Choices \cup {"open", "closed"})
  /\ \A a \in Actors : job[a].arb \in {0} \cup Arbiters

\* No arbiter's decision was cut short by an error (the except of
\* _maybe_resolve_arbitration, and the one inside mark_phase_complete).
Intact == \A i \in Arbiters : ~ tasks[i].broken

\* Both paths see the same finished arbiter and one of them acts: no decision
\* moves the phase twice, whoever reads it, whichever round finds it in the
\* file (_claim_arbitration_resolution, _consume_arbitration_result), and
\* though it comes after the claim's timeout.
DecidedOnce == Intact => \A i \in Arbiters : tasks[i].acted =< 1

\* While a person has been asked, nothing but the answer moves the phase, ends
\* the workflow, sends another arbiter or asks anew: the sweep, which goes on
\* looking at the phase, would otherwise orphan the request every tick
\* (_trigger_arbitration's re-entry guard).
PersonDecides ==
  [][Escalated /\ asks[wf.marker] = "open" /\ Intact =>
       /\ wf'.marker = wf.marker /\ place' = place /\ row'.status = row.status
       /\ Arbiters' = Arbiters]_vars

\* What an arbiter decided is acted on, though nobody who clears the claim it is
\* found by knows of it (_phase_has_arbitration_in_flight): the work moves or
\* the workflow fails.  Excepted are one that outlasts the claim's timeout, and
\* one sent by a bounce, whose claim Trigger itself resets.
Heard ==
  (/\ wf.status = "active" /\ Is(Latest, "arbiter") /\ tasks[Latest].state = "done"
   /\ ~ tasks[Latest].taken /\ ~ tasks[Latest].late /\ (bounces = 0 \/ Resolvable))
    ~> (place # "here" \/ wf.status = "failed" \/ ~ Intact)
=============================================================================
