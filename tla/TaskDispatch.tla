---------------------------- MODULE TaskDispatch ----------------------------
(***************************************************************************)
(* From a task to an agent at work on it.  A task is queued when all the   *)
(* agents allowed are busy; the queue is processed whenever an agent goes, *)
(* and once a minute.  Each pass takes a task off the queue, prepares it   *)
(* for seconds, launches an agent for up to a minute and records it last;  *)
(* meanwhile other passes run, people pause and restart tasks, the agent   *)
(* reports, and the server may die.                                        *)
(*                                                                         *)
(* The tasks are those of one project, the models one limited combination  *)
(* of CLI and model without a fallback, and those without a limit.         *)
(***************************************************************************)
EXTENDS Naturals, FiniteSets

CONSTANTS
  Tasks, PhaseOf,  \* the tasks, and Task.phase_id of each
  Urgent,          \* the tasks of high priority
  Limited,         \* the tasks whose phase names the limited model
  Agents, Workers, \* rows and coroutines, as many as a run may need at once
  Capacity,        \* max_concurrent_agents
  Limit,           \* cli_model_concurrency_limits of the limited model
  MaxClicks, MaxFaults, MaxCrashes \* bounds of a run

ASSUME DispatchAssumption ==
  /\ Urgent \subseteq Tasks /\ Limited \subseteq Tasks
  /\ IsFiniteSet(Tasks) /\ IsFiniteSet(Agents) /\ IsFiniteSet(Workers)
  /\ Agents \subseteq Nat \ {0} /\ Workers \subseteq Nat
  /\ Capacity \in Nat \ {0} /\ Limit \in Nat \ {0}
  /\ MaxClicks \in Nat /\ MaxFaults \in Nat /\ MaxCrashes \in Nat

VARIABLES
  task,      \* Task: status, assigned_agent_id, started_at set, and whether
             \* queued_at is further back than stranded_task_grace_seconds
  line,      \* how late the queued_at of each task is among them, 0 if it has none
  agent,     \* Agent: status, current_task_id, cli_model known; its tmux
             \* session, and whether its termination has been requested
  work,      \* the dispatches under way in the server's memory
  called,    \* an agent has gone and process_queue is to be called for it
  reserved,  \* QueueService._pending_reservations of the limited model
  spent,     \* clicks, faults and crashes so far
  opened     \* the tasks that were taken up again after they were over or
             \* paused: what has happened, and nothing the program keeps

program == <<task, line, agent, work, called, reserved, spent>>
vars    == <<program, opened>>

None     == "none"
Terminal == {"done", "failed"}
Taken    == {"pending", "assigned", "in_progress"}
Nobody   == 0
Passes   == {"loop", "call"}  \* who processes the queue: background_queue_processor, or an agent's end
Gone     == [status |-> "terminated", task |-> None, model |-> FALSE,
             session |-> FALSE, leaving |-> FALSE]
Idle     == [at |-> "idle", task |-> None, agent |-> Nobody, kind |-> None, slot |-> FALSE]

TypeOK ==
  /\ task \in [Tasks -> [status : Taken \union Terminal \union {None, "queued", "blocked"},
                         agent : Agents \union {Nobody}, started : BOOLEAN, old : BOOLEAN]]
  /\ line \in [Tasks -> 0..Cardinality(Tasks)]
  /\ \A t, u \in Tasks : line[t] = line[u] => line[t] = 0 \/ t = u
  /\ agent \in [Agents -> [status : {"idle", "working", "terminated"},
                           task : Tasks \union {None}, model : BOOLEAN,
                           session : BOOLEAN, leaving : BOOLEAN]]
  /\ work \in [Workers -> [at : {"idle", "selected", "enrich", "prep", "launch", "check", "mark"},
                           task : Tasks \union {None}, agent : Agents \union {Nobody},
                           kind : {None, "create", "restart"} \union Passes, slot : BOOLEAN]]
  /\ called \in BOOLEAN
  /\ reserved \in 0..Limit
  /\ spent \in [clicks : 0..MaxClicks, faults : 0..MaxFaults, crashes : 0..MaxCrashes]
  /\ opened \subseteq Tasks

Init ==
  /\ task = [t \in Tasks |-> [status |-> None, agent |-> Nobody, started |-> FALSE, old |-> FALSE]]
  /\ line = [t \in Tasks |-> 0]
  /\ agent = [a \in Agents |-> Gone]
  /\ work = [d \in Workers |-> Idle]
  /\ called = FALSE
  /\ reserved = 0
  /\ spent = [clicks |-> 0, faults |-> 0, crashes |-> 0]
  /\ opened = {}

-----------------------------------------------------------------------------
(* What the steps are made of. *)

Live == {a \in Agents : agent[a].status \in {"idle", "working"}}
OnModel == {a \in Live : agent[a].model /\ agent[a].task \in Limited}

\* Its CLI is up and it has its prompt.
Prompted(a) == agent[a].session /\ \A d \in Workers : ~(work[d].at = "check" /\ work[d].agent = a)

-----------------------------------------------------------------------------
(* Mutants of the code below. *)

\* Rows are counted, dispatches that have no row yet are not.
SaturatedByRows(t) == t \in Limited /\ Cardinality(OnModel) >= Limit

\* The slot is given back whether or not this attempt had reserved one.
ReleaseAlways(d) == IF work[d].task \in Limited THEN reserved - 1 ELSE reserved

\* Whatever the agent has reported by now is overwritten.
MarkedAlways(row, a, kind) ==
  [row EXCEPT !.agent = a, !.started = TRUE,
              !.status = IF kind \in Passes THEN "in_progress" ELSE "assigned"]

\* The agents that are starting up are not seen.
WorkingOn(t) == {a \in Live : agent[a].task = t /\ agent[a].status = "working"}

\* The sweep looks for a task stranded with an agent.
StrandedHeld(t) ==
  /\ task[t].status = "assigned" /\ task[t].agent # Nobody
  /\ ~task[t].started /\ task[t].old
  /\ task' = [task EXCEPT ![t].status = "queued"]
  /\ UNCHANGED <<line, agent, work, called, reserved, spent>>

-----------------------------------------------------------------------------
(* The guards of a dispatch, and what ends it. *)

LiveOn(t) == {a \in Live : agent[a].task = t}
AtCapacity == Cardinality(Live) >= Capacity
Saturated(t) == t \in Limited /\ Cardinality(OnModel) + reserved >= Limit

Unlocked == \A d \in Workers : work[d].at # "selected"
Free(d)  == work[d].at = "idle" /\ \A e \in Workers : e < d => work[e].at # "idle"

\* A row nothing refers to any more stands for the row of a new agent.
Unused == {a \in Agents : /\ agent[a].status = "terminated"
                          /\ \A t \in Tasks : task[t].agent # a
                          /\ \A d \in Workers : work[d].agent # a}

Sooner(t, u) ==
  \/ t \in Urgent /\ u \notin Urgent
  \/ /\ t \in Urgent <=> u \in Urgent
     /\ 0 < line[t] /\ line[t] < line[u]

\* get_next_queued_task passes over what is saturated.
NextQueued ==
  LET ready == {t \in Tasks : task[t].status = "queued" /\ ~Saturated(t)}
  IN  {t \in ready : \A u \in ready \ {t} : Sooner(t, u)}

Enqueued(rows, t) == [rows EXCEPT ![t].status = "queued", ![t].old = FALSE]

\* Its queued_at is the latest, and those that were later are one place sooner.
ToEnd(t) == [u \in Tasks |-> IF u = t THEN Cardinality(Tasks)
                             ELSE IF line[u] > line[t] THEN line[u] - 1 ELSE line[u]]

\* terminate_agent: what the agent held is free to be dispatched again.
Strayed(rows, a) ==
  [t \in Tasks |-> IF rows[t].agent = a /\ rows[t].status \in Taken
                   THEN [rows[t] EXCEPT !.status = "pending", !.agent = Nobody]
                   ELSE rows[t]]

Reserve(t)  == IF t \in Limited THEN reserved + 1 ELSE reserved
Release(d)  == IF work[d].slot THEN reserved - 1 ELSE reserved
Spend(what) == spent' = [spent EXCEPT ![what] = @ + 1]

\* The attempt ends without an agent; rows is how it has left the tasks.
Retreat(d, rows) ==
  LET t == work[d].task IN
  /\ work' = [work EXCEPT ![d] = Idle]
  /\ reserved' = Release(d)
  /\ IF work[d].kind \in Passes
     THEN task' = Enqueued(rows, t) /\ line' = ToEnd(t)
     ELSE task' = rows /\ line' = line

-----------------------------------------------------------------------------
(* A dispatch, step by step. *)

Submit(d, t) ==
  /\ task[t].status = None /\ Free(d)
  /\ task' = [task EXCEPT ![t].status = "pending"]
  /\ work' = [work EXCEPT ![d] = [Idle EXCEPT !.at = "enrich", !.task = t, !.kind = "create"]]
  /\ UNCHANGED <<line, agent, called, reserved, spent>>

\* A task created or restarted is queued if there is no room for it now.
Enter(d) ==
  LET t == work[d].task IN
  /\ work[d].at = "enrich"
  /\ IF AtCapacity \/ Saturated(t)
     THEN /\ task' = Enqueued(task, t) /\ line' = ToEnd(t)
          /\ work' = [work EXCEPT ![d] = Idle]
          /\ UNCHANGED <<agent, called, reserved, spent>>
     ELSE /\ work' = [work EXCEPT ![d].at = "prep", ![d].slot = t \in Limited]
          /\ reserved' = Reserve(t)
          /\ UNCHANGED <<task, line, agent, called, spent>>

\* claim_next_queued_task chooses first and takes the task off the queue
\* second, under a lock that not every writer of Task.status takes.  The loop
\* waits for its pass to end; the passes that are called do not.
Select(d) ==
  /\ Free(d) /\ Unlocked
  /\ \E kind \in Passes :
       /\ IF kind = "call" THEN called ELSE \A e \in Workers : work[e].kind # "loop"
       /\ called' = (called /\ kind # "call")
       /\ \/ /\ AtCapacity \/ NextQueued = {}
             /\ UNCHANGED <<work, reserved>>
          \/ /\ ~AtCapacity
             /\ \E t \in NextQueued :
                  /\ work' = [work EXCEPT ![d] = [Idle EXCEPT !.at = "selected", !.task = t,
                                                  !.kind = kind, !.slot = t \in Limited]]
                  /\ reserved' = Reserve(t)
  /\ UNCHANGED <<task, line, agent, spent>>

Dequeue(d) ==
  LET t == work[d].task IN
  /\ work[d].at = "selected"
  /\ IF task[t].status = "queued"
     THEN /\ task' = [task EXCEPT ![t].status = "assigned"]
          /\ work' = [work EXCEPT ![d].at = "prep"]
     ELSE /\ work' = [work EXCEPT ![d] = Idle]
          /\ UNCHANGED task
  /\ UNCHANGED <<line, agent, called, reserved, spent>>

\* Enrichment or the gathering of the context raises.
PrepFails(d) ==
  LET t == work[d].task IN
  /\ work[d].at = "prep" \/ work[d].at = "enrich"
  /\ spent.faults < MaxFaults
  /\ Retreat(d, IF work[d].kind = "create" THEN [task EXCEPT ![t].status = "failed"] ELSE task)
  /\ Spend("faults")
  /\ UNCHANGED <<agent, called>>

\* create_agent_for_task up to the first row of the agent: one already at
\* work on the task is taken for it, and one task of a phase excludes another.
Prepared(d) ==
  LET t == work[d].task
      sibling == {u \in Tasks \ {t} : PhaseOf[u] = PhaseOf[t] /\ task[u].status \in Taken}
  IN
  /\ work[d].at = "prep"
  /\ \/ /\ LiveOn(t) # {}
        /\ \E a \in LiveOn(t) :
             work' = [work EXCEPT ![d].at = "mark", ![d].agent = a, ![d].slot = FALSE]
        /\ reserved' = Release(d)
        /\ UNCHANGED <<task, line, agent>>
     \/ /\ LiveOn(t) = {} /\ sibling # {}
        /\ Retreat(d, task)
        /\ UNCHANGED agent
     \/ /\ LiveOn(t) = {} /\ sibling = {} /\ Unused # {}
        /\ LET a == CHOOSE a \in Unused : \A b \in Unused : a <= b IN
           /\ agent' = [agent EXCEPT ![a] = [Gone EXCEPT !.status = "idle", !.task = t]]
           /\ work' = [work EXCEPT ![d].at = "launch", ![d].agent = a]
        /\ UNCHANGED <<task, line, reserved>>
  /\ UNCHANGED <<called, spent>>

\* The row is merged as a working agent's, whatever has become of it.
Launched(d) ==
  LET t == work[d].task  a == work[d].agent IN
  /\ work[d].at = "launch"
  /\ agent' = [agent EXCEPT ![a] = [@ EXCEPT !.status = "working", !.task = t,
                                             !.model = TRUE, !.session = TRUE]]
  /\ work' = [work EXCEPT ![d].at = "check"]
  /\ UNCHANGED <<task, line, called, reserved, spent>>

LaunchFails(d) ==
  LET t == work[d].task  a == work[d].agent IN
  /\ work[d].at \in {"launch", "check"}
  /\ spent.faults < MaxFaults
  /\ agent' = [agent EXCEPT ![a] = Gone]
  /\ Retreat(d, [Strayed(task, a) EXCEPT ![t].status = "failed"])
  /\ Spend("faults")
  /\ UNCHANGED called

\* The CLI is up.  Unless the launch is pointless by now, the agent gets its
\* prompt; the caller is told the same either way.
Check(d) ==
  LET t == work[d].task  a == work[d].agent
      pointless == \/ agent[a].status = "terminated"
                   \/ task[t].status \in Terminal
                   \/ task[t].agent \notin {a, Nobody} /\ task[t].agent \in Live
  IN
  /\ work[d].at = "check"
  /\ agent' = IF pointless THEN [agent EXCEPT ![a].session = FALSE] ELSE agent
  /\ work' = [work EXCEPT ![d].at = "mark", ![d].slot = FALSE]
  /\ reserved' = Release(d)
  /\ UNCHANGED <<task, line, called, spent>>

\* mark_assigned, with the status its caller passes.
Marked(row, a, kind) ==
  IF row.status \in Terminal THEN row
  ELSE [row EXCEPT !.agent = a, !.started = TRUE,
                   !.status = IF kind \in Passes THEN "in_progress" ELSE "assigned"]

Mark(d) ==
  LET t == work[d].task IN
  /\ work[d].at = "mark"
  /\ task' = [task EXCEPT ![t] = Marked(@, work[d].agent, work[d].kind)]
  /\ work' = [work EXCEPT ![d] = Idle]
  /\ UNCHANGED <<line, agent, called, reserved, spent>>

-----------------------------------------------------------------------------
(* The agents. *)

\* update_task_status, from an agent that has had its prompt.
Report(a) ==
  LET t == agent[a].task IN
  /\ Prompted(a)
  /\ task[t].status \notin Terminal
  /\ \E outcome \in Terminal : task' = [task EXCEPT ![t].status = outcome]
  /\ agent' = [agent EXCEPT ![a].leaving = TRUE]
  /\ UNCHANGED <<line, work, called, reserved, spent>>

\* Its termination was requested, or the monitor finds its task over.
Leave(a) ==
  /\ a \in Live
  /\ agent[a].leaving \/ task[agent[a].task].status \in Terminal
  /\ agent' = [agent EXCEPT ![a] = Gone]
  /\ task' = Strayed(task, a)
  /\ called' = (called \/ agent[a].leaving)
  /\ UNCHANGED <<line, work, reserved, spent>>

\* An agent that shows no life some minutes after its launch.
NeverStarted(a) ==
  LET t == agent[a].task IN
  /\ agent[a].status = "working" /\ ~agent[a].session
  /\ \A d \in Workers : work[d].agent # a
  /\ agent' = [agent EXCEPT ![a] = Gone]
  /\ LET rows == Strayed(task, a) IN
     task' = IF rows[t].status \in {"assigned", "in_progress"}
             THEN [rows EXCEPT ![t].status = "pending", ![t].agent = Nobody] ELSE rows
  /\ UNCHANGED <<line, work, called, reserved, spent>>

-----------------------------------------------------------------------------
(* People. *)

PauseTask(t) ==
  LET a == task[t].agent IN
  /\ \/ task[t].status \in Taken
     \/ task[t].status = "queued" /\ Unlocked
  /\ task' = [task EXCEPT ![t].status = "blocked",
                          ![t].agent = IF task[t].status = "queued" THEN a ELSE Nobody]
  /\ agent' = IF a \in Live THEN [agent EXCEPT ![a].leaving = TRUE] ELSE agent
  /\ Spend("clicks")
  /\ UNCHANGED <<line, work, called, reserved>>

CancelTask(t) ==
  /\ \/ task[t].status = "pending"
     \/ task[t].status = "queued" /\ Unlocked
  /\ task' = [task EXCEPT ![t].status = "failed"]
  /\ Spend("clicks")
  /\ UNCHANGED <<line, agent, work, called, reserved>>

RestartTask(t) ==
  /\ task[t].status \in Terminal \union {"blocked"}
  /\ task' = [task EXCEPT ![t] = [@ EXCEPT !.status = "pending", !.agent = Nobody, !.started = FALSE]]
  /\ \E d \in Workers :
       /\ Free(d)
       /\ work' = [work EXCEPT ![d] = [Idle EXCEPT !.at = "enrich", !.task = t, !.kind = "restart"]]
  /\ Spend("clicks")
  /\ UNCHANGED <<line, agent, called, reserved>>

Click == /\ spent.clicks < MaxClicks
         /\ \E t \in Tasks : PauseTask(t) \/ CancelTask(t) \/ RestartTask(t)

-----------------------------------------------------------------------------
(* The orchestrator's sweep, and the passing of time. *)

\* Case 1 of _clean_stale_assigned_tasks.
Stale(t) ==
  /\ task[t].status \in Taken \union {"queued", "blocked"}
  /\ task[t].agent \in Agents \ Live
  /\ task' = [task EXCEPT ![t].status = "failed"]
  /\ UNCHANGED <<line, agent, work, called, reserved, spent>>

\* Case 3: assigned, but to nobody, and for too long.
Stranded(t) ==
  /\ task[t].status = "assigned" /\ task[t].agent = Nobody
  /\ ~task[t].started /\ task[t].old
  /\ task' = [task EXCEPT ![t].status = "queued"]
  /\ UNCHANGED <<line, agent, work, called, reserved, spent>>

\* The phase gives up a task nobody took and makes itself a new one.
GivenUp(t) ==
  /\ \/ task[t].status = "pending" /\ task[t].agent \notin Live
     \/ task[t].status = "queued" /\ task[t].old
  /\ task' = [task EXCEPT ![t].status = "failed"]
  /\ UNCHANGED <<line, agent, work, called, reserved, spent>>

\* A task may be in the queue for as long as the agents are busy.  No dispatch
\* takes as long as stranded_task_grace_seconds.
Ages(t) ==
  /\ ~task[t].old
  /\ \/ task[t].status = "queued"
     \/ /\ task[t].status = "assigned" /\ task[t].agent = Nobody
        /\ \A d \in Workers : work[d].task # t
  /\ task' = [task EXCEPT ![t].old = TRUE]
  /\ UNCHANGED <<line, agent, work, called, reserved, spent>>

\* The server dies.  The next one, before it serves anybody, gives every row
\* without a session one; cli_model stays as it was.
Crash ==
  /\ spent.crashes < MaxCrashes
  /\ work' = [d \in Workers |-> Idle]
  /\ reserved' = 0 /\ called' = FALSE
  /\ agent' = [a \in Agents |->
                 IF a \in Live /\ ~agent[a].session /\ task[agent[a].task].status \in Taken \union {"queued"}
                 THEN [agent[a] EXCEPT !.status = "working", !.session = TRUE]
                 ELSE agent[a]]
  /\ Spend("crashes")
  /\ UNCHANGED <<task, line>>

Step(d) ==
  \/ Enter(d) \/ Select(d) \/ Dequeue(d) \/ Prepared(d) \/ Launched(d) \/ Check(d) \/ Mark(d)

Sweep(t) == Stale(t) \/ Stranded(t) \/ GivenUp(t)

Settled(row) == row.status \in Terminal \union {"blocked"}

Acts ==
  \/ \E d \in Workers : Step(d) \/ PrepFails(d) \/ LaunchFails(d)
  \/ \E d \in Workers, t \in Tasks : Submit(d, t)
  \/ \E a \in Agents : Report(a) \/ Leave(a) \/ NeverStarted(a)
  \/ Click
  \/ \E t \in Tasks : Sweep(t) \/ Ages(t)
  \/ Crash

Next == /\ Acts
        /\ opened' = opened \union {t \in Tasks : Settled(task[t]) /\ ~Settled(task'[t])}

\* The coroutines run, the agents come to an end, and the loops go round.
Fairness ==
  /\ \A d \in Workers : WF_program(Step(d))
  /\ \A a \in Agents : WF_program(Report(a)) /\ WF_program(Leave(a)) /\ WF_program(NeverStarted(a))
  /\ \A t \in Tasks : WF_program(Sweep(t)) /\ WF_program(Ages(t))

Spec == Init /\ [][Next]_vars /\ Fairness

-----------------------------------------------------------------------------
(* Properties. *)

\* No task under way has two agents that were given its prompt, unless it had
\* been over or paused before: whoever dispatches a task is given the agent that
\* is there (_check_duplicate_active_agent).  A task that is opened again may
\* have two, though a launch that was overtaken ends before the prompt
\* (_check_termination_race): Launched brings back an agent that was terminated
\* before, which another launch that has no record yet does not see.
OneAgent ==
  \A t \in Tasks \ opened : ~Settled(task[t]) =>
    Cardinality({a \in Agents : Prompted(a) /\ agent[a].task = t}) <= 1

\* The limited model never has more sessions than it has room for, though the
\* count of rows lags behind the reservations (try_reserve_cli_model_slot).
\* A restart of the server forgets which model a half-launched agent is on.
SlotsKept ==
  spent.crashes = 0 =>
    Cardinality({a \in Agents : agent[a].session /\ agent[a].task \in Limited}) <= Limit

\* What a coroutine that has reserved a slot and gone leaves behind.
Leaked == reserved > Cardinality({d \in Workers : work[d].slot})

\* What an agent has reported done is not undone by the dispatch that launched
\* it (mark_assigned): only by a person, or by another attempt that fails.
ReportKept ==
  [][\A t \in Tasks :
       task[t].status = "done" /\ task'[t].status # "done" =>
         \/ spent'.clicks > spent.clicks
         \/ spent'.faults > spent.faults
         \/ \E d \in Workers : work[d].at \in {"enrich", "prep"} /\ work[d].task = t /\ work'[d] = Idle]_vars

\* The sweep takes a task that was ever dispatched for one that is under way.
Lost(t)   == task[t].status = "assigned" /\ task[t].agent = Nobody /\ task[t].started

\* A task that waits in the queue, or was taken off it by a server that died,
\* is worked on in the end, or given up or paused in the open, unless a slot
\* was lost for good, or the task had been dispatched before when the server
\* died (case 3 of _clean_stale_assigned_tasks).
Waits(t)  == \/ task[t].status = "queued"
             \/ task[t].status = "assigned" /\ task[t].agent = Nobody
Served(t) == \/ task[t].status \in Terminal \union {"blocked", "pending"}
             \/ task[t].agent \in Live
TaskServed == \A t \in Tasks : Waits(t) ~> Served(t) \/ Leaked \/ Lost(t)
=============================================================================
