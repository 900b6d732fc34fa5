--------------------------- MODULE AgentRecovery ---------------------------
(***************************************************************************)
(* One task, the agents that are put to work on it, and who takes it away  *)
(* from them.  The monitor goes round the agents it saw at the start of    *)
(* its cycle and recovers those in trouble, one after another, by nudging, *)
(* relaunching or ending them; a request handler ends those that have      *)
(* reported; the sweep of the workflow gives up what nobody works on and   *)
(* launches another agent.  All three read a row, await something for a    *)
(* quarter of a minute or more, and write.                                 *)
(***************************************************************************)
EXTENDS Naturals, FiniteSets

CONSTANTS
  Agents,       \* the rows a run may need at once, 1 .. n
  Troubles,     \* what may go wrong in a run, each once
  MaxTroubles,  \* and how much of it: with the agents, and with the rest
  MaxRetries    \* the retries of a failed task

ASSUME RecoveryAssumption ==
  /\ Agents \subseteq Nat \ {0} /\ 1 \in Agents
  /\ MaxTroubles \in Nat /\ MaxRetries \in Nat

VARIABLES
  task,      \* Task: status, assigned_agent_id, retry_count, and whether its
             \* failure_reason is one that is retried whatever the count
  flow,      \* its workflow: active, paused by the system, or given to arbitration
  agent,     \* Agent: status, current_task_id set, restart_count; which tmux
             \* session it has, whether the prompt is delivered, what its pane
             \* shows, how often it was nudged, whether its end was requested
  seen,      \* the agents left of the monitor's snapshot, with their status
  job,       \* what each actor is in the middle of: the step, the reason, the agent
             \* it ends, the one it launches, the name of the session it will kill, and
             \* whether the task as it holds it in memory will be written
  trouble    \* what has gone wrong so far

vars == <<task, flow, agent, seen, job, trouble>>

Nobody   == 0
None     == "none"
Terminal == {"done", "failed"}
Actors   == {"monitor", "sweep", "desk"}

\* What the monitor's checks look for in a pane.
Signs  == {"credit", "limit", "overflow", "refused", "silent", "exits", "notool", "ignores",
           "frozen", "mcp", "claims"}
Nudges(sign) == IF sign \in {"mcp", "claims"} THEN 3 ELSE 2

Gone == [status |-> "terminated", has |-> FALSE, restarts |-> 0, session |-> None,
         prompt |-> FALSE, shows |-> "work", nudges |-> 0, leaving |-> FALSE]
Idle == [at |-> "idle", why |-> None, of |-> Nobody, new |-> Nobody, name |-> None,
         holds |-> FALSE]

TypeOK ==
  /\ task \in [status : {"pending", "in_progress"} \union Terminal, agent : Agents \union {Nobody},
               retries : 0..MaxRetries, free : BOOLEAN]
  /\ flow \in {"active", "paused", "arbitration"}
  /\ agent \in [Agents -> [status : {"idle", "working", "terminated"}, has : BOOLEAN,
                           restarts : 0..3, session : {None, "first", "again"}, prompt : BOOLEAN,
                           shows : Signs \union {"work"}, nudges : 0..3, leaving : BOOLEAN]]
  /\ seen \in [Agents -> {None, "idle", "working"}]
  /\ job \in [Actors -> [at : {"idle", "end", "kill", "row", "then", "place", "launch", "check", "made",
                               "requeue", "requeued", "over", "relaunch", "recheck", "reap"},
                         why : Signs \union {None, "leave", "zombie", "requeue", "restart", "retry"},
                         of : Agents \union {Nobody}, new : Agents \union {Nobody},
                         name : {None, "first", "again"}, holds : BOOLEAN]]
  /\ trouble \subseteq Troubles

\* An agent has just been put to work on the task.
Init ==
  /\ task = [status |-> "in_progress", agent |-> 1, retries |-> 0, free |-> FALSE]
  /\ flow = "active"
  /\ agent = [a \in Agents |->
                IF a = 1 THEN [Gone EXCEPT !.status = "working", !.has = TRUE,
                                           !.session = "first", !.prompt = TRUE]
                ELSE Gone]
  /\ seen = [a \in Agents |-> None]
  /\ job = [m \in Actors |-> Idle]
  /\ trouble = {}

-----------------------------------------------------------------------------
(* What the steps are made of. *)

Live    == {a \in Agents : agent[a].status # "terminated"}
Held(a) == task.status = "in_progress" /\ task.agent = a
Free(m) == job[m] = Idle

To(m, at) == job' = [job EXCEPT ![m].at = at]
Stop(m)   == job' = [job EXCEPT ![m] = Idle]

MayGoWrong(what) ==
  /\ what \in Troubles \ trouble
  /\ Cardinality({t \in trouble : (t \in Signs) = (what \in Signs)}) < MaxTroubles
  /\ trouble' = trouble \union {what}

\* A row nothing refers to any more stands for the row of a new agent.
Unused == {a \in Agents : /\ a \notin Live /\ agent[a].session = None
                          /\ seen[a] = None /\ task.agent # a
                          /\ \A m \in Actors : a \notin {job[m].of, job[m].new}}

Requeued == [task EXCEPT !.status = "pending", !.agent = Nobody]
Failed(free) == [task EXCEPT !.status = "failed", !.free = free]

-----------------------------------------------------------------------------
(* What a bug in this code might look like.                                *)

\* The reset of what an agent held asks for no status.
StrayedAny(a) == IF task.agent = a THEN Requeued ELSE task

\* The guard against a second agent overlooks one that is being launched.
OccupiedWorking == {a \in Live : agent[a].has /\ agent[a].status = "working"}

\* One restart too many.
MaxRestartsPast == 4

\* A task nobody was ever given is not looked for.
OrphanHeld ==
  /\ Free("sweep") /\ flow = "active"
  /\ task.status = "pending" /\ task.agent # Nobody /\ task.agent \notin Live
  /\ task' = Failed(TRUE)
  /\ UNCHANGED <<flow, agent, seen, job, trouble>>

-----------------------------------------------------------------------------
\* engine_client.terminate_agent: what the agent held is free again.
Strayed(a) ==
  IF task.agent = a /\ task.status \in {"pending", "in_progress"} THEN Requeued ELSE task
\* Of a row that is over only the session counts, and what the monitor may
\* still read of it.
Ended(a) == [Gone EXCEPT !.session = agent[a].session, !.prompt = agent[a].prompt,
                         !.shows = IF seen[a] = None THEN @ ELSE agent[a].shows]

\* _check_termination_race: what the launch was for is settled.
Pointless(a) ==
  \/ agent[a].status = "terminated"
  \/ task.status \in Terminal
  \/ task.agent \notin {a, Nobody} /\ task.agent \in Live

-----------------------------------------------------------------------------
(* The agents. *)

\* Something is the matter with it, to be seen in its pane.
Troubled(a, sign) ==
  /\ agent[a].session # None /\ agent[a].prompt /\ agent[a].shows = "work"
  /\ MayGoWrong(sign)
  /\ agent' = [agent EXCEPT ![a].shows = sign, ![a].nudges = 0]
  /\ UNCHANGED <<task, flow, seen, job>>

\* Its CLI exits, this time only or whenever it is launched.
Exits(a) ==
  /\ agent[a].session # None /\ agent[a].shows = "exits"
  /\ \E shows \in {"work", "exits"} :
       agent' = [agent EXCEPT ![a].session = None, ![a].prompt = FALSE, ![a].shows = shows]
  /\ UNCHANGED <<task, flow, seen, job, trouble>>

\* update_task_status: whoever was given the task may report, as long as the
\* task is not over, and seldom before its launch is over.
Launching(a) == \E m \in Actors : job[m].at = "made" /\ job[m].new = a
Report(a) ==
  /\ agent[a].session # None /\ agent[a].prompt
  /\ task.status \notin Terminal
  /\ \/ /\ task' = [task EXCEPT !.status = "done"]
        /\ IF Launching(a) THEN MayGoWrong("early") ELSE UNCHANGED trouble
     \/ /\ ~Launching(a)
        /\ MayGoWrong("fails")
        /\ task' = Failed(FALSE)
  /\ agent' = [agent EXCEPT ![a].leaving = (a \in Live)]
  /\ UNCHANGED <<flow, seen, job>>

-----------------------------------------------------------------------------
(* The end of an agent, by whichever actor. *)

\* Most have nothing to do after it.
Goes(m) == IF job[m].why \in {"limit", "overflow", "refused", "silent", "mcp"}
           THEN To(m, "then") ELSE Stop(m)

\* Terminator: nothing to do for one that has gone; the name of its session is
\* read here, and a wait for the pane to come to rest begins.
EndStart(m) ==
  LET a == job[m].of IN
  /\ job[m].at = "end"
  /\ IF a \in Live
     THEN job' = [job EXCEPT ![m].at = "kill", ![m].name = agent[a].session]
     ELSE Goes(m)
  /\ UNCHANGED <<task, flow, agent, seen, trouble>>

EndKill(m) ==
  LET a == job[m].of IN
  /\ job[m].at = "kill"
  /\ agent' = IF agent[a].session = job[m].name
              THEN [agent EXCEPT ![a].session = None, ![a].prompt = FALSE] ELSE agent
  /\ job' = [job EXCEPT ![m].at = "row", ![m].name = None]
  /\ UNCHANGED <<task, flow, seen, trouble>>

EndRow(m) ==
  LET a == job[m].of IN
  /\ job[m].at = "row"
  /\ agent' = [agent EXCEPT ![a] = Ended(a)]
  /\ task' = Strayed(a)
  /\ Goes(m)
  /\ UNCHANGED <<flow, seen, trouble>>

\* terminate_agents_and_process_queue, for an agent that has reported.
Leave(a) ==
  /\ agent[a].leaving /\ Free("desk")
  /\ agent' = [agent EXCEPT ![a].leaving = FALSE]
  /\ job' = [job EXCEPT !["desk"] = [Idle EXCEPT !.at = "end", !.why = "leave", !.of = a]]
  /\ UNCHANGED <<task, flow, seen, trouble>>

\* What the monitor does next.  Without another tool a limit was noted in memory
\* before the wait and is written now, and so is the pause.
Then ==
  LET a == job["monitor"].of  why == job["monitor"].why  other == job["monitor"].holds IN
  /\ job["monitor"].at = "then"
  /\ task' = CASE why = "limit" -> IF other THEN Requeued ELSE Failed(TRUE)
              [] why = "silent" -> IF task.status = "in_progress" THEN Requeued ELSE task
              [] why = "mcp"    -> IF Held(a) THEN Requeued ELSE task
              [] OTHER          -> task
  /\ flow' = IF why = "limit" /\ ~other /\ flow = "active" THEN "paused" ELSE flow
  /\ IF other THEN job' = [job EXCEPT !["monitor"] = [Idle EXCEPT !.at = "place", !.why = why]]
     ELSE Stop("monitor")
  /\ UNCHANGED <<agent, seen, trouble>>

-----------------------------------------------------------------------------
(* The launch of an agent: by the monitor with another tool, and by the    *)
(* sweep for a retry.                                                      *)

\* A CLI takes longer to come up than it takes to write the row of an agent
\* whose session has been killed.
CliReady == \A m \in Actors : job[m].at # "row"

\* create_agent_for_task: the row that has the task already, or a new one; two
\* may pass the guard together.
Occupied == {a \in Live : agent[a].has}
Place(m) ==
  /\ job[m].at = "place"
  /\ \/ /\ \E a \in Occupied :
             job' = [job EXCEPT ![m].at = "made", ![m].new = a]
        /\ UNCHANGED <<agent, trouble>>
     \/ /\ \/ Occupied = {} /\ UNCHANGED trouble
           \/ /\ \E n \in Actors \ {m} : job[n].at = "launch" /\ job[n].new \in Occupied
              /\ MayGoWrong("tie")
        /\ \E a \in Unused :
             /\ \A b \in Unused : a <= b
             /\ agent' = [agent EXCEPT ![a] = [Gone EXCEPT !.status = "idle", !.has = TRUE]]
             /\ job' = [job EXCEPT ![m].at = "launch", ![m].new = a]
  /\ UNCHANGED <<task, flow, seen>>

\* The session is up and the row is written whole, whatever became of the stub.
Launch(m) ==
  LET a == job[m].new IN
  /\ job[m].at = "launch"
  /\ agent' = [agent EXCEPT ![a] = [@ EXCEPT !.status = "working", !.has = TRUE, !.session = "first"]]
  /\ job' = [job EXCEPT ![m].at = "check", ![m].holds = TRUE]
  /\ UNCHANGED <<task, flow, seen, trouble>>

LaunchFails(m) ==
  LET a == job[m].new IN
  /\ job[m].at = "launch"
  /\ MayGoWrong("launch")
  /\ agent' = [agent EXCEPT ![a] = Ended(a)]
  /\ task' = [Strayed(a) EXCEPT !.status = "failed", !.free = (job[m].why = "limit")]
  /\ Stop(m)
  /\ UNCHANGED <<flow, seen>>

\* After the wait for the CLI: the prompt, unless what it is for is settled.
Prompt(m) ==
  LET a == job[m].new IN
  /\ job[m].at = "check" /\ CliReady
  /\ IF Pointless(a)
     THEN /\ agent' = [agent EXCEPT ![a].session = None]
          /\ job' = [job EXCEPT ![m].at = "made", ![m].holds = FALSE]
     ELSE agent' = [agent EXCEPT ![a].prompt = TRUE] /\ To(m, "made")
  /\ UNCHANGED <<task, flow, seen, trouble>>

\* After the wait for the prompt to be read: the task is written as it was
\* taken in hand; the sweep writes it in any case.
Made(m) ==
  /\ job[m].at = "made"
  /\ task' = IF m = "sweep" \/ job[m].holds
             THEN [task EXCEPT !.status = "in_progress", !.agent = job[m].new] ELSE task
  /\ flow' = IF job[m].why \in {"limit", "refused"} /\ flow = "paused" THEN "active" ELSE flow
  /\ Stop(m)
  /\ UNCHANGED <<agent, seen, trouble>>

-----------------------------------------------------------------------------
(* The monitor, on the agents it has seen.                                 *)

Look ==
  /\ Free("monitor") /\ Live # {} /\ \A a \in Agents : seen[a] = None
  /\ seen' = [a \in Agents |-> IF a \in Live THEN agent[a].status ELSE None]
  /\ UNCHANGED <<task, flow, agent, job, trouble>>

\* The check that finds something.  All but that for a limit read the
\* transcript, which outlives the session.
Check(a) ==
  LET sign    == agent[a].shows
      up      == agent[a].session # None
      working == seen[a] = "working"
      applies == CASE sign \in {"limit", "ignores"} -> up
                   [] sign = "silent" -> working
                   [] sign \in {"notool", "claims"} -> working /\ task.status = "in_progress"
                   [] sign \in {"work", "exits"} -> FALSE
                   [] OTHER -> TRUE
  IN IF task.status \in Terminal THEN "zombie"
     ELSE IF applies THEN sign
     ELSE IF working /\ ~up THEN "missing" ELSE "nothing"

Finds(a, what) ==
  /\ Free("monitor") /\ seen[a] # None /\ Check(a) = what
  /\ seen' = [seen EXCEPT ![a] = None]

Takes(at, why, a) ==
  job' = [job EXCEPT !["monitor"] = [Idle EXCEPT !.at = at, !.why = why, !.of = a]]
\* The same where another tool is configured and installed.
TakesOver(why, a) ==
  job' = [job EXCEPT !["monitor"] = [Idle EXCEPT !.at = "end", !.why = why, !.of = a, !.holds = TRUE]]

Pass(a) ==
  /\ \/ Finds(a, "nothing")
     \/ Finds(a, "limit") /\ ~Held(a)
  /\ UNCHANGED <<task, flow, agent, job, trouble>>

Zombie(a) ==
  /\ Finds(a, "zombie")
  /\ Takes("end", "zombie", a)
  /\ UNCHANGED <<task, flow, agent, trouble>>

\* The task of the snapshot fails, whoever has it by now.
Credit(a) ==
  /\ Finds(a, "credit")
  /\ task' = Failed(FALSE)
  /\ flow' = IF flow = "active" THEN "paused" ELSE flow
  /\ Takes("end", "credit", a)
  /\ UNCHANGED <<agent, trouble>>

Silent(a) ==
  /\ Finds(a, "silent")
  /\ Takes("end", "silent", a)
  /\ UNCHANGED <<task, flow, agent, trouble>>

\* With another tool the failure is committed before the wait for the end,
\* without one it is not.
Limit(a) ==
  /\ Finds(a, "limit") /\ Held(a)
  /\ \/ task' = Failed(TRUE) /\ TakesOver("limit", a)
     \/ UNCHANGED task /\ Takes("end", "limit", a)
  /\ UNCHANGED <<flow, agent, trouble>>

Overflow(a) ==
  /\ Finds(a, "overflow") /\ Held(a)
  /\ task' = Requeued
  /\ TakesOver("overflow", a)
  /\ UNCHANGED <<flow, agent, trouble>>

Refused(a) ==
  /\ Finds(a, "refused")
  /\ \/ Held(a) /\ task' = Requeued /\ TakesOver("refused", a)
     \/ /\ task' = IF Held(a) THEN [Failed(FALSE) EXCEPT !.agent = Nobody] ELSE task
        /\ Takes("end", "refused", a)
  /\ UNCHANGED <<flow, agent, trouble>>

\* So it goes for an overflow without another tool, too.
Nudge(a) ==
  /\ \E sign \in {"frozen", "mcp", "claims", "overflow"} :
       /\ Finds(a, sign)
       /\ agent[a].nudges < Nudges(sign)
  /\ \E shows \in {"work", agent[a].shows} :
       /\ agent[a].session = None => shows # "work"
       /\ agent' = [agent EXCEPT ![a].nudges = @ + 1, ![a].shows = shows]
  /\ UNCHANGED <<task, flow, job, trouble>>

Abandon(a) ==
  /\ \/ Finds(a, "frozen")
     \/ Finds(a, "overflow")
  /\ agent[a].nudges = Nudges("frozen")
  /\ task' = IF Held(a) THEN Failed(FALSE) ELSE task
  /\ Takes("end", "frozen", a)
  /\ UNCHANGED <<flow, agent, trouble>>

Disconnected(a) ==
  /\ Finds(a, "mcp") /\ agent[a].nudges = Nudges("mcp")
  /\ Takes("end", "mcp", a)
  /\ UNCHANGED <<task, flow, agent, trouble>>

\* requeue_and_terminate: the task first, whoever has it, then the session.
Requeue(a) ==
  /\ \/ Finds(a, "notool")
     \/ Finds(a, "ignores")
     \/ Finds(a, "claims") /\ agent[a].nudges = Nudges("claims")
  /\ task' = IF task.status = "in_progress" THEN Requeued ELSE task
  /\ Takes("requeue", "requeue", a)
  /\ UNCHANGED <<flow, agent, trouble>>

RequeueKill ==
  LET a == job["monitor"].of IN
  /\ job["monitor"].at = "requeue"
  /\ agent' = [agent EXCEPT ![a].session = None, ![a].prompt = FALSE]
  /\ To("monitor", "requeued")
  /\ UNCHANGED <<task, flow, seen, trouble>>

RequeueRow ==
  LET a == job["monitor"].of IN
  /\ job["monitor"].at = "requeued"
  /\ agent' = [agent EXCEPT ![a] = Ended(a)]
  /\ task' = Strayed(a)
  /\ Stop("monitor")
  /\ UNCHANGED <<flow, seen, trouble>>

-----------------------------------------------------------------------------
(* restart_agent, for one whose session has gone.                          *)

MaxRestarts == 3

Restart(a) ==
  /\ Finds(a, "missing")
  /\ IF agent[a].restarts >= MaxRestarts
     THEN /\ agent' = [agent EXCEPT ![a] = Ended(a)]
          /\ task' = Strayed(a)
          /\ Takes("over", "restart", IF agent[a].has THEN a ELSE Nobody)
     ELSE /\ agent' = [agent EXCEPT ![a].restarts = @ + 1]
          /\ IF agent[a].has THEN Takes("relaunch", "restart", a) ELSE Stop("monitor")
          /\ UNCHANGED task
  /\ UNCHANGED <<flow, trouble>>

\* Too many: the session is killed and the task, seen to be free, fails.
Over ==
  LET a == job["monitor"].of IN
  /\ job["monitor"].at = "over"
  /\ task' = IF a # Nobody /\ task.status \notin Terminal THEN Failed(FALSE) ELSE task
  /\ Stop("monitor")
  /\ UNCHANGED <<flow, agent, seen, trouble>>

\* A new session for the row, whose status is not written: it has not changed
\* for the one who read it.
Relaunch ==
  LET a == job["monitor"].of IN
  /\ job["monitor"].at = "relaunch"
  /\ \/ /\ agent' = [agent EXCEPT ![a].session = "again", ![a].nudges = 0,
                              ![a].shows = IF @ = "exits" THEN @ ELSE "work"]
        /\ To("monitor", "recheck")
        /\ UNCHANGED trouble
     \/ MayGoWrong("launch") /\ Stop("monitor") /\ UNCHANGED agent
  /\ UNCHANGED <<task, flow, seen>>

Recheck ==
  LET a == job["monitor"].of IN
  /\ job["monitor"].at = "recheck" /\ CliReady
  /\ agent' = IF Pointless(a) THEN [agent EXCEPT ![a].session = None]
              ELSE [agent EXCEPT ![a].prompt = (agent[a].session # None)]
  /\ Stop("monitor")
  /\ UNCHANGED <<task, flow, seen, trouble>>

-----------------------------------------------------------------------------
(* The end of the monitor's cycle: what no row, or no active workflow,     *)
(* accounts for.                                                           *)

Cycle == Free("monitor") /\ \A a \in Agents : seen[a] = None

\* What the row and the task are to become is computed before the session is
\* killed, and committed after.
Reap(a) ==
  /\ Cycle /\ flow # "active" /\ a \in Live /\ agent[a].has
  /\ job' = [job EXCEPT !["monitor"] = [Idle EXCEPT !.at = "reap", !.of = a,
                                                    !.holds = (Strayed(a) # task)]]
  /\ UNCHANGED <<task, flow, agent, seen, trouble>>

Reaped ==
  LET a == job["monitor"].of IN
  /\ job["monitor"].at = "reap"
  /\ agent' = [agent EXCEPT ![a] = [Ended(a) EXCEPT !.session = None, !.prompt = FALSE]]
  /\ task' = IF job["monitor"].holds THEN Requeued ELSE task
  /\ Stop("monitor")
  /\ UNCHANGED <<flow, seen, trouble>>

\* A session whose row is over, once it has been seen so for two minutes: longer
\* than a launch takes.
Ghosts == {a \in Agents : /\ agent[a].session # None /\ a \notin Live
                          /\ \A m \in Actors : job[m].new # a /\ job[m].of # a}
Exorcise ==
  /\ Cycle /\ Ghosts # {}
  /\ agent' = [a \in Agents |-> IF a \in Ghosts
                                THEN [agent[a] EXCEPT !.session = None, !.prompt = FALSE]
                                ELSE agent[a]]
  /\ UNCHANGED <<task, flow, seen, job, trouble>>

-----------------------------------------------------------------------------
(* The sweep of an active workflow, on a phase with this one task.         *)

Sweeps == Free("sweep") /\ flow = "active"

\* Pending for more than a minute, as the launch of another agent may leave it,
\* with nobody on it.
Orphan ==
  /\ Sweeps /\ task.status = "pending" /\ task.agent \notin Live
  /\ task' = Failed(TRUE)
  /\ UNCHANGED <<flow, agent, seen, job, trouble>>

\* Held by an agent that is over.
Stale ==
  /\ Sweeps /\ task.status \notin Terminal
  /\ task.agent # Nobody /\ task.agent \notin Live
  /\ task' = Failed(FALSE)
  /\ UNCHANGED <<flow, agent, seen, job, trouble>>

Retryable == task.retries < MaxRetries \/ task.free

Retry ==
  /\ Sweeps /\ task.status = "failed" /\ Retryable
  /\ task' = [task EXCEPT !.status = "pending", !.free = FALSE,
                          !.retries = IF @ < MaxRetries THEN @ + 1 ELSE @]
  /\ job' = [job EXCEPT !["sweep"] = [Idle EXCEPT !.at = "place", !.why = "retry"]]
  /\ UNCHANGED <<flow, agent, seen, trouble>>

\* No retry left: a person, or the model that stands in for one, decides.
Ask ==
  /\ Sweeps /\ task.status = "failed" /\ ~Retryable
  /\ flow' = "arbitration"
  /\ UNCHANGED <<task, agent, seen, job, trouble>>

\* A pause by the system is lifted after its cooldown.
Lift ==
  /\ Free("sweep") /\ flow = "paused"
  /\ flow' = "active"
  /\ UNCHANGED <<task, agent, seen, job, trouble>>

-----------------------------------------------------------------------------
Checks(a) ==
  \/ Pass(a) \/ Zombie(a) \/ Credit(a) \/ Silent(a) \/ Limit(a) \/ Overflow(a) \/ Refused(a)
  \/ Nudge(a) \/ Abandon(a) \/ Disconnected(a) \/ Requeue(a) \/ Restart(a)

Carries(m) ==
  \/ EndStart(m) \/ EndKill(m) \/ EndRow(m)
  \/ Place(m) \/ Launch(m) \/ Prompt(m) \/ Made(m)

Monitor == \/ Carries("monitor") \/ Then \/ RequeueKill \/ RequeueRow
           \/ Over \/ Relaunch \/ Recheck \/ Reaped
           \/ Look \/ \E a \in Agents : Checks(a)
Sweep   == Carries("sweep") \/ Orphan \/ Stale \/ Retry \/ Ask \/ Lift
Desk    == Carries("desk") \/ \E a \in Agents : Leave(a)

Next ==
  \/ Monitor \/ Sweep \/ Desk
  \/ Exorcise \/ \E a \in Agents : Reap(a)
  \/ \E m \in Actors : LaunchFails(m)
  \/ \E a \in Agents : Exits(a) \/ Report(a) \/ \E sign \in Signs : Troubled(a, sign)

\* An agent that can reports in the end, and one whose CLI exits is seen to; the
\* reaper does not look at the rows where no session is up at all.
Reports(a) == agent[a].shows = "work" /\ Report(a)
Reaping(a) == agent[a].session # None /\ Reap(a)

Fairness ==
  /\ WF_vars(Monitor) /\ WF_vars(Sweep) /\ WF_vars(Desk)
  /\ SF_vars(Exorcise) /\ \A a \in Agents : SF_vars(Reaping(a))
  /\ \A a \in Agents : WF_vars(Reports(a)) /\ WF_vars(Exits(a))

Spec == Init /\ [][Next]_vars /\ Fairness

-----------------------------------------------------------------------------
(* Properties.                                                             *)

\* There is never a second agent that is not over, whatever becomes of the task,
\* though three actors launch, relaunch and end agents without a lock; but two
\* launches that pass create_agent_for_task's guard together ("tie") are not told
\* apart.
OneAgent == "tie" \notin trouble => Cardinality(Live) <= 1

\* A report of "done" is never undone by a decision: only by the write of what was
\* under way when it came, which a launch, a limit without another tool and the
\* reaping carry over a wait.
Overtakes(m) == \/ job[m].at \in {"launch", "made", "reap"}
                \/ job[m].at = "then" /\ job[m].why = "limit"
ReportKept ==
  [][task.status = "done" /\ task'.status # "done" => \E m \in Actors : Overtakes(m)]_vars

\* Whatever goes wrong with an agent or with its end, the task comes to be done or
\* in somebody's hands, and no session stays up that no live row accounts for.
Settles == <>[](/\ task.status = "done" \/ flow = "arbitration"
                /\ \A a \in Agents : agent[a].session # None => a \in Live)
=============================================================================
