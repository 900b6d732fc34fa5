----------------------------- MODULE ProjectRuns -----------------------------
(***************************************************************************)
(* Which projects have a pipeline running.  A service per project starts   *)
(* an asyncio task that waits for a walk in a thread; a walk ends only     *)
(* when it looks at the stop event, and a service that will not wait for   *)
(* it any longer cancels the task, not the walk.  Projects are started by  *)
(* requests, which reserve one of the few slots, by the server when it     *)
(* comes up, and by a sweep that finds a project that should be running.   *)
(*                                                                         *)
(* Two things survive the server: the marker of a running service and the  *)
(* project's is_active, which other sweeps go by.  What a walk does is     *)
(* DesignPipeline.                                                         *)
(***************************************************************************)
EXTENDS Naturals, FiniteSets

CONSTANTS
  Projects, Cap,  \* max_concurrent_projects
  Walks,          \* bound of a run: threads there can be at once
  Requests,       \* and requests to start something
  MaxStarts,      \* and how often there is one
  Troubles,       \* and the kinds of trouble that come together, once each
  NoWalk, NoProject

\* A walk dies or outlasts the wait of a stop, a start raises, comes between a
\* walk's end and its task's, or replaces a run, the server dies.
Kinds == {"dead", "slow", "fails", "quick", "zombie", "crash"}

ASSUME RunsAssumption ==
  /\ IsFiniteSet(Projects) /\ IsFiniteSet(Walks) /\ IsFiniteSet(Requests)
  /\ Cap \in Nat \ {0} /\ MaxStarts \in Nat
  /\ Troubles \subseteq SUBSET Kinds
  /\ NoWalk \notin Walks /\ NoProject \notin Projects

VARIABLES
  event,    \* the stop event of a service
  flag,     \* its _running
  task,     \* the walk its task waits for, if any
  busy,     \* who holds its lifecycle lock, waiting for the walk to end
  walk,     \* the threads: whose, whether a task waits for them or has left
            \* them to themselves, or they are over and their task is not
  pending,  \* the reservations of the registry
  request,  \* the requests to start: which project, and whether reserved
  marker,   \* the persisted state of a running service
  active,   \* AutopilotProject.is_active
  boot,     \* the projects the server still has to resume
  draining, \* it is going down
  swept,    \* the projects the sweep has started, for the properties
  said,     \* what a person was last told of the project: running or stopped
  starts,   \* how many requests there have been
  trouble   \* the kinds of trouble there has been

memory == <<event, flag, task, busy, walk, pending, request, boot, draining>>
vars   == <<memory, marker, active, swept, said, starts, trouble>>

NoRequest == [of |-> NoProject, at |-> "idle"]
NoThread  == [of |-> NoProject, at |-> "free"]

TypeOK ==
  /\ event \in [Projects -> BOOLEAN] /\ flag \in [Projects -> BOOLEAN]
  /\ task \in [Projects -> Walks \union {NoWalk}]
  /\ busy \in [Projects -> {"no", "stop", "replace", "drain"}]
  /\ walk \in [Walks -> [of : Projects \union {NoProject}, at : {"free", "walking", "left", "over"}]]
  /\ pending \subseteq {request[r].of : r \in Requests} \ {NoProject}
  /\ request \in [Requests -> [of : Projects \union {NoProject}, at : {"idle", "reserved", "stopping"}]]
  /\ marker \in [Projects -> BOOLEAN] /\ active \in [Projects -> BOOLEAN]
  /\ boot \subseteq Projects /\ draining \in BOOLEAN
  /\ swept \subseteq Projects
  /\ said \in [Projects -> {"nothing", "running", "stopped", "off"}]
  /\ starts \in 0..MaxStarts
  /\ trouble \subseteq Kinds

Fresh ==
  /\ event' = [p \in Projects |-> FALSE] /\ flag' = [p \in Projects |-> FALSE]
  /\ task' = [p \in Projects |-> NoWalk] /\ busy' = [p \in Projects |-> "no"]
  /\ walk' = [w \in Walks |-> NoThread]
  /\ pending' = {} /\ request' = [r \in Requests |-> NoRequest]
  /\ draining' = FALSE

Init ==
  /\ event = [p \in Projects |-> FALSE] /\ flag = [p \in Projects |-> FALSE]
  /\ task = [p \in Projects |-> NoWalk] /\ busy = [p \in Projects |-> "no"]
  /\ walk = [w \in Walks |-> NoThread]
  /\ pending = {} /\ request = [r \in Requests |-> NoRequest]
  /\ boot = {} /\ draining = FALSE
  /\ marker = [p \in Projects |-> FALSE] /\ active = [p \in Projects |-> FALSE]
  /\ swept = {} /\ said = [p \in Projects |-> "nothing"]
  /\ starts = 0 /\ trouble = {}

Trouble(kinds) == /\ kinds \intersect trouble = {}
                  /\ \E all \in Troubles : trouble \union kinds \subseteq all
                  /\ trouble' = trouble \union kinds

Running(p) == flag[p] /\ task[p] # NoWalk
Occupied   == {p \in Projects : Running(p)} \union pending
Locked(p)  == busy[p] # "no"

\* A request awaits nothing but the lock: nothing else is begun before it goes on.
Settled == \A r \in Requests, p \in Projects : request[r].of = p => Locked(p)
Able    == Settled /\ boot = {} /\ ~draining
Over(p)    == {w \in Walks : walk[w] = [of |-> p, at |-> "over"]}
Walking(p) == {w \in Walks : walk[w].of = p /\ walk[w].at \in {"walking", "left"}}

-----------------------------------------------------------------------------
(* What a bug in the code would make of some of the definitions below. *)

\* A start that does not wait for the lock of a stop.
MayBeginUnlocked(p) == ~Running(p)

\* The slots of the running are counted, not those of the starting.
MayStartUnreserved(p) == LET running == {q \in Projects : Running(q)} IN
  p \in running \/ Cardinality(running) < Cap

\* The reservation is returned once its project is forgotten.
ReleasedLate(r) == /\ request' = [request EXCEPT ![r] = NoRequest]
                   /\ pending' = pending \ {request'[r].of}

\* A stop keeps the marker, as a restart does.
ForgetNothing(p) == UNCHANGED marker

\* The sweep goes by is_active alone.
ShouldRunActive(p) == active[p]

-----------------------------------------------------------------------------
(* AutopilotService. *)

\* _get_or_create_project_id activates the project if there is room.
Activated(p) ==
  [active EXCEPT ![p] = @ \/ Cardinality({q \in Projects : active[q]}) < Cap]

\* The lifecycle lock, and the service's own idea of what it is doing.
MayBegin(p) == ~Locked(p) /\ ~Running(p)

\* start: nothing is asked of earlier walks.
RunStart(p) ==
  /\ MayBegin(p)
  /\ \E w \in Walks :
       /\ walk[w] = NoThread
       /\ walk' = [walk EXCEPT ![w] = [of |-> p, at |-> "walking"]]
       /\ task' = [task EXCEPT ![p] = w]
  /\ event' = [event EXCEPT ![p] = FALSE] /\ flag' = [flag EXCEPT ![p] = TRUE]
  /\ marker' = [marker EXCEPT ![p] = TRUE]
  /\ active' = Activated(p)
  /\ Trouble(IF Over(p) # {} THEN {"quick"} ELSE {})

Forget(p) == marker' = [marker EXCEPT ![p] = FALSE]

\* stop, up to its wait, which it does with the lock held.
RunStop(p, by) ==
  /\ event' = [event EXCEPT ![p] = TRUE] /\ flag' = [flag EXCEPT ![p] = FALSE]
  /\ Forget(p)
  /\ busy' = [busy EXCEPT ![p] = by]
  /\ UNCHANGED task

\* The wait is over: the task has ended, or is cancelled and its thread goes on.
StopReturns(p) ==
  /\ Locked(p) /\ Settled
  /\ IF task[p] = NoWalk
     THEN UNCHANGED <<walk, trouble>>
     ELSE /\ walk[task[p]].at = "walking" /\ Trouble({"slow"})
          /\ walk' = [walk EXCEPT ![task[p]].at = "left"]
  /\ task' = [task EXCEPT ![p] = NoWalk]
  /\ busy' = [busy EXCEPT ![p] = "no"]
  /\ IF busy[p] = "stop"
     THEN active' = [active EXCEPT ![p] = FALSE] /\ said' = [said EXCEPT ![p] = "stopped"]
     ELSE UNCHANGED <<active, said>>
  /\ UNCHANGED <<event, flag, pending, request, boot, draining, marker, swept, starts>>

\* A walk sees the event, pauses its workflows and returns; or it raises.  Its
\* finally writes the flag of whatever the service is running by then.
WalkEnds(w) ==
  /\ walk[w].at \in {"walking", "left"}
  /\ Trouble(IF event[walk[w].of] THEN {} ELSE {"dead"})
  /\ walk' = [walk EXCEPT ![w] = IF @.at = "left" THEN NoThread ELSE [@ EXCEPT !.at = "over"]]
  /\ flag' = [flag EXCEPT ![walk[w].of] = FALSE]
  /\ UNCHANGED <<event, task, busy, pending, request, boot, draining, marker, active, swept, said, starts>>

\* The task that waited for it ends, and writes the flag once more.
TaskEnds(w) ==
  LET p == walk[w].of IN
  /\ walk[w].at = "over"
  /\ walk' = [walk EXCEPT ![w] = NoThread]
  /\ task' = [task EXCEPT ![p] = IF @ = w THEN NoWalk ELSE @]
  /\ flag' = [flag EXCEPT ![p] = FALSE]
  /\ UNCHANGED <<event, busy, pending, request, boot, draining, marker, active, swept, said, starts, trouble>>

-----------------------------------------------------------------------------
(* POST /start. *)

MayStart(p) == p \in Occupied \/ Cardinality(Occupied) < Cap

\* try_reserve: a project that has a slot already is let through without one.
Reserve(r, p) ==
  /\ request[r] = NoRequest /\ starts < MaxStarts
  /\ Able
  /\ starts' = starts + 1
  /\ active' = Activated(p)
  /\ said' = [said EXCEPT ![p] = "nothing"]
  /\ IF MayStart(p)
     THEN /\ request' = [request EXCEPT ![r] = [of |-> p, at |-> "reserved"]]
          /\ pending' = IF p \in Occupied THEN pending ELSE pending \union {p}
     ELSE UNCHANGED <<request, pending>>
  /\ UNCHANGED <<event, flag, task, busy, walk, boot, draining, marker, swept, trouble>>

\* release_reservation, whoever's it is.
Released(r) ==
  /\ request' = [request EXCEPT ![r] = NoRequest]
  /\ pending' = pending \ {request[r].of}

Launch(r) ==
  LET p == request[r].of IN
  /\ request[r].at \in {"reserved", "stopping"}
  /\ RunStart(p) /\ Released(r)
  /\ said' = [said EXCEPT ![p] = "running"]
  /\ UNCHANGED <<busy, boot, draining, swept, starts>>

\* start raises: the repository is gone, or the project runs by now.
Refused(r) ==
  LET p == request[r].of IN
  /\ request[r].at # "idle" /\ ~Locked(p) /\ Released(r)
  /\ Trouble(IF Running(p) THEN {} ELSE {"fails"})
  /\ UNCHANGED <<event, flag, task, busy, walk, boot, draining, marker, active, swept, said, starts>>

\* A run that has nothing to do is stopped first.
Replace(r) ==
  LET p == request[r].of IN
  /\ request[r].at = "reserved" /\ Running(p) /\ ~Locked(p) /\ Trouble({"zombie"})
  /\ RunStop(p, "replace")
  /\ request' = [request EXCEPT ![r].at = "stopping"]
  /\ UNCHANGED <<walk, pending, boot, draining, active, swept, said, starts>>

-----------------------------------------------------------------------------
(* POST /stop. *)

\* stop_pipeline.  A service that is not running is left as it is, its marker too.
Stop(p) ==
  /\ said[p] \notin {"stopped", "off"} /\ Able /\ ~Locked(p)
  /\ IF Running(p) THEN RunStop(p, "stop") /\ UNCHANGED <<active, said>>
     ELSE /\ active' = [active EXCEPT ![p] = FALSE] /\ said' = [said EXCEPT ![p] = "off"]
          /\ UNCHANGED <<event, flag, task, marker, busy>>
  /\ UNCHANGED <<walk, pending, request, boot, draining, swept, starts, trouble>>

-----------------------------------------------------------------------------
(* The server and its sweep. *)

\* _resync_pipeline_registry, by the marker or else by is_active.  It knows of no
\* cap, and leaves alone what has been stopped.
ShouldRun(p) == marker[p] \/ active[p]

Resync(p) ==
  /\ ShouldRun(p) /\ ~event[p] /\ Settled /\ boot = {}
  /\ RunStart(p) /\ swept' = swept \union {p}
  /\ UNCHANGED <<busy, pending, request, boot, draining, said, starts>>

\* The server goes down, when the requests are answered: pause_for_restart is a
\* stop of every service that keeps the markers.
Drain ==
  /\ Able /\ \A r \in Requests : request[r] = NoRequest
  /\ \A p \in Projects : ~Locked(p)
  /\ Trouble({"crash"}) /\ draining' = TRUE
  /\ event' = [p \in Projects |-> event[p] \/ Running(p)]
  /\ flag' = [p \in Projects |-> flag[p] /\ ~Running(p)]
  /\ busy' = [p \in Projects |-> IF Running(p) THEN "drain" ELSE "no"]
  /\ UNCHANGED <<task, walk, pending, request, boot, marker, active, swept, said, starts>>

\* Only what is persisted survives, after a drain or without one.
Crash ==
  /\ Fresh
  /\ IF draining THEN UNCHANGED trouble ELSE Trouble({"crash"})
  /\ boot' = {p \in Projects : marker[p]}
  /\ swept' = {}
  /\ UNCHANGED <<marker, active, said, starts>>

\* The server resumes what was running, as far as there is room.
ResumeRun(p) ==
  /\ p \in boot /\ boot' = boot \ {p}
  /\ IF MayStart(p) THEN RunStart(p)
     ELSE UNCHANGED <<event, flag, task, walk, marker, active, trouble>>
  /\ UNCHANGED <<busy, pending, request, draining, swept, said, starts>>

-----------------------------------------------------------------------------
Next ==
  \/ \E r \in Requests : \/ \E p \in Projects : Reserve(r, p)
                         \/ Launch(r) \/ Refused(r) \/ Replace(r)
  \/ \E p \in Projects : Stop(p) \/ StopReturns(p) \/ Resync(p) \/ ResumeRun(p)
  \/ \E w \in Walks : WalkEnds(w) \/ TaskEnds(w)
  \/ Drain \/ Crash

\* Requests are carried on, walks look at the event, the sweep goes round, and a
\* server that goes down is started again.  Nobody has to start or stop anything.
Fairness ==
  /\ \A r \in Requests : WF_vars(Launch(r)) /\ WF_vars(Refused(r))
  /\ \A p \in Projects : /\ WF_vars(StopReturns(p))
                         /\ WF_vars(Resync(p)) /\ WF_vars(ResumeRun(p))
  /\ \A w \in Walks : WF_vars(WalkEnds(w)) /\ WF_vars(TaskEnds(w))
  /\ WF_vars(draining /\ Crash)

Spec == Init /\ [][Next]_vars /\ Fairness

-----------------------------------------------------------------------------
(* Properties. *)

\* A project is walked by one thread at a time, although walks, stops, starts and
\* the sweep go on side by side: unless a walk has outlasted the wait of a stop,
\* or a start came between the end of a walk and the end of its task.
OneWalk == \A p \in Projects :
  Cardinality(Walking(p)) <= 1 \/ trouble \intersect {"slow", "quick"} # {}

\* Requests and restarts between them run no more projects than there are slots.
\* The sweep asks for none; nor is the slot of a run kept while it is replaced,
\* and of two requests for a project the first that fails returns it for both.
Unswept == {p \in Projects \ swept : Running(p)}
CapKept == Cardinality(Unswept) <= Cap \/ trouble \intersect {"zombie", "fails"} # {}

\* A running service that a person has stopped is not started by anything but a
\* person: not by the sweep, by a restart or by a request that was under way.
StopMeansStop == \A p \in Projects : said[p] = "stopped" => ~Running(p)

\* What ought to be running, by its marker, comes to run, whatever has ended it.
Restarts == \A p \in Projects : marker[p] ~> Running(p) \/ ~marker[p]
=============================================================================
