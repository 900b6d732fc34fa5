-------------------------- MODULE ProjectRunsProofs --------------------------
(***************************************************************************)
(* Which projects run, and what keeps their workflows standing.            *)
(*                                                                         *)
(* For every set of projects, threads and requests, every cap and every    *)
(* combination of troubles (ProjectRuns): the type invariant, that a       *)
(* stopped project is started by a person only, that one thread at a time  *)
(* walks a project, and that requests and restarts keep the cap.  None of  *)
(* the last three is inductive.  Each is proved from a statement of what   *)
(* the server holds at every moment: which task waits for a thread, what a *)
(* request that is under way counts for, and what a stop has forgotten     *)
(* before it says so.                                                      *)
(*                                                                         *)
(* For every set of workflows, and however stale the rows the sweep        *)
(* commits from (WorkflowPause): the type invariant, with the cap on       *)
(* automatic retries in it, that a paused workflow always says why, and    *)
(* that the sweep lifts nobody's pause but the system's.                   *)
(***************************************************************************)
EXTENDS ProjectRuns, WorkflowPause, FiniteSetTheorems, TLAPS

\* A request or a thread is there as a whole, or not at all.
Whole ==
  /\ \A r \in Requests :
       request[r] = NoRequest \/ (request[r].of \in Projects /\ request[r].at # "idle")
  /\ \A w \in Walks : walk[w] = NoThread \/ (walk[w].of \in Projects /\ walk[w].at # "free")

Shape == TypeOK /\ Whole

LEMMA InitShape == Init => Shape
<1> SUFFICES ASSUME Init PROVE Shape
  OBVIOUS
<1> USE DEF Init
<1>1. starts \in 0..MaxStarts
  BY RunsAssumption
<1>2. walk \in [Walks -> [of : Projects \union {NoProject}, at : {"free", "walking", "left", "over"}]]
  BY DEF NoThread
<1>3. request \in [Requests -> [of : Projects \union {NoProject}, at : {"idle", "reserved", "stopping"}]]
  BY DEF NoRequest
<1>4. Whole
  BY DEF Whole
<1> QED  BY <1>1, <1>2, <1>3, <1>4 DEF Shape, TypeOK

\* What a start leaves behind.
LEMMA StartShape ==
  ASSUME Shape, NEW p \in Projects, RunStart(p)
  PROVE  /\ event' \in [Projects -> BOOLEAN] /\ flag' \in [Projects -> BOOLEAN]
         /\ task' \in [Projects -> Walks \union {NoWalk}]
         /\ walk' \in [Walks -> [of : Projects \union {NoProject},
                                 at : {"free", "walking", "left", "over"}]]
         /\ \A w \in Walks : walk'[w] = NoThread \/ (walk'[w].of \in Projects /\ walk'[w].at # "free")
         /\ marker' \in [Projects -> BOOLEAN] /\ active' \in [Projects -> BOOLEAN]
         /\ trouble' \subseteq Kinds
<1>1. PICK w \in Walks :
        /\ walk' = [walk EXCEPT ![w] = [of |-> p, at |-> "walking"]]
        /\ task' = [task EXCEPT ![p] = w]
  BY DEF RunStart
<1>2. /\ walk' \in [Walks -> [of : Projects \union {NoProject},
                              at : {"free", "walking", "left", "over"}]]
      /\ \A v \in Walks : walk'[v] = NoThread \/ (walk'[v].of \in Projects /\ walk'[v].at # "free")
  BY <1>1 DEF Shape, TypeOK, Whole
<1>3. active' \in [Projects -> BOOLEAN]
  BY DEF Shape, TypeOK, RunStart, Activated
<1>4. trouble' \subseteq Kinds
  BY DEF Shape, TypeOK, RunStart, Trouble, Kinds
<1> QED  BY <1>1, <1>2, <1>3, <1>4 DEF Shape, TypeOK, RunStart

\* What a release leaves behind.
LEMMA ReleaseShape ==
  ASSUME Shape, NEW r \in Requests, Released(r)
  PROVE  /\ request' \in [Requests -> [of : Projects \union {NoProject},
                                       at : {"idle", "reserved", "stopping"}]]
         /\ pending' \subseteq {request'[s].of : s \in Requests} \ {NoProject}
         /\ \A s \in Requests :
              request'[s] = NoRequest \/ (request'[s].of \in Projects /\ request'[s].at # "idle")
<1>1. \A s \in Requests : request'[s] = IF s = r THEN NoRequest ELSE request[s]
  BY DEF Shape, TypeOK, Released
<1>2. request' \in [Requests -> [of : Projects \union {NoProject},
                                 at : {"idle", "reserved", "stopping"}]]
  BY DEF Shape, TypeOK, Released, NoRequest
<1>3. ASSUME NEW p \in pending' PROVE p \in {request'[s].of : s \in Requests} \ {NoProject}
  <2>1. p # request[r].of /\ p \in {request[s].of : s \in Requests} \ {NoProject}
    BY <1>3 DEF Shape, TypeOK, Released
  <2>2. PICK s \in Requests : p = request[s].of
    BY <2>1
  <2>3. p = request'[s].of
    BY <1>1, <2>1, <2>2
  <2> QED  BY <2>1, <2>3
<1> QED  BY <1>1, <1>2, <1>3 DEF Shape, Whole

LEMMA NextShape == Shape /\ [Next]_vars => Shape'
<1> SUFFICES ASSUME Shape, [Next]_vars PROVE Shape'
  OBVIOUS
<1> USE RunsAssumption DEF Shape
<1>1. ASSUME NEW r \in Requests, NEW p \in Projects, Reserve(r, p) PROVE Shape'
  <2>1. active' \in [Projects -> BOOLEAN] /\ said' \in [Projects -> {"nothing", "running", "stopped", "off"}]
    BY <1>1 DEF TypeOK, Reserve, Activated
  <2>2. /\ request' \in [Requests -> [of : Projects \union {NoProject},
                                       at : {"idle", "reserved", "stopping"}]]
        /\ pending' \subseteq {request'[s].of : s \in Requests} \ {NoProject}
        /\ \A s \in Requests :
             request'[s] = NoRequest \/ (request'[s].of \in Projects /\ request'[s].at # "idle")
    <3>1. CASE MayStart(p)
      <4>1. /\ request' = [request EXCEPT ![r] = [of |-> p, at |-> "reserved"]]
            /\ pending' \subseteq pending \union {p}
        BY <1>1, <3>1 DEF Reserve
      <4>2. \A s \in Requests :
              request'[s] = IF s = r THEN [of |-> p, at |-> "reserved"] ELSE request[s]
        BY <4>1 DEF TypeOK
      <4>3. ASSUME NEW q \in pending' PROVE q \in {request'[s].of : s \in Requests} \ {NoProject}
        <5>1. CASE q = p  BY <4>2, <5>1
        <5>2. CASE q # p
          <6>1. PICK s \in Requests : q = request[s].of /\ q # NoProject
            BY <4>1, <4>3, <5>2 DEF TypeOK
          <6>2. request[r] = NoRequest
            BY <1>1 DEF Reserve
          <6>3. s # r
            BY <6>1, <6>2 DEF NoRequest
          <6> QED  BY <4>2, <6>1, <6>3
        <5> QED  BY <5>1, <5>2
      <4> QED  BY <4>1, <4>2, <4>3 DEF TypeOK, Whole
    <3>2. CASE ~MayStart(p)
      BY <1>1, <3>2 DEF Reserve, TypeOK, Whole
    <3> QED  BY <3>1, <3>2
  <2>3. starts' \in 0..MaxStarts
    BY <1>1 DEF TypeOK, Reserve
  <2> QED  BY <1>1, <2>1, <2>2, <2>3 DEF TypeOK, Whole, Reserve
<1>2. ASSUME NEW r \in Requests, Launch(r) PROVE Shape'
  <2>1. request[r].of \in Projects /\ RunStart(request[r].of) /\ Released(r)
    BY <1>2 DEF Launch, Whole, NoRequest
  <2>2. said' \in [Projects -> {"nothing", "running", "stopped", "off"}]
    BY <1>2 DEF TypeOK, Launch
  <2> QED  BY <1>2, <2>1, <2>2, StartShape, ReleaseShape DEF TypeOK, Whole, Launch
<1>3. ASSUME NEW r \in Requests, Refused(r) PROVE Shape'
  <2>1. Released(r) /\ trouble' \subseteq Kinds
    BY <1>3 DEF Refused, TypeOK, Trouble, Kinds
  <2> QED  BY <1>3, <2>1, ReleaseShape DEF TypeOK, Whole, Refused
<1>4. ASSUME NEW r \in Requests, Replace(r) PROVE Shape'
  <2>1. \A s \in Requests :
          /\ request'[s].of = request[s].of
          /\ request'[s].at = IF s = r THEN "stopping" ELSE request[s].at
    BY <1>4 DEF TypeOK, Replace
  <2>2. {request'[s].of : s \in Requests} = {request[s].of : s \in Requests}
    BY <2>1
  <2>3. request[r].of \in Projects
    BY <1>4 DEF Whole, Replace, NoRequest
  <2>4. /\ request' \in [Requests -> [of : Projects \union {NoProject},
                                       at : {"idle", "reserved", "stopping"}]]
        /\ \A s \in Requests :
             request'[s] = NoRequest \/ (request'[s].of \in Projects /\ request'[s].at # "idle")
    BY <1>4, <2>3 DEF TypeOK, Whole, Replace
  <2>5. trouble' \subseteq Kinds
    BY <1>4 DEF TypeOK, Replace, Trouble, Kinds
  <2> QED  BY <1>4, <2>2, <2>4, <2>5 DEF TypeOK, Whole, Replace, RunStop, Forget
<1>5. ASSUME NEW p \in Projects, Stop(p) PROVE Shape'
  <2>1. /\ event' \in [Projects -> BOOLEAN] /\ flag' \in [Projects -> BOOLEAN]
        /\ busy' \in [Projects -> {"no", "stop", "replace", "drain"}]
        /\ marker' \in [Projects -> BOOLEAN] /\ active' \in [Projects -> BOOLEAN]
        /\ said' \in [Projects -> {"nothing", "running", "stopped", "off"}]
        /\ task' = task
    BY <1>5 DEF TypeOK, Stop, RunStop, Forget
  <2> QED  BY <1>5, <2>1 DEF TypeOK, Whole, Stop
<1>6. ASSUME NEW p \in Projects, StopReturns(p) PROVE Shape'
  <2>1. /\ walk' \in [Walks -> [of : Projects \union {NoProject},
                                at : {"free", "walking", "left", "over"}]]
        /\ \A v \in Walks : walk'[v] = NoThread \/ (walk'[v].of \in Projects /\ walk'[v].at # "free")
    <3>1. CASE walk' = walk
      BY <3>1 DEF TypeOK, Whole
    <3>2. CASE walk' # walk
      <4>1. task[p] \in Walks /\ walk[task[p]].at = "walking"
        BY <1>6, <3>2 DEF TypeOK, StopReturns
      <4>2. \A v \in Walks :
              walk'[v] = IF v = task[p] THEN [of |-> walk[v].of, at |-> "left"] ELSE walk[v]
        BY <1>6, <3>2 DEF TypeOK, StopReturns
      <4>3. walk' = [v \in Walks |-> walk'[v]]
        BY <1>6, <3>2 DEF TypeOK, StopReturns
      <4> QED  BY <4>1, <4>2, <4>3 DEF TypeOK, Whole, NoThread
    <3> QED  BY <3>1, <3>2
  <2>2. trouble' \subseteq Kinds
    BY <1>6 DEF TypeOK, StopReturns, Trouble, Kinds
  <2>3. /\ active' \in [Projects -> BOOLEAN]
        /\ said' \in [Projects -> {"nothing", "running", "stopped", "off"}]
        /\ task' \in [Projects -> Walks \union {NoWalk}]
        /\ busy' \in [Projects -> {"no", "stop", "replace", "drain"}]
    BY <1>6 DEF TypeOK, StopReturns
  <2> QED  BY <1>6, <2>1, <2>2, <2>3 DEF TypeOK, Whole, StopReturns
<1>7. ASSUME NEW p \in Projects, Resync(p) PROVE Shape'
  <2>1. RunStart(p) /\ swept' \subseteq Projects
    BY <1>7 DEF TypeOK, Resync
  <2> QED  BY <1>7, <2>1, StartShape DEF TypeOK, Whole, Resync
<1>8. ASSUME NEW p \in Projects, ResumeRun(p) PROVE Shape'
  <2>1. CASE RunStart(p)  BY <1>8, <2>1, StartShape DEF TypeOK, Whole, ResumeRun
  <2>2. CASE UNCHANGED <<event, flag, task, walk, marker, active, trouble>>
    BY <1>8, <2>2 DEF TypeOK, Whole, ResumeRun
  <2> QED  BY <1>8, <2>1, <2>2 DEF ResumeRun
<1>9. ASSUME NEW w \in Walks, WalkEnds(w) PROVE Shape'
  <2>1. \A v \in Walks :
          walk'[v] = IF v # w THEN walk[v]
                     ELSE IF walk[w].at = "left" THEN NoThread
                     ELSE [of |-> walk[w].of, at |-> "over"]
    BY <1>9 DEF TypeOK, WalkEnds
  <2>2. /\ walk' \in [Walks -> [of : Projects \union {NoProject},
                                at : {"free", "walking", "left", "over"}]]
        /\ \A v \in Walks : walk'[v] = NoThread \/ (walk'[v].of \in Projects /\ walk'[v].at # "free")
    BY <1>9, <2>1 DEF TypeOK, Whole, WalkEnds, NoThread
  <2>3. trouble' \subseteq Kinds /\ flag' \in [Projects -> BOOLEAN]
    BY <1>9 DEF TypeOK, WalkEnds, Trouble, Kinds
  <2> QED  BY <1>9, <2>2, <2>3 DEF TypeOK, Whole, WalkEnds
<1>10. ASSUME NEW w \in Walks, TaskEnds(w) PROVE Shape'
  BY <1>10 DEF TypeOK, Whole, TaskEnds, NoThread
<1>11. CASE Drain
  BY <1>11 DEF TypeOK, Whole, Drain, Trouble, Kinds
<1>12. CASE Crash
  <2>1. walk' \in [Walks -> [of : Projects \union {NoProject}, at : {"free", "walking", "left", "over"}]]
    BY <1>12 DEF Crash, Fresh, NoThread
  <2>2. request' \in [Requests -> [of : Projects \union {NoProject}, at : {"idle", "reserved", "stopping"}]]
    BY <1>12 DEF Crash, Fresh, NoRequest
  <2>3. trouble' \subseteq Kinds
    <3>1. trouble' = trouble \/ trouble' = trouble \union {"crash"}
      BY <1>12 DEF Crash, Trouble
    <3> QED  BY <3>1 DEF TypeOK, Kinds
  <2>4. Whole'
    BY <1>12 DEF Crash, Fresh, Whole
  <2>5. boot' \subseteq Projects
    BY <1>12 DEF Crash
  <2> QED  BY <1>12, <2>1, <2>2, <2>3, <2>4, <2>5 DEF TypeOK, Crash, Fresh
<1>13. CASE UNCHANGED vars
  BY <1>13 DEF TypeOK, Whole, vars, memory
<1> QED
  BY <1>1, <1>2, <1>3, <1>4, <1>5, <1>6, <1>7, <1>8, <1>9, <1>10, <1>11, <1>12, <1>13 DEF Next

\* Type correctness: a slot is reserved only while a request for its project is
\* under way, whoever returns it, and nothing is left of a thread that is gone.
THEOREM TypeCorrect == Spec => []TypeOK
<1>1. Shape => TypeOK  BY DEF Shape
<1> QED  BY <1>1, InitShape, NextShape, PTL DEF Spec

-----------------------------------------------------------------------------
(* What is stopped stays stopped. *)

\* Before a stop says so, the project is neither marked nor active, and the
\* server will not resume it: there is nothing left to start it by.
Forgot(p) ==
  /\ said[p] = "stopped" => ~Running(p) /\ ~marker[p] /\ ~active[p] /\ p \notin boot
  /\ busy[p] = "stop" => ~marker[p] /\ p \notin boot
Forgotten == \A p \in Projects : Forgot(p)

\* A start concerns its project only.
LEMMA StartElsewhere ==
  ASSUME Shape, NEW p \in Projects, RunStart(p), NEW q \in Projects, q # p
  PROVE  /\ flag'[q] = flag[q] /\ task'[q] = task[q]
         /\ marker'[q] = marker[q] /\ active'[q] = active[q]
BY DEF Shape, TypeOK, RunStart, Activated

LEMMA InitForgotten == Init => Forgotten
BY DEF Init, Forgotten, Forgot

LEMMA NextForgotten == Shape /\ Forgotten /\ [Next]_vars => Forgotten'
<1> SUFFICES ASSUME Shape, Forgotten, [Next]_vars, NEW q \in Projects PROVE Forgot(q)'
  BY DEF Forgotten
<1> USE DEF Shape
<1>q. Forgot(q)
  BY DEF Forgotten
<1>1. ASSUME NEW r \in Requests, NEW p \in Projects, Reserve(r, p) PROVE Forgot(q)'
  <2>1. CASE q = p
    BY <1>q, <1>1, <2>1 DEF TypeOK, Forgot, Reserve, Able
  <2>2. CASE q # p
    BY <1>q, <1>1, <2>2 DEF TypeOK, Forgot, Reserve, Activated, Running
  <2> QED  BY <2>1, <2>2
<1>2. ASSUME NEW r \in Requests, Launch(r) PROVE Forgot(q)'
  <2>1. request[r].of \in Projects /\ RunStart(request[r].of)
    BY <1>2 DEF Launch, Whole, NoRequest
  <2>2. CASE q = request[r].of
    BY <1>2, <2>1, <2>2 DEF TypeOK, Forgot, Launch, RunStart, MayBegin, Locked
  <2>3. CASE q # request[r].of
    BY <1>q, <1>2, <2>1, <2>3, StartElsewhere DEF TypeOK, Forgot, Launch, Running
  <2> QED  BY <2>2, <2>3
<1>3. ASSUME NEW r \in Requests, Refused(r) PROVE Forgot(q)'
  BY <1>q, <1>3 DEF Forgot, Refused, Running
<1>4. ASSUME NEW r \in Requests, Replace(r) PROVE Forgot(q)'
  BY <1>q, <1>4 DEF TypeOK, Forgot, Replace, RunStop, Forget, Running
<1>5. ASSUME NEW p \in Projects, Stop(p) PROVE Forgot(q)'
  <2>1. CASE Running(p)
    BY <1>q, <1>5, <2>1 DEF TypeOK, Forgot, Stop, RunStop, Forget, Running, Able
  <2>2. CASE ~Running(p)
    BY <1>q, <1>5, <2>2 DEF TypeOK, Forgot, Stop, Running
  <2> QED  BY <2>1, <2>2
<1>6. ASSUME NEW p \in Projects, StopReturns(p) PROVE Forgot(q)'
  BY <1>q, <1>6 DEF TypeOK, Forgot, StopReturns, Running
<1>7. ASSUME NEW p \in Projects, Resync(p) PROVE Forgot(q)'
  <2>1. RunStart(p)
    BY <1>7 DEF Resync
  <2>2. CASE q = p
    BY <1>q, <1>7, <2>1, <2>2 DEF Forgot, Resync, ShouldRun, RunStart, MayBegin, Locked
  <2>3. CASE q # p
    BY <1>q, <1>7, <2>1, <2>3, StartElsewhere DEF Forgot, Resync, Running
  <2> QED  BY <2>2, <2>3
<1>8. ASSUME NEW p \in Projects, ResumeRun(p) PROVE Forgot(q)'
  <2>1. CASE RunStart(p)
    <3>1. CASE q = p
      BY <1>q, <1>8, <2>1, <3>1 DEF Forgot, ResumeRun, RunStart, MayBegin, Locked
    <3>2. CASE q # p
      BY <1>q, <1>8, <2>1, <3>2, StartElsewhere DEF Forgot, ResumeRun, Running
    <3> QED  BY <3>1, <3>2
  <2>2. CASE UNCHANGED <<event, flag, task, walk, marker, active, trouble>>
    BY <1>q, <1>8, <2>2 DEF Forgot, ResumeRun, Running
  <2> QED  BY <1>8, <2>1, <2>2 DEF ResumeRun
<1>9. ASSUME NEW w \in Walks, WalkEnds(w) PROVE Forgot(q)'
  BY <1>q, <1>9 DEF TypeOK, Forgot, WalkEnds, Running
<1>10. ASSUME NEW w \in Walks, TaskEnds(w) PROVE Forgot(q)'
  BY <1>q, <1>10 DEF TypeOK, Forgot, TaskEnds, Running
<1>11. CASE Drain
  BY <1>q, <1>11 DEF TypeOK, Forgot, Drain, Running
<1>12. CASE Crash
  BY <1>q, <1>12 DEF TypeOK, Forgot, Crash, Fresh, Running
<1>13. CASE UNCHANGED vars
  BY <1>q, <1>13 DEF Forgot, Running, vars, memory
<1> QED
  BY <1>1, <1>2, <1>3, <1>4, <1>5, <1>6, <1>7, <1>8, <1>9, <1>10, <1>11, <1>12, <1>13 DEF Next

\* StopMeansStop: a request that was under way, the sweep, a restart of the
\* server and what it resumes then, in any order after the stop, start nothing.
THEOREM StoppedStaysStopped == Spec => []StopMeansStop
<1>1. Forgotten => StopMeansStop  BY DEF Forgotten, Forgot, StopMeansStop
<1> QED  BY <1>1, InitShape, NextShape, InitForgotten, NextForgotten, PTL DEF Spec

-----------------------------------------------------------------------------
(* One thread at a time walks a project. *)

\* The service waits for every thread there is, and says that it runs as long as
\* one walks, or holds the lock for its end.
Waited(w) ==
  /\ walk[w].at # "left"
  /\ walk[w].at \in {"walking", "over"} => task[walk[w].of] = w
  /\ walk[w].at = "walking" => flag[walk[w].of] \/ Locked(walk[w].of)

Loose  == trouble \intersect {"slow", "quick"} # {}
AllWaited == Loose \/ \A w \in Walks : Waited(w)

\* What has gone wrong has gone wrong.
LEMMA TroubleStays ==
  ASSUME [Next]_vars PROVE trouble \subseteq trouble'
<1> USE DEF Trouble
<1>s. ASSUME NEW p \in Projects, RunStart(p) PROVE trouble \subseteq trouble'
  BY <1>s DEF RunStart
<1>1. ASSUME NEW r \in Requests, NEW p \in Projects, Reserve(r, p) PROVE trouble \subseteq trouble'
  BY <1>1 DEF Reserve
<1>2. ASSUME NEW r \in Requests, Launch(r) PROVE trouble \subseteq trouble'
  BY <1>2 DEF Launch, RunStart
<1>3. ASSUME NEW r \in Requests, Refused(r) PROVE trouble \subseteq trouble'
  BY <1>3 DEF Refused
<1>4. ASSUME NEW r \in Requests, Replace(r) PROVE trouble \subseteq trouble'
  BY <1>4 DEF Replace
<1>5. ASSUME NEW p \in Projects, Stop(p) PROVE trouble \subseteq trouble'
  BY <1>5 DEF Stop
<1>6. ASSUME NEW p \in Projects, StopReturns(p) PROVE trouble \subseteq trouble'
  BY <1>6 DEF StopReturns
<1>7. ASSUME NEW p \in Projects, Resync(p) PROVE trouble \subseteq trouble'
  BY <1>7, <1>s DEF Resync
<1>8. ASSUME NEW p \in Projects, ResumeRun(p) PROVE trouble \subseteq trouble'
  BY <1>8, <1>s DEF ResumeRun
<1>9. ASSUME NEW w \in Walks, WalkEnds(w) \/ TaskEnds(w) PROVE trouble \subseteq trouble'
  BY <1>9 DEF WalkEnds, TaskEnds
<1>10. CASE Drain \/ Crash
  BY <1>10 DEF Drain, Crash
<1>11. CASE UNCHANGED vars
  BY <1>11 DEF vars
<1> QED
  BY <1>1, <1>2, <1>3, <1>4, <1>5, <1>6, <1>7, <1>8, <1>9, <1>10, <1>11 DEF Next

\* A project that may begin has no thread: one that walks would be running or
\* locked, and one that is over would make the start a quick one.
LEMMA StartWaited ==
  ASSUME Shape, \A w \in Walks : Waited(w), NEW p \in Projects, RunStart(p), busy' = busy,
         "quick" \notin trouble'
  PROVE  \A w \in Walks : Waited(w)'
<1>1. PICK v \in Walks :
        /\ walk' = [walk EXCEPT ![v] = [of |-> p, at |-> "walking"]]
        /\ task' = [task EXCEPT ![p] = v]
  BY DEF RunStart
<1>2. flag' = [flag EXCEPT ![p] = TRUE] /\ flag'[p]
  BY DEF RunStart, Shape, TypeOK
<1>3. Over(p) = {}
  BY DEF RunStart, Trouble
<1> SUFFICES ASSUME NEW w \in Walks PROVE Waited(w)'
  OBVIOUS
<1>4. CASE w = v
  BY <1>1, <1>2, <1>4 DEF Shape, TypeOK, Waited
<1>5. CASE w # v
  <2>1. walk'[w] = walk[w] /\ Waited(w)
    BY <1>1, <1>5 DEF Shape, TypeOK
  <2>2. walk[w].of # p \/ walk[w].at = "free"
    <3> SUFFICES ASSUME walk[w].of = p, walk[w].at # "free" PROVE FALSE
      OBVIOUS
    <3>1. walk[w].at # "over"
      BY <1>3 DEF Over, Shape, TypeOK
    <3>2. walk[w].at = "walking"
      BY <2>1, <3>1 DEF Shape, TypeOK, Waited
    <3>3. task[p] \in Walks /\ (flag[p] \/ Locked(p))
      BY <2>1, <3>2 DEF Waited
    <3>4. task[p] # NoWalk
      BY <3>3, RunsAssumption
    <3> QED  BY <3>3, <3>4 DEF RunStart, MayBegin, Running
  <2>3. CASE walk[w].at = "free"
    BY <2>1, <2>3 DEF Waited
  <2>4. CASE walk[w].of # p /\ walk[w].at # "free"
    <3>1. walk[w].of \in Projects
      BY <2>4 DEF Shape, Whole, NoThread
    <3> QED  BY <1>1, <1>2, <2>1, <2>4, <3>1 DEF Shape, TypeOK, Waited, Locked
  <2> QED  BY <2>2, <2>3, <2>4
<1> QED  BY <1>4, <1>5

LEMMA InitWaited == Init => AllWaited
BY DEF Init, AllWaited, Waited, NoThread

LEMMA NextWaited == Shape /\ AllWaited /\ [Next]_vars => AllWaited'
<1> SUFFICES ASSUME Shape, AllWaited, [Next]_vars, ~Loose' PROVE \A w \in Walks : Waited(w)'
  BY DEF AllWaited
<1>t. trouble \subseteq trouble' /\ "slow" \notin trouble' /\ "quick" \notin trouble'
  BY TroubleStays DEF Loose
<1>w. \A w \in Walks : Waited(w)
  BY <1>t DEF AllWaited, Loose
<1>s. ASSUME NEW p \in Projects, RunStart(p), busy' = busy PROVE \A w \in Walks : Waited(w)'
  BY <1>s, <1>t, <1>w, StartWaited
<1>i. \A w \in Walks : walk[w].at # "free" => walk[w].of \in Projects
  BY DEF Shape, Whole, NoThread
<1> USE DEF Shape
<1>1. ASSUME NEW r \in Requests, NEW p \in Projects, Reserve(r, p) PROVE \A w \in Walks : Waited(w)'
  BY <1>1, <1>w DEF Reserve, Waited, Locked
<1>2. ASSUME NEW r \in Requests, Launch(r) PROVE \A w \in Walks : Waited(w)'
  <2>1. request[r].of \in Projects /\ RunStart(request[r].of) /\ busy' = busy
    BY <1>2 DEF Launch, Whole, NoRequest
  <2> QED  BY <1>s, <2>1
<1>3. ASSUME NEW r \in Requests, Refused(r) PROVE \A w \in Walks : Waited(w)'
  BY <1>3, <1>w DEF Refused, Waited, Locked
<1>4. ASSUME NEW r \in Requests, Replace(r) PROVE \A w \in Walks : Waited(w)'
  <2>1. /\ busy' = [busy EXCEPT ![request[r].of] = "replace"]
        /\ flag' = [flag EXCEPT ![request[r].of] = FALSE]
        /\ UNCHANGED <<walk, task>>
    BY <1>4 DEF Replace, RunStop
  <2> QED  BY <1>w, <1>i, <2>1 DEF TypeOK, Waited, Locked
<1>5. ASSUME NEW p \in Projects, Stop(p) PROVE \A w \in Walks : Waited(w)'
  <2>1. UNCHANGED <<walk, task>>
    BY <1>5 DEF Stop, RunStop
  <2>2. \/ /\ busy' = [busy EXCEPT ![p] = "stop"]
           /\ flag' = [flag EXCEPT ![p] = FALSE]
        \/ UNCHANGED <<busy, flag>>
    BY <1>5 DEF Stop, RunStop
  <2> QED  BY <1>w, <1>i, <2>1, <2>2 DEF TypeOK, Waited, Locked
<1>6. ASSUME NEW p \in Projects, StopReturns(p) PROVE \A w \in Walks : Waited(w)'
  <2>1. task[p] = NoWalk
    BY <1>6, <1>t DEF StopReturns, Trouble
  <2>2. /\ walk' = walk /\ flag' = flag
        /\ task' = [task EXCEPT ![p] = NoWalk]
        /\ busy' = [busy EXCEPT ![p] = "no"]
    BY <1>6, <2>1 DEF StopReturns
  <2>3. \A w \in Walks : walk[w].at # "free" => walk[w].of # p
    BY <1>w, <2>1, RunsAssumption DEF TypeOK, Waited
  <2> QED  BY <1>w, <1>i, <2>2, <2>3 DEF TypeOK, Waited, Locked
<1>7. ASSUME NEW p \in Projects, Resync(p) PROVE \A w \in Walks : Waited(w)'
  BY <1>7, <1>s DEF Resync
<1>8. ASSUME NEW p \in Projects, ResumeRun(p) PROVE \A w \in Walks : Waited(w)'
  <2>1. CASE RunStart(p)  BY <1>8, <1>s, <2>1 DEF ResumeRun
  <2>2. CASE UNCHANGED <<event, flag, task, walk, marker, active, trouble>>
    BY <1>8, <1>w, <2>2 DEF ResumeRun, Waited, Locked
  <2> QED  BY <1>8, <2>1, <2>2 DEF ResumeRun
<1>9. ASSUME NEW v \in Walks, WalkEnds(v) PROVE \A w \in Walks : Waited(w)'
  <2>1. walk[v].at = "walking"
    BY <1>9, <1>w DEF TypeOK, WalkEnds, Waited
  <2>2. \A w \in Walks : walk'[w] = IF w = v THEN [of |-> walk[v].of, at |-> "over"] ELSE walk[w]
    BY <1>9, <2>1 DEF TypeOK, WalkEnds
  <2>3. \A w \in Walks : w # v /\ walk[w].at # "free" => walk[w].of # walk[v].of
    BY <1>w, <2>1 DEF TypeOK, Waited
  <2>4. UNCHANGED <<task, busy>> /\ flag' = [flag EXCEPT ![walk[v].of] = FALSE]
    BY <1>9 DEF WalkEnds
  <2> QED  BY <1>w, <1>i, <2>1, <2>2, <2>3, <2>4 DEF TypeOK, Waited, Locked
<1>10. ASSUME NEW v \in Walks, TaskEnds(v) PROVE \A w \in Walks : Waited(w)'
  <2>1. walk[v].at = "over"
    BY <1>10 DEF TaskEnds
  <2>2. \A w \in Walks : walk'[w] = IF w = v THEN NoThread ELSE walk[w]
    BY <1>10 DEF TypeOK, TaskEnds
  <2>3. \A w \in Walks : w # v /\ walk[w].at # "free" => walk[w].of # walk[v].of
    BY <1>w, <2>1 DEF TypeOK, Waited
  <2>4. /\ busy' = busy /\ flag' = [flag EXCEPT ![walk[v].of] = FALSE]
        /\ \A p \in Projects : p # walk[v].of => task'[p] = task[p]
    BY <1>10 DEF TypeOK, TaskEnds
  <2> QED  BY <1>w, <1>i, <2>1, <2>2, <2>3, <2>4 DEF TypeOK, Waited, Locked, NoThread
<1>11. CASE Drain
  <2>1. UNCHANGED <<walk, task>>
    BY <1>11 DEF Drain
  <2>2. \A p \in Projects : (Running(p) => busy'[p] = "drain") /\ busy[p] = "no"
    BY <1>11 DEF Drain, Locked
  <2>3. ASSUME NEW w \in Walks, walk[w].at = "walking" PROVE Locked(walk[w].of)'
    <3>1. walk[w].of \in Projects
      BY <1>i, <2>3
    <3>2. flag[walk[w].of] /\ task[walk[w].of] = w
      BY <1>w, <2>2, <2>3, <3>1 DEF Waited, Locked
    <3>3. Running(walk[w].of)
      BY <3>2, RunsAssumption DEF Running
    <3>4. walk'[w].of = walk[w].of
      BY <2>1
    <3>5. busy'[walk[w].of] = "drain"
      BY <2>2, <3>1, <3>3
    <3> QED  BY <3>4, <3>5 DEF Locked
  <2> QED  BY <1>w, <2>1, <2>3 DEF Waited
<1>12. CASE Crash
  BY <1>12 DEF Crash, Fresh, Waited, NoThread
<1>13. CASE UNCHANGED vars
  BY <1>13, <1>w DEF Waited, Locked, vars, memory
<1> QED
  BY <1>1, <1>2, <1>3, <1>4, <1>5, <1>6, <1>7, <1>8, <1>9, <1>10, <1>11, <1>12, <1>13 DEF Next

\* A set whose members are all the same has at most one.
LEMMA AtMostOne ==
  ASSUME NEW S, \A x, y \in S : x = y
  PROVE  Cardinality(S) <= 1
<1>1. CASE S = {}
  BY <1>1, FS_EmptySet
<1>2. CASE S # {}
  <2>1. PICK x \in S : TRUE
    BY <1>2
  <2>2. S = {x}
    BY <2>1
  <2> QED  BY <2>2, FS_Singleton
<1> QED  BY <1>1, <1>2

\* OneWalk: stops, starts, the sweep and a restart, interleaved with the ends of
\* the threads and of the tasks that wait for them, put no second thread on a
\* project, but for the two troubles the property names.
THEOREM OneWalkAtATime == Spec => []OneWalk
<1>1. Shape /\ AllWaited => OneWalk
  <2> SUFFICES ASSUME Shape, \A w \in Walks : Waited(w), NEW p \in Projects
               PROVE Cardinality(Walking(p)) <= 1
    BY DEF AllWaited, Loose, OneWalk
  <2>1. \A v \in Walking(p) : task[p] = v
    BY DEF Walking, Waited
  <2> QED  BY <2>1, AtMostOne
<1> QED  BY <1>1, InitShape, NextShape, InitWaited, NextWaited, PTL DEF Spec

-----------------------------------------------------------------------------
(* Requests and restarts keep the cap. *)

\* A service under its lock does not say that it runs, and nothing else is under
\* way while the server resumes what was running.
StillWhenLocked == \A p \in Projects : Locked(p) => ~flag[p]
BootIsAlone == boot # {} => swept = {} /\ \A r \in Requests : request[r] = NoRequest
Quiet == StillWhenLocked /\ BootIsAlone

\* What counts against the cap: the runs the sweep did not start, and what the
\* requests that are under way will start.  A request that waits for a lock has
\* its reservation; one that does not goes on before anybody else is let in.
Claims  == {request[r].of : r \in Requests} \ {NoProject}
Counted == Unswept \union (Claims \ swept)
Within  == /\ Cardinality(Counted) <= Cap
           /\ \A p \in Claims : Locked(p) => p \in pending
Amiss   == trouble \intersect {"zombie", "fails"} # {}

LEMMA InitQuiet == Init => Quiet
BY DEF Init, Quiet, StillWhenLocked, BootIsAlone, Locked

LEMMA NextQuiet == Shape /\ Quiet /\ [Next]_vars => Quiet'
<1> SUFFICES ASSUME Shape, StillWhenLocked, BootIsAlone, [Next]_vars
             PROVE StillWhenLocked' /\ BootIsAlone'
  BY DEF Quiet
<1> USE DEF Shape, StillWhenLocked, BootIsAlone, Locked
<1>1. ASSUME NEW r \in Requests, NEW p \in Projects, Reserve(r, p) PROVE StillWhenLocked' /\ BootIsAlone'
  BY <1>1 DEF Reserve, Able
<1>2. ASSUME NEW r \in Requests, Launch(r) PROVE StillWhenLocked' /\ BootIsAlone'
  BY <1>2 DEF TypeOK, Launch, RunStart, MayBegin, Released
<1>3. ASSUME NEW r \in Requests, Refused(r) PROVE StillWhenLocked' /\ BootIsAlone'
  BY <1>3 DEF TypeOK, Refused, Released
<1>4. ASSUME NEW r \in Requests, Replace(r) PROVE StillWhenLocked' /\ BootIsAlone'
  <2>1. boot = {} /\ boot' = boot
    BY <1>4 DEF Replace, NoRequest
  <2> QED  BY <1>4, <2>1 DEF TypeOK, Replace, RunStop
<1>5. ASSUME NEW p \in Projects, Stop(p) PROVE StillWhenLocked' /\ BootIsAlone'
  <2>1. \/ /\ busy' = [busy EXCEPT ![p] = "stop"]
           /\ flag' = [flag EXCEPT ![p] = FALSE]
        \/ UNCHANGED <<busy, flag>>
    BY <1>5 DEF Stop, RunStop
  <2> QED  BY <1>5, <2>1 DEF TypeOK, Stop
<1>6. ASSUME NEW p \in Projects, StopReturns(p) PROVE StillWhenLocked' /\ BootIsAlone'
  BY <1>6 DEF TypeOK, StopReturns
<1>7. ASSUME NEW p \in Projects, Resync(p) PROVE StillWhenLocked' /\ BootIsAlone'
  BY <1>7 DEF TypeOK, Resync, RunStart, MayBegin
<1>8. ASSUME NEW p \in Projects, ResumeRun(p) PROVE StillWhenLocked' /\ BootIsAlone'
  BY <1>8 DEF TypeOK, ResumeRun, RunStart, MayBegin
<1>9. ASSUME NEW w \in Walks, WalkEnds(w) \/ TaskEnds(w) PROVE StillWhenLocked' /\ BootIsAlone'
  BY <1>9 DEF TypeOK, WalkEnds, TaskEnds
<1>10. CASE Drain
  BY <1>10 DEF TypeOK, Drain
<1>11. CASE Crash
  BY <1>11 DEF Crash, Fresh
<1>12. CASE UNCHANGED vars
  BY <1>12 DEF vars, memory
<1> QED
  BY <1>1, <1>2, <1>3, <1>4, <1>5, <1>6, <1>7, <1>8, <1>9, <1>10, <1>11, <1>12 DEF Next

\* The sets that are counted are finite, and count accordingly.
LEMMA Counts ==
  ASSUME NEW S \in SUBSET Projects
  PROVE  /\ IsFiniteSet(S) /\ Cardinality(S) \in Nat
         /\ \A T \in SUBSET S : Cardinality(T) \in Nat /\ Cardinality(T) <= Cardinality(S)
         /\ \A p : Cardinality(S \union {p}) <= Cardinality(S) + 1
<1>1. IsFiniteSet(S)
  BY RunsAssumption, FS_Subset
<1>2. Cardinality(S) \in Nat
  BY <1>1, FS_CardinalityType
<1>3. ASSUME NEW T \in SUBSET S PROVE Cardinality(T) \in Nat /\ Cardinality(T) <= Cardinality(S)
  BY <1>1, FS_Subset, FS_CardinalityType
<1>4. ASSUME NEW p PROVE Cardinality(S \union {p}) <= Cardinality(S) + 1
  BY <1>1, <1>2, FS_AddElement
<1> QED  BY <1>1, <1>2, <1>3, <1>4

\* What is counted are projects.
LEMMA CountedAreProjects ==
  ASSUME Shape PROVE /\ Counted \subseteq Projects /\ Occupied \subseteq Projects
                     /\ pending \subseteq Claims /\ NoProject \notin Claims
BY DEF Shape, TypeOK, Counted, Claims, Unswept, Occupied

\* A step that starts nothing it has not claimed.
LEMMA FewerCounted ==
  ASSUME Shape, Within, Counted' \subseteq Counted
  PROVE  Cardinality(Counted') <= Cap
<1>1. Counted \in SUBSET Projects
  BY CountedAreProjects
<1>2. Cardinality(Counted) \in Nat /\ Cardinality(Counted') \in Nat
      /\ Cardinality(Counted') <= Cardinality(Counted)
  BY <1>1, Counts
<1> QED  BY <1>2, RunsAssumption DEF Within

\* A step that starts or claims one project when there is room.
LEMMA OneMoreCounted ==
  ASSUME Shape, NEW p \in Projects, Cardinality(Occupied) < Cap, Counted \subseteq Occupied,
         Counted' \subseteq Counted \union {p}
  PROVE  Cardinality(Counted') <= Cap
<1>1. Occupied \in SUBSET Projects /\ Occupied \union {p} \in SUBSET Projects
  BY CountedAreProjects
<1>2. Counted' \in SUBSET (Occupied \union {p})
  OBVIOUS
<1>3. Cardinality(Counted') \in Nat /\ Cardinality(Counted') <= Cardinality(Occupied \union {p})
  BY <1>1, <1>2, Counts
<1>4. Cardinality(Occupied) \in Nat /\ Cardinality(Occupied \union {p}) \in Nat
      /\ Cardinality(Occupied \union {p}) <= Cardinality(Occupied) + 1
  BY <1>1, Counts
<1> QED  BY <1>3, <1>4, RunsAssumption

LEMMA InitWithin == Init => Amiss \/ Within
<1> SUFFICES ASSUME Init PROVE Within
  OBVIOUS
<1>1. Counted = {} /\ Claims = {}
  BY DEF Init, Counted, Claims, Unswept, Running, NoRequest
<1> QED  BY <1>1, FS_EmptySet, RunsAssumption DEF Within

LEMMA NextWithin == Shape /\ Quiet /\ (Amiss \/ Within) /\ [Next]_vars => (Amiss \/ Within)'
<1> SUFFICES ASSUME Shape, StillWhenLocked, BootIsAlone, Amiss \/ Within, [Next]_vars, ~Amiss'
             PROVE Within'
  BY DEF Quiet
<1>t. Within /\ "zombie" \notin trouble' /\ "fails" \notin trouble'
  BY TroubleStays DEF Amiss
<1>c. \A q : q \in Claims <=> q # NoProject /\ \E r \in Requests : request[r].of = q
  BY DEF Claims
<1>d. \A q : q \in Claims' <=> q # NoProject /\ \E r \in Requests : request'[r].of = q
  BY DEF Claims
<1>p. Claims \subseteq Projects /\ pending \subseteq Claims
  BY CountedAreProjects DEF Shape, TypeOK, Claims
<1>l. \A q \in Claims : Locked(q) => q \in pending
  BY <1>t DEF Within
<1>f. ASSUME \A q \in Projects \ swept' : Running(q)' => q \in Counted, swept \subseteq swept',
             Claims' \subseteq Claims, \A q \in Claims' : Locked(q)' => q \in pending'
      PROVE  Within'
  <2>1. Counted' \subseteq Counted
    BY <1>f DEF Counted, Unswept
  <2> QED  BY <1>f, <1>t, <2>1, FewerCounted DEF Within
<1>r. \A q \in Projects \ swept : Running(q) => q \in Counted
  BY DEF Counted, Unswept
<1> USE DEF Shape
<1>1. ASSUME NEW r \in Requests, NEW p \in Projects, Reserve(r, p) PROVE Within'
  <2>1. \A q \in Claims : Locked(q) /\ q \in pending
    BY <1>1, <1>c, <1>l, <1>p DEF Reserve, Able, Settled
  <2>2. Counted \subseteq Occupied
    BY <2>1 DEF Counted, Unswept, Occupied
  <2>3. UNCHANGED <<flag, task, busy, swept>>
    BY <1>1 DEF Reserve
  <2>4. CASE MayStart(p)
    <3>1. \A s \in Requests :
            request'[s] = IF s = r THEN [of |-> p, at |-> "reserved"] ELSE request[s]
      BY <1>1, <2>4 DEF TypeOK, Reserve
    <3>2. Claims' \subseteq Claims \union {p}
      BY <1>c, <1>d, <3>1
    <3>3. Locked(p) => p \in pending'
      BY <1>1, <2>4 DEF Reserve, StillWhenLocked, Occupied, Running
    <3>4. pending \subseteq pending'
      BY <1>1, <2>4 DEF Reserve
    <3>5. \A q \in Claims' : Locked(q)' => q \in pending'
      BY <1>l, <2>3, <3>2, <3>3, <3>4 DEF Locked
    <3>6. Counted' \subseteq Counted \union {p}
      BY <2>3, <3>2 DEF Counted, Unswept, Running
    <3>7. CASE p \in Occupied
      <4>1. p \in Counted \/ p \in swept
        BY <1>p, <3>7 DEF Occupied, Counted, Unswept
      <4>2. Counted' \subseteq Counted
        BY <2>3, <3>6, <4>1 DEF Counted, Unswept
      <4> QED  BY <1>t, <3>5, <4>2, FewerCounted DEF Within
    <3>8. CASE p \notin Occupied
      <4>1. Cardinality(Occupied) < Cap
        BY <2>4, <3>8 DEF MayStart
      <4> QED  BY <2>2, <3>5, <3>6, <4>1, OneMoreCounted DEF Within
    <3> QED  BY <3>7, <3>8
  <2>5. CASE ~MayStart(p)
    <3>1. UNCHANGED <<request, pending>>
      BY <1>1, <2>5 DEF Reserve
    <3>2. Claims' = Claims
      BY <3>1 DEF Claims
    <3> QED  BY <1>f, <1>r, <1>l, <2>3, <3>1, <3>2 DEF Running, Locked
  <2> QED  BY <2>4, <2>5
<1>2. ASSUME NEW r \in Requests, Launch(r) PROVE Within'
  <2> DEFINE p == request[r].of
  <2>1. /\ p \in Projects /\ p \in Claims /\ RunStart(p) /\ Released(r)
        /\ UNCHANGED <<busy, swept>>
    BY <1>2, <1>c, RunsAssumption DEF Launch, Whole, NoRequest
  <2>2. \A s \in Requests : request'[s] = IF s = r THEN NoRequest ELSE request[s]
    BY <2>1 DEF TypeOK, Released
  <2>3. Claims' \subseteq Claims
    BY <1>c, <1>d, <2>2 DEF NoRequest
  <2>4. \A q \in Projects : q # p => (Running(q)' <=> Running(q))
    BY <2>1, StartElsewhere DEF Running
  <2>5. \A q \in Claims' : Locked(q)' => q \in pending'
    BY <1>l, <2>1, <2>3 DEF Released, RunStart, MayBegin, Locked
  <2>6. \A q \in Projects \ swept' : Running(q)' => q \in Counted
    BY <1>r, <2>1, <2>4 DEF Counted
  <2> QED  BY <1>f, <2>1, <2>3, <2>5, <2>6
<1>3. ASSUME NEW r \in Requests, Refused(r) PROVE Within'
  <2> DEFINE p == request[r].of
  <2>1. /\ ~Locked(p) /\ Released(r)
        /\ UNCHANGED <<flag, task, busy, swept>>
    BY <1>3 DEF Refused
  <2>2. \A s \in Requests : request'[s] = IF s = r THEN NoRequest ELSE request[s]
    BY <2>1 DEF TypeOK, Released
  <2>3. Claims' \subseteq Claims
    BY <1>c, <1>d, <2>2 DEF NoRequest
  <2>5. \A q \in Claims' : Locked(q)' => q \in pending'
    BY <1>l, <2>1, <2>3 DEF Released, Locked
  <2> QED  BY <1>f, <1>r, <2>1, <2>3, <2>5 DEF Running
<1>4. ASSUME NEW r \in Requests, Replace(r) PROVE Within'
  BY <1>4, <1>t DEF Replace, Trouble
<1>5. ASSUME NEW p \in Projects, Stop(p) PROVE Within'
  <2>1. UNCHANGED <<task, pending, request, swept>>
    BY <1>5 DEF Stop, RunStop
  <2>2. \/ /\ busy' = [busy EXCEPT ![p] = "stop"]
           /\ flag' = [flag EXCEPT ![p] = FALSE]
        \/ UNCHANGED <<busy, flag>>
    BY <1>5 DEF Stop, RunStop
  <2>3. p \notin Claims
    BY <1>5, <1>c DEF Stop, Able, Settled
  <2>4. Claims' = Claims
    BY <2>1 DEF Claims
  <2>5. \A q \in Claims' : Locked(q)' => q \in pending'
    BY <1>l, <1>p, <2>1, <2>2, <2>3, <2>4 DEF TypeOK, Locked
  <2>6. \A q \in Projects : Running(q)' => Running(q)
    BY <2>1, <2>2 DEF TypeOK, Running
  <2> QED  BY <1>f, <1>r, <2>1, <2>4, <2>5, <2>6
<1>6. ASSUME NEW p \in Projects, StopReturns(p) PROVE Within'
  <2>1. /\ UNCHANGED <<flag, pending, request, swept>>
        /\ task' = [task EXCEPT ![p] = NoWalk] /\ busy' = [busy EXCEPT ![p] = "no"]
    BY <1>6 DEF StopReturns
  <2>2. Claims' = Claims
    BY <2>1 DEF Claims
  <2>3. \A q \in Projects : (Running(q)' => Running(q)) /\ (Locked(q)' => Locked(q))
    BY <2>1 DEF TypeOK, Running, Locked
  <2> QED  BY <1>f, <1>l, <1>p, <1>r, <2>1, <2>2, <2>3
<1>7. ASSUME NEW p \in Projects, Resync(p) PROVE Within'
  <2>1. /\ RunStart(p) /\ swept' = swept \union {p}
        /\ UNCHANGED <<busy, pending, request>>
    BY <1>7 DEF Resync
  <2>2. Claims' = Claims
    BY <2>1 DEF Claims
  <2>3. \A q \in Projects : q # p => (Running(q)' <=> Running(q))
    BY <2>1, StartElsewhere DEF Running
  <2> QED  BY <1>f, <1>l, <1>r, <2>1, <2>2, <2>3 DEF Locked
<1>8. ASSUME NEW p \in Projects, ResumeRun(p) PROVE Within'
  <2>1. /\ UNCHANGED <<busy, pending, request, swept>>
        /\ swept = {} /\ Claims = {} /\ pending = {}
    BY <1>8, <1>c, <1>p DEF ResumeRun, BootIsAlone, NoRequest
  <2>2. Claims' = {}
    BY <2>1 DEF Claims
  <2>3. CASE MayStart(p) /\ RunStart(p)
    <3>1. Occupied = Counted
      BY <2>1 DEF Occupied, Counted, Unswept
    <3>2. p \notin Occupied
      BY <2>1, <2>3 DEF Occupied, RunStart, MayBegin
    <3>3. \A q \in Projects : q # p => (Running(q)' <=> Running(q))
      BY <2>3, StartElsewhere DEF Running
    <3>4. Counted' \subseteq Counted \union {p}
      BY <2>1, <2>2, <3>3 DEF Counted, Unswept
    <3> QED  BY <2>2, <2>3, <3>1, <3>2, <3>4, OneMoreCounted DEF MayStart, Within
  <2>4. CASE UNCHANGED <<event, flag, task, walk, marker, active, trouble>>
    BY <1>f, <1>r, <2>1, <2>2, <2>4 DEF Running
  <2> QED  BY <1>8, <2>3, <2>4 DEF ResumeRun
<1>9. ASSUME NEW w \in Walks, WalkEnds(w) \/ TaskEnds(w) PROVE Within'
  <2>1. /\ UNCHANGED <<busy, pending, request, swept>>
        /\ \A q \in Projects : Running(q)' => Running(q)
    BY <1>9 DEF TypeOK, WalkEnds, TaskEnds, Running
  <2>2. Claims' = Claims
    BY <2>1 DEF Claims
  <2> QED  BY <1>f, <1>l, <1>r, <2>1, <2>2 DEF Locked
<1>10. CASE Drain
  <2>1. /\ UNCHANGED <<pending, request, swept>>
        /\ \A q \in Projects : Running(q)' => Running(q)
    BY <1>10 DEF TypeOK, Drain, Running
  <2>2. Claims = {} /\ Claims' = Claims
    BY <1>10, <1>c, <2>1 DEF Drain, NoRequest, Claims
  <2> QED  BY <1>f, <1>r, <2>1, <2>2
<1>11. CASE Crash
  <2>1. Counted' = {} /\ Claims' = {}
    BY <1>11, <1>d DEF Crash, Fresh, Counted, Unswept, Running, NoRequest
  <2> QED  BY <2>1, FS_EmptySet, RunsAssumption DEF Within
<1>12. CASE UNCHANGED vars
  <2>1. UNCHANGED <<flag, task, busy, pending, request, swept>>
    BY <1>12 DEF vars, memory
  <2>2. Claims' = Claims
    BY <2>1 DEF Claims
  <2> QED  BY <1>f, <1>l, <1>r, <2>1, <2>2 DEF Locked, Running
<1> QED
  BY <1>1, <1>2, <1>3, <1>4, <1>5, <1>6, <1>7, <1>8, <1>9, <1>10, <1>11, <1>12 DEF Next

\* CapKept: what two requests read of the slots, between their reservations and
\* their starts, and what a restarted server resumes, is never more than there
\* is room for, but for the two troubles the property names.
THEOREM CapIsKept == Spec => []CapKept
<1>1. Shape /\ (Amiss \/ Within) => CapKept
  <2> SUFFICES ASSUME Shape, Within PROVE Cardinality(Unswept) <= Cap
    BY DEF Amiss, CapKept
  <2>1. Counted \in SUBSET Projects /\ Unswept \in SUBSET Counted
    BY CountedAreProjects DEF Counted
  <2>2. /\ Cardinality(Unswept) \in Nat /\ Cardinality(Counted) \in Nat
        /\ Cardinality(Unswept) <= Cardinality(Counted)
    BY <2>1, Counts
  <2> QED  BY <2>2, RunsAssumption DEF Within
<1> QED  BY <1>1, InitShape, NextShape, InitQuiet, NextQuiet, InitWithin, NextWithin, PTL DEF Spec

-----------------------------------------------------------------------------
(* The pauses of workflows.  PauseTypeOK is inductive because it speaks of *)
(* the rows in the sweep's hand too: a retry commits the count it has read *)
(* plus one, and stays under the cap because the row in hand was under it  *)
(* and was the system's.                                                   *)

\* What the primitives make of a row.
LEMMA RowsStayRows ==
  ASSUME NEW row \in Row, NEW why \in Reasons
  PROVE  /\ Paused(row, why) \in Row /\ Resumed \in Row /\ ForceResumed(row) \in Row
         /\ \A s \in {"active", "paused", "completed", "failed"} :
              [row EXCEPT !.status = s] \in Row
         /\ \A s \in {"active", "paused", "completed", "failed"} :
              [row EXCEPT !.status = s, !.by = None] \in Row
<1> USE PauseAssumption DEF Row
<1>1. Resumed \in Row  BY DEF Resumed
<1>2. Paused(row, why) \in Row  BY DEF Paused
<1>3. ForceResumed(row) \in Row  BY <1>1 DEF ForceResumed
<1>4. \A s \in {"active", "paused", "completed", "failed"} : [row EXCEPT !.status = s] \in Row
  OBVIOUS
<1>5. \A s \in {"active", "paused", "completed", "failed"} :
        [row EXCEPT !.status = s, !.by = None] \in Row
  OBVIOUS
<1> QED  BY <1>1, <1>2, <1>3, <1>4, <1>5

\* A row the sweep commits: the count it read stays under the cap.
LEMMA RetryRowIsRow ==
  ASSUME PauseTypeOK, NEW w \in Workflows, NEW row \in Row,
         row.by \in {"system", "system-exhausted"}
  PROVE  RetryRow(w, row) \in Row
BY PauseAssumption DEF PauseTypeOK, Row, RetryRow, Retried, Resumed, Reasons

LEMMA InitType == PauseInit => PauseTypeOK
BY PauseAssumption DEF PauseInit, PauseTypeOK, Row, Resumed, Reasons, Work, Idle

LEMMA NextType == PauseTypeOK /\ [PauseNext]_pauseVars => PauseTypeOK'
<1> SUFFICES ASSUME PauseTypeOK, [PauseNext]_pauseVars PROVE PauseTypeOK'
  OBVIOUS
<1> USE PauseAssumption
<1>r. \A w \in Workflows : wf[w] \in Row
  BY DEF PauseTypeOK
<1>p. \A w \in Workflows, why \in Reasons :
        /\ Paused(wf[w], why) \in Row /\ ForceResumed(wf[w]) \in Row
        /\ [wf[w] EXCEPT !.status = "active"] \in Row
        /\ [wf[w] EXCEPT !.status = "completed"] \in Row
        /\ [wf[w] EXCEPT !.status = "failed"] \in Row
        /\ [wf[w] EXCEPT !.status = "active", !.by = None] \in Row
  BY <1>r, RowsStayRows
<1>q. Resumed \in Row /\ [Resumed EXCEPT !.status = "completed"] \in Row
  BY DEF Resumed, Row
<1>h. revived' \subseteq Workflows
  BY DEF PauseTypeOK, PauseNext, pauseVars
<1>o. \A w \in Workflows : Outrun(w) \in [Workflows -> {"no", "asked", "outrun"}]
  BY DEF PauseTypeOK, Outrun
<1> USE <1>h
<1>1. ASSUME NEW w \in Workflows, Phases(w) PROVE PauseTypeOK'
  <2>1. CASE Deliver(w)     BY <2>1 DEF PauseTypeOK, Deliver, Work
  <2>2. CASE Fail(w)        BY <2>2 DEF PauseTypeOK, Fail, Work
  <2>3. CASE LimitHit(w)
    <3>1. Paused(wf[w], "system") \in Row  BY <1>p DEF Reasons
    <3> QED  BY <2>3, <3>1 DEF PauseTypeOK, LimitHit, Work
  <2>4. CASE Advance(w)     BY <2>4, <1>o DEF PauseTypeOK, Advance, Work
  <2>5. CASE Redispatch(w)  BY <2>5 DEF PauseTypeOK, Redispatch, Work
  <2>6. CASE Complete(w)
    <3>1. Paused(wf[w], "review") \in Row /\ [wf[w] EXCEPT !.status = "completed"] \in Row
      BY <1>p DEF Reasons
    <3> QED  BY <2>6, <3>1 DEF PauseTypeOK, Complete
  <2>7. CASE Poll(w)
    <3>1. [wf[w] EXCEPT !.status = "completed"] \in Row  BY <1>p DEF Reasons
    <3> QED  BY <2>7, <3>1 DEF PauseTypeOK, Poll
  <2> QED  BY <1>1, <2>1, <2>2, <2>3, <2>4, <2>5, <2>6, <2>7 DEF Phases
<1>2. ASSUME NEW w \in Workflows, People(w) PROVE PauseTypeOK'
  <2>c. ASSUME Click PROVE clicks' \in 0..MaxClicks /\ sweep' = sweep
    BY <2>c DEF PauseTypeOK, Click
  <2>i. Interrupted(w) \in [Workflows -> Work]
    BY DEF PauseTypeOK, Interrupted, Work
  <2>u. Paused(wf[w], "user") \in Row  BY <1>p DEF Reasons
  <2>1. CASE StopWorkflow(w)    BY <2>1, <2>c DEF PauseTypeOK, StopWorkflow
  <2>9. CASE Stopped(w)         BY <2>9, <2>i, <2>u DEF PauseTypeOK, Stopped
  <2>2. CASE PauseFeature(w)    BY <2>2, <2>c, <2>i, <2>u DEF PauseTypeOK, PauseFeature
  <2>3. CASE CancelWorkflow(w)
    <3>1. [wf[w] EXCEPT !.status = "failed"] \in Row  BY <1>p DEF Reasons
    <3> QED  BY <2>3, <2>c, <3>1 DEF PauseTypeOK, CancelWorkflow, Work
  <2>4. CASE ResumeWorkflow(w)
    <3>1. ForceResumed(wf[w]) \in Row  BY <1>p DEF Reasons
    <3> QED  BY <2>4, <2>c, <3>1 DEF PauseTypeOK, ResumeWorkflow
  <2>5. CASE ResumeFeature(w)
    <3>1. /\ ForceResumed(wf[w]) \in Row
          /\ [wf[w] EXCEPT !.status = "active", !.by = None] \in Row
      BY <1>p DEF Reasons
    <3> QED  BY <2>5, <2>c, <1>r, <3>1 DEF PauseTypeOK, ResumeFeature, Work
  <2>6. CASE RestartTask(w)
    <3>1. ForceResumed(wf[w]) \in Row /\ [wf[w] EXCEPT !.status = "active"] \in Row
      BY <1>p DEF Reasons
    <3> QED  BY <2>6, <2>c, <1>r, <3>1 DEF PauseTypeOK, RestartTask, Work
  <2>7. CASE Approve(w)
    <3>1. ForceResumed(wf[w]) \in Row  BY <1>p DEF Reasons
    <3> QED  BY <2>7, <2>c, <1>q, <3>1 DEF PauseTypeOK, Approve
  <2>8. CASE RequestChanges(w)  BY <2>8, <2>c, <1>o DEF PauseTypeOK, RequestChanges, Work
  <2> QED  BY <1>2, <2>1, <2>2, <2>3, <2>4, <2>5, <2>6, <2>7, <2>8, <2>9 DEF People
<1>3. CASE Spend
  <2>1. \A w \in Workflows : Paused(wf[w], "budget") \in Row  BY <1>p DEF Reasons
  <2>2. wf' \in [Workflows -> Row]  BY <1>3, <1>r, <2>1 DEF Spend
  <2>3. work' \in [Workflows -> Work]  BY <1>3 DEF PauseTypeOK, Spend, Work
  <2> QED  BY <1>3, <2>2, <2>3 DEF PauseTypeOK, Spend
<1>4. CASE StopProject
  <2>1. \A w \in Workflows : Paused(wf[w], "user") \in Row  BY <1>p DEF Reasons
  <2>2. wf' \in [Workflows -> Row]  BY <1>4, <1>r, <2>1 DEF StopProject
  <2>3. work' \in [Workflows -> Work]  BY <1>4 DEF PauseTypeOK, StopProject, Work
  <2>4. project' \in [active : BOOLEAN, over : BOOLEAN]  BY <1>4 DEF PauseTypeOK, StopProject
  <2>5. clicks' \in 0..MaxClicks /\ sweep' = sweep  BY <1>4 DEF PauseTypeOK, StopProject, Click
  <2> QED  BY <1>4, <2>2, <2>3, <2>4, <2>5 DEF PauseTypeOK, StopProject
<1>5. CASE Play
  <2>1. \A w \in Workflows : ForceResumed(wf[w]) \in Row  BY <1>p DEF Reasons
  <2>2. wf' \in [Workflows -> Row]  BY <1>5, <1>r, <2>1 DEF Play
  <2>4. project' \in [active : BOOLEAN, over : BOOLEAN]  BY <1>5 DEF PauseTypeOK, Play
  <2>5. clicks' \in 0..MaxClicks /\ sweep' = sweep  BY <1>5 DEF PauseTypeOK, Play, Click
  <2> QED  BY <1>5, <2>2, <2>4, <2>5 DEF PauseTypeOK, Play
<1>6. CASE RaiseLimit
  <2>1. \A w \in Workflows : ForceResumed(wf[w]) \in Row  BY <1>p DEF Reasons
  <2>2. wf' \in [Workflows -> Row]  BY <1>6, <1>r, <2>1 DEF RaiseLimit
  <2>4. project' \in [active : BOOLEAN, over : BOOLEAN]  BY <1>6 DEF PauseTypeOK, RaiseLimit
  <2>5. clicks' \in 0..MaxClicks /\ sweep' = sweep  BY <1>6 DEF PauseTypeOK, RaiseLimit, Click
  <2> QED  BY <1>6, <2>2, <2>4, <2>5 DEF PauseTypeOK, RaiseLimit
<1>7. CASE ReadRetry  BY <1>7, <1>r DEF PauseTypeOK, ReadRetry, Candidates
<1>8. ASSUME NEW w \in Workflows, ReadResume(w) PROVE PauseTypeOK'
  BY <1>8, <1>r DEF PauseTypeOK, ReadResume
<1>9. CASE SweepWrite
  <2>1. wf' \in [Workflows -> Row]
    <3>1. CASE sweep.does = "retry" /\ Retry(sweep.rows)
      <4>1. \A w \in DOMAIN sweep.rows : RetryRow(w, sweep.rows[w]) \in Row
        BY <3>1, RetryRowIsRow DEF PauseTypeOK
      <4> QED  BY <3>1, <4>1, <1>r DEF PauseTypeOK, Retry
    <3>2. CASE sweep.does = "resume" /\ AutoResume(sweep.rows)
      BY <3>2, <1>r, <1>q DEF AutoResume
    <3> QED  BY <1>9, <3>1, <3>2 DEF SweepWrite
  <2> QED  BY <1>9, <2>1 DEF PauseTypeOK, SweepWrite, Idle
<1>10. CASE UNCHANGED pauseVars  BY <1>10 DEF PauseTypeOK, pauseVars, program
<1> QED
  BY <1>1, <1>2, <1>3, <1>4, <1>5, <1>6, <1>7, <1>8, <1>9, <1>10 DEF PauseNext, Acts

\* Type correctness, the cap on automatic retries included: every writer of
\* the three columns keeps to them, and no click between the sweep's read and
\* its commit lets paused_retry_count pass paused_workflow_max_retry_cycles.
THEOREM PausesTyped == PauseSpec => []PauseTypeOK
BY InitType, NextType, PTL DEF PauseSpec

-----------------------------------------------------------------------------
LEMMA NextReason == PauseTypeOK /\ PausedHasReason /\ [PauseNext]_pauseVars => PausedHasReason'
<1> SUFFICES ASSUME PauseTypeOK, PausedHasReason, [PauseNext]_pauseVars,
                    NEW x \in Workflows, wf'[x].status = "paused"
             PROVE  wf'[x].by # None
  BY DEF PausedHasReason
<1>o. wf[x] \in Row /\ (wf[x].status = "paused" => wf[x].by # None)
  BY DEF PauseTypeOK, PausedHasReason
<1>t. wf \in [Workflows -> Row]  BY DEF PauseTypeOK
<1>1. ASSUME wf' = wf PROVE wf'[x].by # None
  BY <1>1, <1>o
<1>2. ASSUME NEW w \in Workflows, Phases(w) PROVE wf'[x].by # None
  BY <1>2, <1>o, <1>t
     DEF Phases, Deliver, Fail, LimitHit, Advance, Redispatch, Complete, Poll, Paused, None, Row
<1>3. ASSUME NEW w \in Workflows, People(w) PROVE wf'[x].by # None
  <2>1. CASE StopWorkflow(w)    BY <2>1, <1>1 DEF StopWorkflow
  <2>9. CASE Stopped(w)         BY <2>9, <1>o, <1>t DEF Stopped, Paused, None, Row
  <2>2. CASE PauseFeature(w)    BY <2>2, <1>o, <1>t DEF PauseFeature, Paused, None, Row
  <2>3. CASE CancelWorkflow(w)  BY <2>3, <1>o, <1>t DEF CancelWorkflow, Row
  <2>4. CASE ResumeWorkflow(w)  BY <2>4, <1>o, <1>t DEF ResumeWorkflow, ForceResumed, Resumed, Row
  <2>5. CASE ResumeFeature(w)   BY <2>5, <1>o, <1>t DEF ResumeFeature, ForceResumed, Resumed, Row
  <2>6. CASE RestartTask(w)     BY <2>6, <1>o, <1>t DEF RestartTask, ForceResumed, Resumed, Row
  <2>7. CASE Approve(w)         BY <2>7, <1>o, <1>t DEF Approve, ForceResumed, Resumed, Row
  <2>8. CASE RequestChanges(w)  BY <2>8, <1>1 DEF RequestChanges
  <2> QED  BY <1>3, <2>1, <2>2, <2>3, <2>4, <2>5, <2>6, <2>7, <2>8, <2>9 DEF People
<1>4. CASE Spend       BY <1>4, <1>o DEF Spend, Paused, None, Row
<1>5. CASE StopProject        BY <1>5, <1>o DEF StopProject, Paused, None, Row
<1>6. CASE Play        BY <1>6, <1>o DEF Play, ForceResumed, Resumed
<1>7. CASE RaiseLimit  BY <1>7, <1>o DEF RaiseLimit, ForceResumed, Resumed
<1>8. CASE SweepWrite
  <2>1. ASSUME NEW row, wf'[x] = RetryRow(x, row) PROVE wf'[x].by # None
    BY <2>1, <1>o DEF RetryRow, Retried, Resumed, None, Row
  <2>2. CASE Retry(sweep.rows)       BY <2>1, <2>2, <1>o DEF Retry
  <2>3. CASE AutoResume(sweep.rows)  BY <2>3, <1>o DEF AutoResume, Resumed
  <2> QED  BY <1>8, <2>2, <2>3 DEF SweepWrite
<1>9. CASE ReadRetry \/ (\E w \in Workflows : ReadResume(w)) \/ UNCHANGED pauseVars
  BY <1>9, <1>1 DEF ReadRetry, ReadResume, pauseVars, program
<1> QED
  BY <1>2, <1>3, <1>4, <1>5, <1>6, <1>7, <1>8, <1>9 DEF PauseNext, Acts

\* A paused workflow says who may resume it, for every writer of status and
\* paused_by and however stale the row the sweep commits from.
THEOREM PausedHasReasonAlways == PauseSpec => []PausedHasReason
<1>1. PauseInit => PausedHasReason
  BY DEF PauseInit, PausedHasReason, Resumed
<1> QED
  BY <1>1, InitType, NextType, NextReason, PTL DEF PauseSpec

-----------------------------------------------------------------------------
(* What the sweep has in its hands may be old.  A row that was paused when *)
(* it was read, with no stop under way, is not active until it is set      *)
(* going, so nobody pauses it: it may be cancelled, or approved if it was  *)
(* before a reviewer, and a limit may pause it for the system once more.   *)

Systems == {"system", "system-exhausted"}

\* A row in the sweep's hands, of a workflow that was not set going since: it is
\* not active, so nobody can ask to stop or pause it, and no stop was under way.
\* Of the reasons only those of the system come upon one of the system.
OldRows ==
  \A w \in DOMAIN sweep.rows \ revived :
    /\ wf[w].status # "active" /\ stopping[w] = "no"
    /\ sweep.rows[w].by \in Systems => wf[w].by \in Systems

\* What a step of anybody may do to a workflow that is not active.
LEMMA NobodyPauses ==
  ASSUME PauseTypeOK, Acts, ~SweepWrite, NEW x \in Workflows,
         wf[x].status # "active", wf'[x].status # "active", stopping[x] = "no"
  PROVE  /\ wf'[x].by \in {wf[x].by, "system"} \/ wf[x].by = "review"
         /\ stopping'[x] = "no"
<1>t. wf \in [Workflows -> Row] /\ stopping \in [Workflows -> {"no", "asked", "outrun"}]
  BY DEF PauseTypeOK
<1>o. \A w \in Workflows : Outrun(w)[x] = "no"
  BY <1>t DEF Outrun
<1>f. \A row \in Row : ForceResumed(row) = row \/ ForceResumed(row).status = "active"
  BY DEF ForceResumed, Resumed
<1>1. ASSUME NEW w \in Workflows, Phases(w)
      PROVE  wf'[x].by \in {wf[x].by, "system"} /\ stopping'[x] = "no"
  <2>1. CASE Deliver(w) \/ Fail(w) \/ Redispatch(w)  BY <2>1 DEF Deliver, Fail, Redispatch
  <2>2. CASE Advance(w)   BY <2>2, <1>o DEF Advance
  <2>3. CASE LimitHit(w)  BY <2>3, <1>t DEF LimitHit, Paused, Row
  <2>4. CASE Complete(w) \/ Poll(w)
    <3>1. x # w /\ wf'[x] = wf[x]  BY <2>4, <1>t DEF Complete, Poll
    <3> QED  BY <2>4, <3>1 DEF Complete, Poll
  <2> QED  BY <1>1, <2>1, <2>2, <2>3, <2>4 DEF Phases
<1>2. ASSUME NEW w \in Workflows, People(w)
      PROVE  /\ wf'[x].by \in {wf[x].by, "system"} \/ wf[x].by = "review"
             /\ stopping'[x] = "no"
  <2>1. CASE StopWorkflow(w)
    <3>1. x # w  BY <2>1 DEF StopWorkflow
    <3> QED  BY <2>1, <3>1, <1>t DEF StopWorkflow
  <2>2. CASE Stopped(w)
    <3>1. x # w  BY <2>2 DEF Stopped
    <3> QED  BY <2>2, <3>1, <1>t DEF Stopped
  <2>3. CASE PauseFeature(w)
    <3>1. x # w  BY <2>3 DEF PauseFeature
    <3> QED  BY <2>3, <3>1, <1>t DEF PauseFeature
  <2>4. CASE CancelWorkflow(w)  BY <2>4, <1>t DEF CancelWorkflow, Row
  <2>5. CASE ResumeWorkflow(w)  BY <2>5, <1>t, <1>f DEF ResumeWorkflow
  <2>6. CASE ResumeFeature(w)   BY <2>6, <1>t, <1>f DEF ResumeFeature, Row
  <2>7. CASE RestartTask(w)     BY <2>7, <1>t, <1>f DEF RestartTask, Row
  <2>8. CASE Approve(w)         BY <2>8, <1>t DEF Approve
  <2>9. CASE RequestChanges(w)  BY <2>9, <1>o DEF RequestChanges
  <2> QED  BY <1>2, <2>1, <2>2, <2>3, <2>4, <2>5, <2>6, <2>7, <2>8, <2>9 DEF People
<1>3. CASE Spend \/ StopProject      BY <1>3 DEF Spend, StopProject
<1>4. CASE Play \/ RaiseLimit        BY <1>4, <1>t, <1>f DEF Play, RaiseLimit
<1>5. CASE ReadRetry \/ \E w \in Workflows : ReadResume(w)
  BY <1>5 DEF ReadRetry, ReadResume
<1> QED
  BY <1>1, <1>2, <1>3, <1>4, <1>5 DEF Acts

\* The rows in the sweep's hands are read by the sweep, and stay what they are
\* until it commits.
LEMMA SweepInHand ==
  ASSUME Acts
  PROVE  \/ sweep' = Idle
         \/ Alone /\ (ReadRetry \/ \E w \in Workflows : ReadResume(w))
         \/ sweep' = sweep
<1>1. CASE SweepWrite  BY <1>1 DEF SweepWrite
<1>2. CASE ReadRetry \/ \E w \in Workflows : ReadResume(w)
  BY <1>2 DEF ReadRetry, ReadResume
<1>3. ASSUME NEW w \in Workflows, Phases(w) PROVE sweep' = sweep
  BY <1>3 DEF Phases, Deliver, Fail, LimitHit, Advance, Redispatch, Complete, Poll
<1>4. ASSUME NEW w \in Workflows, People(w) PROVE sweep' = sweep
  BY <1>4 DEF People, Click, StopWorkflow, Stopped, PauseFeature, CancelWorkflow, ResumeWorkflow,
              ResumeFeature, RestartTask, Approve, RequestChanges
<1>5. CASE Spend \/ StopProject \/ Play \/ RaiseLimit
  BY <1>5 DEF Spend, StopProject, Play, RaiseLimit, Click
<1> QED
  BY <1>1, <1>2, <1>3, <1>4, <1>5 DEF Acts

LEMMA NextOldRows == PauseTypeOK /\ OldRows /\ [PauseNext]_pauseVars => OldRows'
<1> SUFFICES ASSUME PauseTypeOK, OldRows, PauseNext PROVE OldRows'
  BY DEF OldRows, pauseVars, program
<1>a. Acts
  BY DEF PauseNext
<1>1. CASE sweep' = Idle
  BY <1>1 DEF OldRows, Idle
<1>2. CASE sweep' # Idle /\ Alone /\ (ReadRetry \/ \E w \in Workflows : ReadResume(w))
  <2>1. revived' = {w \in Workflows : stopping[w] # "no"}
    BY <1>2 DEF PauseNext
  <2>2. UNCHANGED <<wf, stopping>>
    BY <1>2 DEF ReadRetry, ReadResume
  <2>3. \A w \in DOMAIN sweep'.rows : w \in Workflows /\ wf[w].status = "paused" /\ sweep'.rows[w] = wf[w]
    <3>1. CASE ReadRetry
      <4>1. sweep'.rows = [w \in Candidates |-> wf[w]]  BY <3>1 DEF ReadRetry
      <4> QED  BY <4>1 DEF Candidates
    <3>2. ASSUME NEW v \in Workflows, ReadResume(v)
          PROVE  \A w \in DOMAIN sweep'.rows :
                   w \in Workflows /\ wf[w].status = "paused" /\ sweep'.rows[w] = wf[w]
      <4>1. sweep'.rows = [w \in {v} |-> wf[w]] /\ wf[v].status = "paused"
        BY <3>2 DEF ReadResume
      <4> QED  BY <4>1
    <3> QED  BY <1>2, <3>1, <3>2
  <2> QED
    BY <2>1, <2>2, <2>3 DEF OldRows
<1>3. CASE sweep' # Idle /\ sweep' = sweep
  <2>w. ~SweepWrite
    BY <1>3 DEF SweepWrite
  <2> SUFFICES ASSUME NEW x \in DOMAIN sweep.rows, x \notin revived'
               PROVE  /\ wf'[x].status # "active" /\ stopping'[x] = "no"
                      /\ sweep.rows[x].by \in Systems => wf'[x].by \in Systems
    BY <1>3 DEF OldRows
  <2>1. x \in Workflows /\ x \notin revived
        /\ ~(wf[x].status # "active" /\ wf'[x].status = "active")
    BY <1>3 DEF PauseNext, Alone, PauseTypeOK
  <2>2. /\ wf[x].status # "active" /\ stopping[x] = "no"
        /\ sweep.rows[x].by \in Systems => wf[x].by \in Systems
    BY <2>1 DEF OldRows
  <2>3. /\ wf'[x].by \in {wf[x].by, "system"} \/ wf[x].by = "review"
        /\ stopping'[x] = "no"
    BY <1>a, <2>w, <2>1, <2>2, NobodyPauses
  <2> QED
    BY <2>1, <2>2, <2>3 DEF Systems
<1> QED
  BY <1>a, <1>1, <1>2, <1>3, SweepInHand

\* The sweep lifts nobody's pause but the system's, however old the rows it
\* commits from: not one that came since, unless the workflow was set going in
\* between or a stop was waiting for its agents when the sweep read.
THEOREM SweepRespectsAlways == PauseSpec => SweepRespects
<1>1. PauseTypeOK /\ OldRows /\ SweepWrite =>
        \A w \in Workflows \ revived : wf[w].by \in {"user", "budget", "review"} => wf'[w] = wf[w]
  <2> SUFFICES ASSUME PauseTypeOK, OldRows, SweepWrite, NEW w \in Workflows \ revived,
                      wf[w].by \in {"user", "budget", "review"}
               PROVE  wf'[w] = wf[w]
    OBVIOUS
  <2>1. w \in DOMAIN sweep.rows => sweep.rows[w].by \notin Systems
    BY DEF OldRows, Systems
  <2>2. CASE sweep.does = "retry" /\ Retry(sweep.rows)
    <3>1. w \notin DOMAIN sweep.rows  BY <2>1, <2>2 DEF PauseTypeOK, Systems
    <3> QED  BY <2>2, <3>1 DEF Retry
  <2>3. CASE AutoResume(sweep.rows)
    BY <2>1, <2>3 DEF AutoResume, Resumable, Systems
  <2> QED
    BY <2>2, <2>3 DEF SweepWrite
<1>2. PauseInit => OldRows
  BY DEF PauseInit, OldRows, Idle
<1>3. PauseSpec => []OldRows
  BY <1>2, NextOldRows, PausesTyped, PTL DEF PauseSpec
<1> QED
  BY <1>1, <1>3, PausesTyped, PTL DEF SweepRespects, PauseSpec
==============================================================================
