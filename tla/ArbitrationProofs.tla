------------------------- MODULE ArbitrationProofs -------------------------
(***************************************************************************)
(* For any cap, and any number of tasks, bounces, questions and faults:    *)
(* the type invariant, that no decision is acted on twice, and that        *)
(* nothing but the answer moves a phase about which a person was asked.    *)
(*                                                                         *)
(* Neither of the last two is inductive.  No one lock keeps the sweep and  *)
(* the gate apart: between any two points of theirs it is another fact     *)
(* that does, the claim, an agent at work, a task that is not done, the    *)
(* cap being spent, an open question.  So the invariant says which points  *)
(* the two can be at together (Meet), and for each point what holds of the *)
(* row, the tasks, the file and the question while a call is there (Good). *)
(* It holds while no decision was cut short by an error (Intact): an error *)
(* frees both claims and leaves the file.                                  *)
(***************************************************************************)
EXTENDS Arbitration, FiniteSetTheorems, WellFoundedInduction, TLAPS

-----------------------------------------------------------------------------
(* The calls. *)

Points == {"idle", "ready", "evaluate", "trigger", "give_up", "insert", "launch", "end", "look",
           "act", "finish", "throw", "force"}
Job == [at : Points, arb : Nat, own : BOOLEAN, then : {"idle", "end"}]

\* The call of an actor is at one of these points.
At(a, points) == job[a].at \in points
SweepAt(points) == At("sweep", points)
GateAt(points) == At("gate", points)

\* What a call has in its hands.
HeldBy(a, j) ==
  /\ j \in Job
  /\ j.at = "idle" => j = IdleJob
  /\ j.arb # 0 => j.at \in {"launch", "act", "finish", "throw"}
  /\ j.at \in {"launch", "throw"} => j.arb # 0
  /\ j.own => j.then = "end" /\ j.at # "evaluate"
  /\ j.then = "end" => j.at \notin {"idle", "ready", "look", "end", "force"}
  /\ a = "gate" /\ j.then = "end" => j.own
  /\ a = "sweep" /\ j.at \in {"evaluate", "trigger", "give_up", "insert", "launch"} => j.then = "end"

Handed == job \in [Actors -> Job] /\ \A a \in Actors : HeldBy(a, job[a])

Shape == TypeOK /\ Handed

-----------------------------------------------------------------------------
(* The table of tasks. *)

\* The latest task, and the last arbiter.
LastArbiter == LastOf("arbiter")
WorkLast == Is(Latest, "work")
Reported == Is(Latest, "arbiter") /\ tasks[Latest].state = "done"
ToRetry  == Is(Latest, "arbiter") /\ tasks[Latest].state = "failed"
Unheard  == Reported /\ ~ tasks[Latest].taken

\* Somebody is at work on the phase, or an arbiter's word is still to be heard.
Waiting == Live # {} \/ ToRetry \/ Unheard

\* No further arbiter; no task that would turn the gate back; no decision left.
AtCap    == Cardinality(Arbiters) >= Cap
AllDone  == \A i \in DOMAIN tasks : tasks[i].state = "done"
AllTaken == \A i \in Arbiters : tasks[i].taken

\* Only the latest task is live, or has a decision nobody has taken.
Past ==
  \A i \in DOMAIN tasks : i # Latest =>
    Over(i) /\ (Is(i, "arbiter") /\ tasks[i].state = "done" => tasks[i].taken)

\* A decision that was acted on was taken, and acted on once.
Heeded ==
  \A i \in Arbiters : tasks[i].acted < 2 /\ (tasks[i].acted > 0 => tasks[i].taken)

-----------------------------------------------------------------------------
(* Which calls can be under way together, and what each relies on. *)

Meet ==
  \/ SweepAt({"idle"}) /\ ~ GateAt({"throw", "force"})
  \/ SweepAt({"evaluate", "trigger", "end"}) /\ GateAt({"idle", "ready", "evaluate", "trigger"})
  \/ SweepAt({"give_up", "insert", "launch"}) /\ GateAt({"idle", "ready"})
  \/ SweepAt({"act", "finish"}) /\ GateAt({"idle", "end", "look"})
  \/ SweepAt({"force"}) /\ GateAt({"idle"})

\* While somebody works on the phase, no call is about it.
AtWork == Live # {} /\ WorkLast => Settled /\ row = [status |-> InProgress, claim |-> "free"]

\* The file holds the decision of the last task, until the call that acts on it
\* consumes it.
OnFile ==
  /\ file # 0 => /\ file = Latest /\ Reported
                 /\ place = "here" \/ \E a \in Actors : At(a, {"finish"}) /\ job[a].arb = file
  /\ \A a \in Actors : IF At(a, {"act", "finish"}) THEN file \in {0, job[a].arb}
                       ELSE At(a, {"idle", "end", "look"}) \/ file = 0

Stays == place # "here" => ~ Waiting /\ (AtCap \/ Reported)

\* While a person thinks: nothing is on its way that would move the phase.
Asked ==
  Escalated =>
    /\ file = 0 /\ ~ Waiting /\ AtCap
    /\ GateAt({"idle"}) \/ asks[wf.marker] = "open"
    /\ row.claim # "free" => row.status = InProgress \/ SweepAt({"end"}) \/ GateAt({"end"})
    /\ \A a \in Actors :
         ~ At(a, {"look", "act", "finish", "give_up", "insert", "launch", "force"})

\* A call that evaluates the phase, or gives it up.
Evaluating ==
  \A a \in Actors :
    /\ At(a, {"evaluate", "trigger", "give_up", "insert", "force"}) => ~ Waiting
    /\ At(a, {"ready", "evaluate", "trigger"}) => AtCap \/ place = "here"
    /\ At(a, {"give_up", "force"}) => AtCap
    /\ At(a, {"insert"}) => place = "here"
    /\ At(a, {"launch"}) => InFlight /\ job[a].arb = Latest /\ place = "here"
    /\ At(a, {"trigger", "give_up"}) =>
         \/ row.status = InProgress
         \/ row = [status |-> Pending, claim |-> "held"] /\ job[a].own

\* A call that acts on a decision.
Acting ==
  \A a \in Actors :
    /\ At(a, {"act", "finish"}) => job[a].then = "idle"
    /\ At(a, {"act"}) /\ job[a].arb = 0 => ~ Waiting /\ AtCap /\ GateAt({"idle"})
    /\ At(a, {"act"}) /\ job[a].arb # 0 => /\ tasks[job[a].arb].acted = 0
                                           /\ tasks[job[a].arb].state = "done" => job[a].arb = Latest
    /\ At(a, {"act", "finish"}) /\ job[a].arb # 0 =>
         job[a].arb = LastArbiter /\ tasks[job[a].arb].taken /\ Over(job[a].arb)

\* The gate before its re-check, which it enters with a task just reported.
GateReadies ==
  GateAt({"ready"}) =>
    /\ \/ WorkLast /\ Live = {} /\ row.status \in {InProgress, Completed}
       \/ InFlight
       \/ ToRetry /\ row.status = Failed /\ SweepAt({"end", "idle"})
    /\ SweepAt({"idle"}) => row.claim = "free" \/ InFlight
    /\ SweepAt({"evaluate", "insert"}) => row.claim = "held"
    /\ SweepAt({"trigger"}) => row.claim = "free"
    /\ SweepAt({"evaluate", "trigger", "give_up"}) => row.status = InProgress
    /\ SweepAt({"end"}) => ~ AllDone \/ Escalated \/ row.status = Completed
    /\ Escalated => row.status = InProgress

\* The gate once it has found every task done: the sweep is not about the phase
\* too, but when a person was asked.
GateEvaluates ==
  /\ GateAt({"evaluate"}) =>
       /\ AllDone /\ AllTaken /\ WorkLast
       /\ row.status \in {InProgress, Completed}
       /\ row.claim = "free" \/ SweepAt({"end"}) => Escalated \/ row.status = Completed
       /\ SweepAt({"evaluate", "trigger"}) => Escalated
  /\ GateAt({"trigger"}) /\ ~ SweepAt({"idle"}) => Escalated /\ ~ job["gate"].own

\* Its arbiter: one of its own for a goto that bounced, or that of a finished task.
GateAsks ==
  GateAt({"trigger", "give_up", "insert"}) =>
    IF job["gate"].own
    THEN /\ row = IF GateAt({"insert"}) THEN [status |-> InProgress, claim |-> "free"]
                  ELSE [status |-> Pending, claim |-> "held"]
         /\ (~ GateAt({"insert"}) /\ AtCap) \/ Reported
    ELSE AllTaken /\ AllDone /\ (GateAt({"insert"}) => row.claim = "held")

\* The gate with a decision: the one that was just reported.
GateActs ==
  /\ GateAt({"act", "finish"}) => job["gate"].arb = Latest /\ Reported
  /\ GateAt({"look"}) => Reported /\ (~ SweepAt({"idle"}) => tasks[Latest].taken)
  /\ GateAt({"end"}) => Live # {} \/ row.status # InProgress

\* The sweep evaluates a phase that runs.
SweepEvaluates == SweepAt({"evaluate"}) => row.status = InProgress

\* A claim goes stale under nobody's call.
OldClaim == row.claim = "old" => \A a \in Actors : At(a, {"idle", "look", "act", "finish", "force"})

\* What holds while every decision was acted on without an error.
Gate == GateReadies /\ GateEvaluates /\ GateAsks /\ GateActs
Good == /\ Past /\ Heeded /\ Meet /\ AtWork /\ OnFile /\ Stays /\ Asked
        /\ Evaluating /\ Acting /\ Gate /\ SweepEvaluates /\ OldClaim

IInv == Shape /\ (Intact => Good)

-----------------------------------------------------------------------------
(* Steps that leave the table of tasks alone. *)

\* What the table says is the same.
LEMMA SameTasks ==
  ASSUME UNCHANGED tasks
  PROVE  /\ Latest' = Latest /\ Live' = Live /\ Arbiters' = Arbiters /\ LastArbiter' = LastArbiter
         /\ WorkLast' = WorkLast /\ Reported' = Reported /\ ToRetry' = ToRetry /\ Unheard' = Unheard
         /\ InFlight' = InFlight /\ Waiting' = Waiting /\ AtCap' = AtCap
         /\ AllDone' = AllDone /\ AllTaken' = AllTaken /\ Past' = Past /\ Heeded' = Heeded
         /\ Intact' = Intact
         /\ \A i : Over(i)' = Over(i)
BY DEF Latest, Live, Arbiters, LastArbiter, LastOf, WorkLast, Reported, ToRetry, Unheard, InFlight,
       Waiting, AtCap, AllDone, AllTaken, Past, Heeded, Intact, Is, Over

\* What the table may look like at once.
LEMMA Table ==
  /\ InFlight => Live # {} /\ ~ Reported /\ ~ ToRetry /\ ~ WorkLast
  /\ Reported => ~ ToRetry /\ ~ WorkLast
  /\ ToRetry => ~ WorkLast
  /\ AllDone => Live = {} /\ ~ ToRetry
  /\ AllDone /\ WorkLast /\ Past => AllTaken
  /\ Past /\ Reported => Live = {} /\ (tasks[Latest].taken => ~ Waiting)
  /\ ~ Waiting => Live = {} /\ ~ ToRetry /\ (Reported => tasks[Latest].taken)
BY DEF InFlight, Live, Reported, ToRetry, WorkLast, AllDone, AllTaken, Past, Arbiters, Is, Over, Latest,
       Waiting, Unheard

\* The positions of the table, and how many arbiters it holds.
LEMMA ArbitersCount ==
  ASSUME TypeOK
  PROVE  /\ Latest \in Nat /\ DOMAIN tasks = 1..Latest /\ Arbiters \subseteq 1..Latest
         /\ IsFiniteSet(Arbiters) /\ Cardinality(Arbiters) \in Nat
         /\ ~ AtCap <=> Cardinality(Arbiters) < Cap
<1>1. Latest \in Nat /\ DOMAIN tasks = 1..Latest
  BY DEF TypeOK, Latest
<1>2. Arbiters \subseteq 1..Latest
  BY <1>1 DEF Arbiters
<1>3. IsFiniteSet(1..Latest)
  BY <1>1, FS_Interval
<1>4. IsFiniteSet(Arbiters)
  BY <1>2, <1>3, FS_Subset
<1> QED
  BY <1>1, <1>2, <1>4, FS_CardinalityType, Limits DEF AtCap

\* Steps that only mark a task: what was done with its decision.
LEMMA SameStates ==
  ASSUME DOMAIN tasks' = DOMAIN tasks, Len(tasks') = Len(tasks),
         \A i \in DOMAIN tasks : /\ tasks'[i].kind = tasks[i].kind /\ tasks'[i].state = tasks[i].state
                                /\ tasks'[i].taken = tasks[i].taken
  PROVE  /\ Latest' = Latest /\ Live' = Live /\ Arbiters' = Arbiters /\ LastArbiter' = LastArbiter
         /\ WorkLast' = WorkLast /\ Reported' = Reported /\ ToRetry' = ToRetry /\ Unheard' = Unheard
         /\ InFlight' = InFlight /\ Waiting' = Waiting /\ AtCap' = AtCap
         /\ AllDone' = AllDone /\ AllTaken' = AllTaken /\ Past' = Past
         /\ \A i \in DOMAIN tasks : Over(i)' = Over(i)
<1>1. Latest' = Latest /\ Live' = Live /\ Arbiters' = Arbiters
  BY DEF Latest, Live, Arbiters, Is, Over
<1>2. LastArbiter' = LastArbiter
  BY <1>1 DEF LastArbiter, LastOf, Is
<1>3. /\ WorkLast' = WorkLast /\ Reported' = Reported /\ ToRetry' = ToRetry /\ Unheard' = Unheard
      /\ InFlight' = InFlight
  BY <1>1 DEF WorkLast, Reported, ToRetry, Unheard, InFlight, Is, Over
<1>4. AllDone' = AllDone /\ AllTaken' = AllTaken /\ Past' = Past
  BY <1>1 DEF AllDone, AllTaken, Past, Is, Over, Arbiters
<1> QED
  BY <1>1, <1>2, <1>3, <1>4 DEF Waiting, AtCap, Over

\* The close of a row moves a running phase and no other.
LEMMA ClosedRow ==
  ASSUME TypeOK
  PROVE  Closed = IF row.status = InProgress THEN [row EXCEPT !.status = Completed] ELSE row
BY DEF TypeOK, Closed, CanMove, ValidTransitions, PhaseStatus, Pending, InProgress, Completed, Failed,
       Skipped

\* A step that changes one task.
LEMMA OneTask ==
  ASSUME TypeOK, NEW i \in DOMAIN tasks, NEW r \in TaskRecord, tasks' = [tasks EXCEPT ![i] = r]
  PROVE  /\ tasks' \in Seq(TaskRecord) /\ DOMAIN tasks' = DOMAIN tasks /\ Len(tasks') = Len(tasks)
         /\ tasks'[i] = r /\ \A j \in DOMAIN tasks : j # i => tasks'[j] = tasks[j]
BY DEF TypeOK

\* The last arbiter is the last of them, if there are any.
LEMMA LastIsLast ==
  ASSUME TypeOK
  PROVE  /\ LastArbiter \in {0} \cup Arbiters
         /\ LastArbiter = 0 => Arbiters = {}
         /\ \A j \in Arbiters : j =< LastArbiter
         /\ \A i \in Arbiters : (\A j \in Arbiters : j =< i) => i = LastArbiter
<1>1. Latest \in Nat /\ DOMAIN tasks = 1..Latest /\ Arbiters \subseteq 1..Latest
  BY ArbitersCount
<1>2. \A i \in 0..Latest : Is(i, "arbiter") <=> i \in Arbiters
  BY <1>1 DEF Arbiters, Is
<1> DEFINE IsLast(i) == (i = 0 \/ i \in Arbiters) /\ \A j \in i + 1..Latest : j \notin Arbiters
<1>3. LastArbiter = CHOOSE i \in 0..Latest : IsLast(i)
  <2>1. \A i \in 0..Latest : IsLast(i) <=> /\ i = 0 \/ Is(i, "arbiter")
                                           /\ \A j \in i + 1..Latest : ~ Is(j, "arbiter")
    BY <1>1, <1>2
  <2> QED  BY <2>1 DEF LastArbiter, LastOf
<1>4. \E i \in 0..Latest : IsLast(i)
  <2>1. CASE Arbiters = {}
    BY <1>1, <2>1
  <2>2. CASE Arbiters # {}
    <3> DEFINE T == {Latest - i : i \in Arbiters}
    <3>1. \A i \in Arbiters : Latest - i \in Nat
      BY <1>1
    <3>2. T \subseteq Nat /\ T # {}
      BY <2>2, <3>1
    <3> HIDE DEF T
    <3>3. PICK x \in T : \A y \in T : ~ (<<y, x>> \in OpToRel(<, Nat))
      BY <3>2, NatLessThanWellFounded, WFMin
    <3>4. \A y \in T : ~ (y < x)
      BY <3>2, <3>3 DEF OpToRel
    <3> USE DEF T
    <3>5. PICK m \in Arbiters : x = Latest - m
      OBVIOUS
    <3>6. \A j \in Arbiters : j =< m
      <4>1. SUFFICES ASSUME NEW j \in Arbiters PROVE j =< m
        OBVIOUS
      <4>2. ~ (Latest - j < Latest - m)
        BY <3>4, <3>5
      <4> HIDE DEF T
      <4> QED  BY <1>1, <3>5, <4>2
    <3> QED  BY <1>1, <3>6
  <2> QED  BY <2>1, <2>2
<1>5. LastArbiter \in 0..Latest /\ IsLast(LastArbiter)
  BY <1>3, <1>4
<1>6. \A j \in Arbiters : j =< LastArbiter
  BY <1>1, <1>5
<1>7. LastArbiter = 0 => Arbiters = {}
  BY <1>1, <1>6
<1>8. ASSUME NEW i \in Arbiters, \A j \in Arbiters : j =< i
      PROVE  i = LastArbiter
  BY <1>1, <1>5, <1>6, <1>8
<1> QED  BY <1>5, <1>6, <1>7, <1>8

\* An arbiter at the end of the table is the last one.
LEMMA LatestArbiter ==
  ASSUME TypeOK, Is(Latest, "arbiter")
  PROVE  LastArbiter = Latest /\ Latest \in Arbiters
BY ArbitersCount, LastIsLast DEF Is, Arbiters

\* Steps that add no task.
LEMMA SameKinds ==
  ASSUME DOMAIN tasks' = DOMAIN tasks, Len(tasks') = Len(tasks),
         \A i \in DOMAIN tasks : tasks'[i].kind = tasks[i].kind
  PROVE  /\ Latest' = Latest /\ Arbiters' = Arbiters /\ LastArbiter' = LastArbiter
         /\ WorkLast' = WorkLast /\ AtCap' = AtCap
<1>1. Latest' = Latest /\ Arbiters' = Arbiters
  BY DEF Latest, Arbiters, Is
<1>2. LastArbiter' = LastArbiter
  BY <1>1 DEF LastArbiter, LastOf, Is
<1> QED
  BY <1>1, <1>2 DEF WorkLast, Is, AtCap

\* What a task says of itself.
LEMMA Records ==
  ASSUME TypeOK
  PROVE  \A i \in DOMAIN tasks : /\ tasks[i] \in TaskRecord
                                 /\ tasks[i].taken \in BOOLEAN /\ tasks[i].acted \in 0..2
                                 /\ tasks[i].state \in {"live", "done", "failed", "spent"}
<1>1. \A i \in DOMAIN tasks : tasks[i] \in TaskRecord
  BY DEF TypeOK
<1> QED  BY <1>1 DEF TaskRecord

\* The latest task is taken up again, or comes to an end.
LEMMA LatestMoves ==
  ASSUME TypeOK, Past, Latest \in DOMAIN tasks, NEW s \in {"live", "done", "failed", "spent"},
         tasks' = [tasks EXCEPT ![Latest].state = s]
  PROVE  /\ tasks' \in Seq(TaskRecord) /\ Latest' = Latest /\ Arbiters' = Arbiters
         /\ LastArbiter' = LastArbiter
         /\ WorkLast' = WorkLast /\ AtCap' = AtCap
         /\ Live' = (IF s = "live" THEN {Latest} ELSE {})
         /\ Reported' <=> Is(Latest, "arbiter") /\ s = "done"
         /\ ToRetry' <=> Is(Latest, "arbiter") /\ s = "failed"
         /\ InFlight' <=> Is(Latest, "arbiter") /\ s = "live"
         /\ AllDone' => s = "done"
         /\ tasks'[Latest].taken = tasks[Latest].taken
         /\ Past' /\ (Heeded => Heeded')
<1>1. tasks[Latest] \in TaskRecord
  BY Records
<1>2. [tasks[Latest] EXCEPT !.state = s] \in TaskRecord
  BY <1>1 DEF TaskRecord
<1>3. tasks' = [tasks EXCEPT ![Latest] = [tasks[Latest] EXCEPT !.state = s]]
  OBVIOUS
<1>4. /\ tasks' \in Seq(TaskRecord) /\ DOMAIN tasks' = DOMAIN tasks /\ Len(tasks') = Len(tasks)
      /\ tasks'[Latest] = [tasks[Latest] EXCEPT !.state = s]
      /\ \A j \in DOMAIN tasks : j # Latest => tasks'[j] = tasks[j]
  BY <1>2, <1>3, OneTask
<1>5. \A j \in DOMAIN tasks : /\ tasks'[j].kind = tasks[j].kind /\ tasks'[j].acted = tasks[j].acted
                               /\ tasks'[j].taken = tasks[j].taken
                               /\ tasks'[j].state = IF j = Latest THEN s ELSE tasks[j].state
  BY <1>1, <1>4 DEF TaskRecord
<1>6. /\ Latest' = Latest /\ Arbiters' = Arbiters /\ LastArbiter' = LastArbiter
      /\ WorkLast' = WorkLast /\ AtCap' = AtCap
  BY <1>4, <1>5, SameKinds
<1>7. Live' = (IF s = "live" THEN {Latest} ELSE {})
  BY <1>4, <1>5 DEF Live, Over, Past
<1>8. /\ Reported' <=> Is(Latest, "arbiter") /\ s = "done"
      /\ ToRetry' <=> Is(Latest, "arbiter") /\ s = "failed"
      /\ InFlight' <=> Is(Latest, "arbiter") /\ s = "live"
      /\ AllDone' => s = "done"
  BY <1>4, <1>5, <1>6 DEF Reported, ToRetry, InFlight, AllDone, Is, Over
<1>9. Past' /\ (Heeded => Heeded')
  BY <1>4, <1>5, <1>6 DEF Past, Heeded, Is, Over, Arbiters
<1> QED  BY <1>4, <1>5, <1>6, <1>7, <1>8, <1>9

\* A task is added when nobody is at work and no word is unheard.
LEMMA TaskAdded ==
  ASSUME TypeOK, Past, ~ Waiting, NEW kind \in {"work", "arbiter"}, tasks' = Append(tasks, NewTask(kind))
  PROVE  /\ tasks' \in Seq(TaskRecord) /\ Latest' = Latest + 1 /\ Live' = {Latest + 1}
         /\ Arbiters' = IF kind = "arbiter" THEN Arbiters \cup {Latest + 1} ELSE Arbiters
         /\ WorkLast' <=> kind = "work"
         /\ InFlight' <=> kind = "arbiter"
         /\ ~ Reported' /\ ~ ToRetry' /\ ~ AllDone'
         /\ AtCap => AtCap'
         /\ Past' /\ (Heeded => Heeded')
<1>1. /\ Latest \in Nat /\ DOMAIN tasks = 1..Latest /\ Arbiters \subseteq 1..Latest
      /\ IsFiniteSet(Arbiters) /\ Cardinality(Arbiters) \in Nat
  BY ArbitersCount
<1>2. NewTask(kind) \in TaskRecord
  BY DEF NewTask, TaskRecord
<1>3. /\ tasks' \in Seq(TaskRecord) /\ Len(tasks') = Latest + 1 /\ DOMAIN tasks' = 1..Latest + 1
      /\ tasks'[Latest + 1] = NewTask(kind) /\ \A j \in 1..Latest : tasks'[j] = tasks[j]
  BY <1>1, <1>2 DEF TypeOK, Latest
<1>4. tasks'[Latest + 1].kind = kind /\ tasks'[Latest + 1].state = "live" /\ tasks'[Latest + 1].acted = 0
  BY <1>3 DEF NewTask
<1>5. Latest' = Latest + 1
  BY <1>3 DEF Latest
<1>6. /\ \A j \in 1..Latest : Over(j)
      /\ \A j \in 1..Latest : Is(j, "arbiter") /\ tasks[j].state = "done" => tasks[j].taken
  BY <1>1 DEF Waiting, Live, Over, Unheard, Reported, Past
<1>7. Live' = {Latest + 1}
  BY <1>1, <1>3, <1>4, <1>6 DEF Live, Over
<1>8. Arbiters' = IF kind = "arbiter" THEN Arbiters \cup {Latest + 1} ELSE Arbiters
  BY <1>1, <1>3, <1>4 DEF Arbiters, Is
<1>9. /\ WorkLast' <=> kind = "work"
      /\ InFlight' <=> kind = "arbiter"
      /\ ~ Reported' /\ ~ ToRetry' /\ ~ AllDone'
  BY <1>1, <1>3, <1>4, <1>5 DEF WorkLast, InFlight, Reported, ToRetry, AllDone, Is, Over
<1>10. AtCap => AtCap'
  <2>1. Latest + 1 \notin Arbiters
    BY <1>1
  <2>2. Cardinality(Arbiters \cup {Latest + 1}) = Cardinality(Arbiters) + 1
    BY <1>1, <2>1, FS_AddElement
  <2> QED  BY <1>1, <1>8, <2>2, Limits DEF AtCap
<1>11. Past'
  BY <1>1, <1>3, <1>5, <1>6 DEF Past, Is, Over
<1>12. Heeded => Heeded'
  BY <1>1, <1>3, <1>4, <1>8 DEF Heeded
<1> QED  BY <1>3, <1>5, <1>7, <1>8, <1>9, <1>10, <1>11, <1>12

\* With no call under way, what counts is the table and the file.
LEMMA Quiet ==
  ASSUME Settled', job' \in [Actors -> Job], Past', Heeded', Stays',
         Live' # {} /\ WorkLast' => row' = [status |-> InProgress, claim |-> "free"],
         file' # 0 => file' = Latest' /\ Reported' /\ place' = "here",
         Escalated' => /\ file' = 0 /\ ~ Waiting' /\ AtCap'
                       /\ row'.claim # "free" => row'.status = InProgress
  PROVE  Good'
<1>1. job'["sweep"] = IdleJob /\ job'["gate"] = IdleJob
  BY DEF Settled, Actors
<1>2. \A a \in Actors : job'[a] = IdleJob
  BY DEF Settled
<1>3. \A a \in Actors : job'[a].at = "idle"
  BY <1>2 DEF IdleJob
<1>4. job'["sweep"].at = "idle" /\ job'["gate"].at = "idle"
  BY <1>1 DEF IdleJob
<1>5. Meet' /\ SweepEvaluates' /\ OldClaim' /\ Gate'
  BY <1>3, <1>4
     DEF Meet, SweepEvaluates, OldClaim, Gate, GateReadies, GateEvaluates, GateAsks, GateActs, SweepAt,
         GateAt, At
<1>6. Evaluating' /\ Acting' /\ OnFile' /\ Asked'
  BY <1>3, <1>4 DEF Evaluating, Acting, OnFile, Asked, At, GateAt, SweepAt
<1> QED
  BY <1>5, <1>6 DEF Good, AtWork

-----------------------------------------------------------------------------
(* Types, and what is never undone. *)

\* A table that follows another: no task goes, or becomes of another kind, and
\* what was cut short stays so.
Follows(s, t) ==
  /\ t \in Seq(TaskRecord)
  /\ \A i \in DOMAIN s : i \in DOMAIN t /\ t[i].kind = s[i].kind /\ (s[i].broken => t[i].broken)

\* A task may be replaced by one of its kind.
LEMMA ChangeFollows ==
  ASSUME NEW s \in Seq(TaskRecord), NEW i \in DOMAIN s, NEW r \in TaskRecord,
         r.kind = s[i].kind, s[i].broken => r.broken
  PROVE  Follows(s, [s EXCEPT ![i] = r])
BY DEF Follows

\* The single writes of the actions.
LEMMA FieldFollows ==
  ASSUME NEW s \in Seq(TaskRecord), NEW i \in DOMAIN s
  PROVE  /\ \A x \in {"live", "done", "failed", "spent"} : Follows(s, [s EXCEPT ![i].state = x])
         /\ Follows(s, [s EXCEPT ![i].late = TRUE]) /\ Follows(s, [s EXCEPT ![i].broken = TRUE])
         /\ \A x \in BOOLEAN : Follows(s, [s EXCEPT ![i].taken = x])
         /\ Follows(s, [s EXCEPT ![i].acted = IF @ = 2 THEN 2 ELSE @ + 1])
         /\ [s EXCEPT ![i].broken = TRUE][i].broken
<1>1. s[i] \in TaskRecord
  OBVIOUS
<1>2. ASSUME NEW x \in {"live", "done", "failed", "spent"} PROVE Follows(s, [s EXCEPT ![i].state = x])
  <2>1. [s[i] EXCEPT !.state = x] \in TaskRecord /\ [s[i] EXCEPT !.state = x].kind = s[i].kind
        /\ [s[i] EXCEPT !.state = x].broken = s[i].broken
    BY <1>1, <1>2 DEF TaskRecord
  <2> QED  BY <2>1, ChangeFollows
<1>3. Follows(s, [s EXCEPT ![i].late = TRUE])
  <2>1. [s[i] EXCEPT !.late = TRUE] \in TaskRecord /\ [s[i] EXCEPT !.late = TRUE].kind = s[i].kind
        /\ [s[i] EXCEPT !.late = TRUE].broken = s[i].broken
    BY <1>1 DEF TaskRecord
  <2> QED  BY <2>1, ChangeFollows
<1>4. Follows(s, [s EXCEPT ![i].broken = TRUE]) /\ [s EXCEPT ![i].broken = TRUE][i].broken
  <2>1. [s[i] EXCEPT !.broken = TRUE] \in TaskRecord /\ [s[i] EXCEPT !.broken = TRUE].kind = s[i].kind
        /\ [s[i] EXCEPT !.broken = TRUE].broken
    BY <1>1 DEF TaskRecord
  <2> QED  BY <2>1, ChangeFollows
<1>5. ASSUME NEW x \in BOOLEAN PROVE Follows(s, [s EXCEPT ![i].taken = x])
  <2>1. [s[i] EXCEPT !.taken = x] \in TaskRecord /\ [s[i] EXCEPT !.taken = x].kind = s[i].kind
        /\ [s[i] EXCEPT !.taken = x].broken = s[i].broken
    BY <1>1, <1>5 DEF TaskRecord
  <2> QED  BY <2>1, ChangeFollows
<1>6. Follows(s, [s EXCEPT ![i].acted = IF @ = 2 THEN 2 ELSE @ + 1])
  <2> DEFINE n == IF s[i].acted = 2 THEN 2 ELSE s[i].acted + 1
  <2>1. n \in 0..2
    BY <1>1 DEF TaskRecord
  <2> HIDE DEF n
  <2>2. [s[i] EXCEPT !.acted = n] \in TaskRecord /\ [s[i] EXCEPT !.acted = n].kind = s[i].kind
        /\ [s[i] EXCEPT !.acted = n].broken = s[i].broken
    BY <1>1, <2>1 DEF TaskRecord
  <2>3. Follows(s, [s EXCEPT ![i] = [s[i] EXCEPT !.acted = n]])
    BY <2>2, ChangeFollows
  <2>4. [s EXCEPT ![i].acted = IF @ = 2 THEN 2 ELSE @ + 1] = [s EXCEPT ![i] = [s[i] EXCEPT !.acted = n]]
    BY DEF n
  <2> QED  BY <2>3, <2>4
<1> QED  BY <1>2, <1>3, <1>4, <1>5, <1>6

\* One after the other.
LEMMA FollowsOn ==
  ASSUME NEW s, NEW t, NEW u, Follows(s, t), Follows(t, u)
  PROVE  Follows(s, u)
BY DEF Follows

\* Acting on a decision, whoever's it is.
LEMMA CountedFollows ==
  ASSUME Shape, NEW i \in {0} \cup Arbiters
  PROVE  /\ Follows(tasks, Counted(i)) /\ DOMAIN Counted(i) = DOMAIN tasks
         /\ i # 0 => Author(i) \in Arbiters
<1>1. i # 0 => Author(i) \in Arbiters
  BY DEF Author, Shape, TypeOK
<1>2. CASE i = 0 \/ row.status = Completed
  BY <1>1, <1>2 DEF Counted, Follows, Shape, TypeOK
<1>3. CASE i # 0 /\ row.status # Completed
  <2>1. Author(i) \in DOMAIN tasks /\ tasks \in Seq(TaskRecord)
    BY <1>1, <1>3 DEF Arbiters, Shape, TypeOK
  <2>2. Counted(i) = [tasks EXCEPT ![Author(i)].acted = IF @ = 2 THEN 2 ELSE @ + 1]
    BY <1>3 DEF Counted
  <2> QED  BY <1>1, <2>1, <2>2, FieldFollows
<1> QED  BY <1>2, <1>3

\* No step takes a task away or changes its kind.
LEMMA TasksFollow ==
  ASSUME Shape, [Next]_vars
  PROVE  Follows(tasks, tasks')
<1> USE DEF Shape
<1>0. tasks \in Seq(TaskRecord) /\ Follows(tasks, tasks)
  BY DEF TypeOK, Follows
<1>1. CASE UNCHANGED tasks
  BY <1>0, <1>1
<1>2. ASSUME NEW i \in DOMAIN tasks, NEW x \in {"live", "done", "failed", "spent"},
             tasks' = [tasks EXCEPT ![i].state = x]
      PROVE  Follows(tasks, tasks')
  BY <1>0, <1>2, FieldFollows
<1>3. ASSUME NEW kind \in {"work", "arbiter"}, tasks' = Append(tasks, NewTask(kind))
      PROVE  Follows(tasks, tasks')
  BY <1>0, <1>3 DEF Follows, NewTask, TaskRecord
<1>4. ASSUME NEW a \in Actors, Step(a) PROVE Follows(tasks, tasks')
  <2>1. job[a].arb \in {0} \cup Arbiters /\ (At(a, {"launch", "throw"}) => job[a].arb \in DOMAIN tasks)
    BY DEF Handed, HeldBy, TypeOK, Arbiters, At
  <2>2. CASE Act(a)
    BY <2>1, <2>2, CountedFollows DEF Act
  <2>3. CASE ActFails(a)
    <3>1. Author(job[a].arb) \in DOMAIN tasks
      BY <2>1, <2>3, CountedFollows DEF ActFails, Arbiters
    <3> QED  BY <1>0, <2>3, <3>1, FieldFollows DEF ActFails
  <2>4. CASE ActThrows(a)
    <3> DEFINE i == job[a].arb
               s == Counted(i)
               t == [s EXCEPT ![Author(i)].broken = TRUE]
    <3>1. i \in DOMAIN tasks /\ Author(i) \in DOMAIN tasks
      BY <2>1, <2>4, CountedFollows DEF ActThrows, Arbiters
    <3>2. Follows(tasks, s) /\ DOMAIN s = DOMAIN tasks
      BY <2>1, CountedFollows
    <3>3. tasks' = [t EXCEPT ![i].broken = TRUE]
      BY <2>4 DEF ActThrows
    <3> HIDE DEF s, i
    <3>4. s \in Seq(TaskRecord)
      BY <3>2 DEF Follows
    <3>5. Follows(s, t)
      BY <3>1, <3>2, <3>4, FieldFollows
    <3>6. t \in Seq(TaskRecord) /\ DOMAIN t = DOMAIN tasks
      BY <3>2, <3>5 DEF Follows
    <3> HIDE DEF t
    <3>7. Follows(t, tasks')
      BY <3>1, <3>3, <3>6, FieldFollows
    <3> QED  BY <3>2, <3>5, <3>7, FollowsOn
  <2>5. CASE Launch(a)
    BY <1>0, <1>1, <1>2, <2>1, <2>5 DEF Launch, At
  <2>6. CASE Throw(a)
    <3>1. job[a].arb \in DOMAIN tasks
      BY <2>1, <2>6 DEF Throw, At
    <3> QED  BY <1>0, <2>6, <3>1, FieldFollows DEF Throw
  <2>7. CASE Insert(a)
    BY <1>3, <2>7 DEF Insert
  <2>8. CASE Evaluate(a) \/ Trigger(a) \/ GiveUp(a) \/ End(a) \/ Finish(a)
    BY <1>1, <2>8 DEF Evaluate, Trigger, GiveUp, End, Finish
  <2> QED  BY <1>4, <2>2, <2>3, <2>4, <2>5, <2>6, <2>7, <2>8 DEF Step
<1>5. ASSUME NEW a \in Actors, Take(a) PROVE Follows(tasks, tasks')
  <2>1. LastOf("arbiter") \in DOMAIN tasks
    BY <1>5, LastIsLast DEF Take, Resolvable, LastArbiter, Arbiters
  <2> QED  BY <1>0, <1>5, <2>1, FieldFollows DEF Take
<1>6. CASE \E a \in Actors : Bounce(a)
  BY <1>1, <1>6 DEF Bounce
<1>7. CASE Sweep
  <2>1. SweepRetry => \/ UNCHANGED tasks
                      \/ Latest \in DOMAIN tasks /\ tasks' = [tasks EXCEPT ![Latest].state = "live"]
    BY DEF SweepRetry, Is
  <2> QED
    BY <1>1, <1>2, <1>5, <1>7, <2>1
       DEF Sweep, SweepComplete, SweepResolve, SweepAnswer, SweepForce, Release, Actors
<1>8. CASE GateReady \/ Answer
  BY <1>1, <1>8 DEF GateReady, Answer
<1>9. CASE GateResolve
  BY <1>1, <1>5, <1>9 DEF GateResolve, Actors
<1>10. CASE WorkReports \/ ArbiterReports \/ ArbiterFails
  BY <1>2, <1>10 DEF WorkReports, ArbiterReports, ArbiterFails, Live
<1>11. CASE Return
  BY <1>3, <1>11 DEF Return
<1>12. CASE Age
  BY <1>0, <1>1, <1>12, FieldFollows DEF Age, InFlight, Is
<1>13. CASE UNCHANGED vars
  BY <1>1, <1>13 DEF vars
<1> QED
  BY <1>4, <1>6, <1>7, <1>8, <1>9, <1>10, <1>11, <1>12, <1>13 DEF Next

\* So the arbiters stay, and an error is not forgotten.
LEMMA ArbitersStay ==
  ASSUME Shape, [Next]_vars
  PROVE  tasks' \in Seq(TaskRecord) /\ Arbiters \subseteq Arbiters' /\ (Intact' => Intact)
BY TasksFollow DEF Follows, Arbiters, Intact, Is

\* An error that cuts a decision short leaves its mark on the arbiter.
LEMMA CutShort ==
  ASSUME Shape, NEW a \in Actors, ActFails(a) \/ ActThrows(a)
  PROVE  ~ Intact'
<1> DEFINE i == job[a].arb
<1>1. i \in Arbiters /\ Author(i) \in Arbiters
  BY CountedFollows DEF ActFails, ActThrows, Shape, TypeOK
<1>2. Author(i) \in Arbiters' /\ tasks'[Author(i)].broken
  <2>1. CASE ActFails(a)
    <3>1. Author(i) \in DOMAIN tasks /\ tasks \in Seq(TaskRecord)
      BY <1>1 DEF Arbiters, Shape, TypeOK
    <3>2. tasks' = [tasks EXCEPT ![Author(i)].broken = TRUE]
      BY <2>1 DEF ActFails
    <3>3. Follows(tasks, tasks') /\ tasks'[Author(i)].broken
      BY <3>1, <3>2, FieldFollows
    <3> QED  BY <1>1, <3>3 DEF Follows, Arbiters, Is
  <2>2. CASE ActThrows(a)
    <3> DEFINE s == Counted(i)
               t == [s EXCEPT ![Author(i)].broken = TRUE]
    <3>1. i \in DOMAIN tasks /\ Author(i) \in DOMAIN tasks
      BY <1>1 DEF Arbiters
    <3>2. Follows(tasks, s) /\ DOMAIN s = DOMAIN tasks
      BY <1>1, CountedFollows
    <3>3. tasks' = [t EXCEPT ![i].broken = TRUE]
      BY <2>2 DEF ActThrows
    <3>4. Author(i) \in Arbiters
      BY <1>1
    <3> HIDE DEF s, i
    <3>5. s \in Seq(TaskRecord)
      BY <3>2 DEF Follows
    <3>6. Follows(s, t) /\ t[Author(i)].broken
      BY <3>1, <3>2, <3>5, FieldFollows
    <3>7. t \in Seq(TaskRecord) /\ DOMAIN t = DOMAIN tasks
      BY <3>2, <3>6 DEF Follows
    <3> HIDE DEF t
    <3>8. Follows(t, tasks')
      BY <3>1, <3>3, <3>7, FieldFollows
    <3>9. Follows(tasks, tasks') /\ tasks'[Author(i)].broken
      BY <3>1, <3>2, <3>6, <3>7, <3>8, FollowsOn DEF Follows
    <3> QED  BY <3>9, <3>4 DEF Follows, Arbiters, Is
  <2> QED  BY <2>1, <2>2
<1> QED  BY <1>2 DEF Intact

-----------------------------------------------------------------------------
(* What the calls have in their hands. *)

\* The initial state is of the right shape.
LEMMA InitShape == Init => Shape
<1> SUFFICES ASSUME Init PROVE Shape
  OBVIOUS
<1>1. tasks \in Seq(TaskRecord)
  BY DEF Init, NewTask, TaskRecord
<1>2. TypeOK
  BY <1>1 DEF Init, TypeOK, IdleJob, InProgress, PhaseStatus
<1>3. Handed
  BY DEF Init, Handed, HeldBy, At, SweepAt, IdleJob, Job, Points, Actors
<1> QED  BY <1>2, <1>3 DEF Shape

\* What one call has in its hands is no concern of the other.
LEMMA OneCall ==
  ASSUME Shape, [Next]_vars, NEW a \in Actors, NEW j, job' = [job EXCEPT ![a] = j],
         HeldBy(a, j), j.arb \in {0} \cup Arbiters'
  PROVE  Handed' /\ \A b \in Actors : job'[b].arb \in {0} \cup Arbiters'
<1>1. Arbiters \subseteq Arbiters'
  BY ArbitersStay
<1>2. \A b \in Actors : job'[b] = IF b = a THEN j ELSE job[b]
  BY DEF Shape, Handed
<1>3. \A b \in Actors : HeldBy(b, job'[b]) /\ job'[b].arb \in {0} \cup Arbiters'
  BY <1>1, <1>2 DEF Shape, Handed, TypeOK
<1> QED  BY <1>3 DEF Handed, Shape, HeldBy

\* A call is idle when nothing is left in its hands.
LEMMA HeldFields ==
  ASSUME NEW a, NEW j \in Job,
         j.arb # 0 => j.at \in {"launch", "act", "finish", "throw"},
         j.at \in {"launch", "throw"} => j.arb # 0,
         j.own => j.then = "end" /\ j.at # "evaluate",
         j.then = "end" => j.at \notin {"idle", "ready", "look", "end", "force"},
         a = "gate" /\ j.then = "end" => j.own,
         a = "sweep" /\ j.at \in {"evaluate", "trigger", "give_up", "insert", "launch"} => j.then = "end"
  PROVE  HeldBy(a, j)
<1>1. \A r, s \in Job : r.at = s.at /\ r.arb = s.arb /\ r.own = s.own /\ r.then = s.then => r = s
  BY DEF Job
<1>2. /\ IdleJob \in Job /\ IdleJob.at = "idle" /\ IdleJob.arb = 0 /\ IdleJob.own = FALSE
      /\ IdleJob.then = "idle"
  BY DEF IdleJob, Job, Points
<1>3. j.at = "idle" => j.arb = 0 /\ j.own = FALSE /\ j.then = "idle"
  BY DEF Job
<1>4. j.at = "idle" => j = IdleJob
  BY <1>1, <1>2, <1>3
<1> QED  BY <1>4 DEF HeldBy

\* A call that is over has nothing in its hands but what comes then.
LEMMA LeavesHanded ==
  ASSUME Shape, NEW a \in Actors
  PROVE  HeldBy(a, [IdleJob EXCEPT !.at = job[a].then]) /\ [IdleJob EXCEPT !.at = job[a].then].arb = 0
<1> DEFINE j == [IdleJob EXCEPT !.at = job[a].then]
<1>1. job[a].then \in {"idle", "end"}
  BY DEF Shape, Handed, HeldBy, Job
<1>2. j \in Job /\ j.at = job[a].then /\ j.arb = 0 /\ j.own = FALSE /\ j.then = "idle"
  BY <1>1 DEF IdleJob, Job, Points
<1> HIDE DEF j
<1>3. HeldBy(a, j)
  BY <1>1, <1>2, HeldFields
<1> QED  BY <1>2, <1>3 DEF j

\* A call that goes on keeps what it has.
LEMMA GoesHanded ==
  ASSUME Shape, NEW a \in Actors, NEW at,
         \/ job[a].at = "evaluate" /\ at = "trigger"
         \/ job[a].at = "ready" /\ at = "evaluate" /\ a = "gate"
         \/ job[a].at = "trigger" /\ at \in {"insert", "give_up"}
         \/ job[a].at = "act" /\ at = "finish"
         \/ job[a].at = "act" /\ at = "throw" /\ job[a].arb # 0
         \/ job[a] = IdleJob /\ at \in {"idle", "force", "act"}
         \/ job[a] = IdleJob /\ at \in {"ready", "look"} /\ a = "gate"
  PROVE  HeldBy(a, [job[a] EXCEPT !.at = at]) /\ [job[a] EXCEPT !.at = at].arb = job[a].arb
<1> DEFINE j == [job[a] EXCEPT !.at = at]
<1>1. HeldBy(a, job[a]) /\ job[a] \in Job /\ at \in Points
  BY DEF Shape, Handed, HeldBy, Points
<1>2. /\ j \in Job /\ j.at = at /\ j.arb = job[a].arb /\ j.own = job[a].own /\ j.then = job[a].then
  BY <1>1 DEF Job
<1>3. job[a] = IdleJob => job[a].at = "idle" /\ job[a].arb = 0 /\ job[a].own = FALSE /\ job[a].then = "idle"
  BY DEF IdleJob
<1> HIDE DEF j
<1>4. HeldBy(a, j)
  BY <1>1, <1>2, <1>3, HeldFields DEF HeldBy
<1> QED  BY <1>2, <1>4 DEF j

\* A call that has just taken a decision.
LEMMA NewHanded ==
  ASSUME NEW a \in Actors, NEW j, NEW arb \in Nat,
         j = [IdleJob EXCEPT !.at = "act", !.arb = arb]
  PROVE  HeldBy(a, j) /\ j.arb = arb
<1>1. j \in Job /\ j.at = "act" /\ j.arb = arb /\ j.own = FALSE /\ j.then = "idle"
  BY DEF IdleJob, Job, Points
<1> QED  BY <1>1, HeldFields

\* A call that starts at an evaluation, or at a bounce.
LEMMA SentHanded ==
  ASSUME NEW a \in Actors
  PROVE  /\ HeldBy(a, [IdleJob EXCEPT !.at = "trigger", !.own = TRUE, !.then = "end"])
         /\ [IdleJob EXCEPT !.at = "trigger", !.own = TRUE, !.then = "end"].arb = 0
         /\ a = "sweep" => HeldBy(a, [IdleJob EXCEPT !.at = "evaluate", !.then = "end"])
         /\ [IdleJob EXCEPT !.at = "evaluate", !.then = "end"].arb = 0
<1> DEFINE j == [IdleJob EXCEPT !.at = "trigger", !.own = TRUE, !.then = "end"]
           k == [IdleJob EXCEPT !.at = "evaluate", !.then = "end"]
<1>1. j \in Job /\ j.at = "trigger" /\ j.arb = 0 /\ j.own = TRUE /\ j.then = "end"
  BY DEF IdleJob, Job, Points
<1>2. k \in Job /\ k.at = "evaluate" /\ k.arb = 0 /\ k.own = FALSE /\ k.then = "end"
  BY DEF IdleJob, Job, Points
<1> HIDE DEF j, k
<1>3. HeldBy(a, j) /\ (a = "sweep" => HeldBy(a, k))
  BY <1>1, <1>2, HeldFields
<1> QED  BY <1>1, <1>2, <1>3 DEF j, k

\* Every step leaves each call with what its point needs.
LEMMA NextHanded ==
  ASSUME Shape, [Next]_vars
  PROVE  Handed' /\ \A a \in Actors : job'[a].arb \in {0} \cup Arbiters'
<1>1. "gate" \in Actors /\ "sweep" \in Actors /\ job \in [Actors -> Job]
  BY DEF Actors, Shape, Handed
<1>2. Arbiters \subseteq Arbiters' /\ \A a \in Actors : job[a].arb \in {0} \cup Arbiters /\ HeldBy(a, job[a])
  BY ArbitersStay DEF Shape, TypeOK, Handed
<1>3. LastOf("arbiter") \in {0} \cup Arbiters
  BY LastIsLast DEF Shape, LastArbiter
<1> DEFINE Fine == Handed' /\ \A a \in Actors : job'[a].arb \in {0} \cup Arbiters'
<1> SUFFICES Fine
  OBVIOUS
<1> HIDE DEF Fine
<1>4. CASE UNCHANGED job
  BY <1>1, <1>2, <1>4 DEF Handed, Fine
<1>5. ASSUME NEW a \in Actors, job' = [job EXCEPT ![a] = [IdleJob EXCEPT !.at = job[a].then]]
      PROVE  Fine
  BY <1>5, LeavesHanded, OneCall DEF Fine
<1>6. ASSUME NEW a \in Actors, NEW at, job' = [job EXCEPT ![a].at = at],
         \/ job[a].at = "evaluate" /\ at = "trigger"
         \/ job[a].at = "ready" /\ at = "evaluate" /\ a = "gate"
         \/ job[a].at = "trigger" /\ at \in {"insert", "give_up"}
         \/ job[a].at = "act" /\ at = "finish"
         \/ job[a].at = "act" /\ at = "throw" /\ job[a].arb # 0
         \/ job[a] = IdleJob /\ at \in {"idle", "force", "act"}
         \/ job[a] = IdleJob /\ at \in {"ready", "look"} /\ a = "gate"
      PROVE  Fine
  <2>1. job' = [job EXCEPT ![a] = [job[a] EXCEPT !.at = at]]
    BY <1>6
  <2>2. HeldBy(a, [job[a] EXCEPT !.at = at]) /\ [job[a] EXCEPT !.at = at].arb = job[a].arb
    BY <1>6, GoesHanded
  <2> QED  BY <1>2, <2>1, <2>2, OneCall DEF Fine
<1>7. ASSUME NEW a \in Actors, Step(a) PROVE Fine
  <2>1. CASE Evaluate(a)
    BY <1>5, <1>6, <2>1 DEF Evaluate, Goes, Leaves
  <2>2. CASE Trigger(a)
    <3>1. CASE Leaves(a)
      BY <1>5, <3>1 DEF Leaves
    <3>2. CASE Goes(a, "insert") \/ Goes(a, "give_up")
      BY <1>6, <2>2, <3>2 DEF Trigger, Goes
    <3>3. CASE job' = [job EXCEPT ![a].at = "act", ![a].arb = LastOf("arbiter")]
      <4> DEFINE j == [job[a] EXCEPT !.at = "act", !.arb = LastOf("arbiter")]
      <4>1. job' = [job EXCEPT ![a] = j] /\ job[a].at = "trigger" /\ job[a] \in Job
        BY <1>1, <2>2, <3>3 DEF Trigger
      <4>2. LastOf("arbiter") \in Nat
        BY <1>3, ArbitersCount DEF Shape
      <4>3. /\ j \in Job /\ j.at = "act" /\ j.arb = LastOf("arbiter") /\ j.own = job[a].own
            /\ j.then = job[a].then
        BY <4>1, <4>2 DEF Job, Points
      <4> HIDE DEF j
      <4>4. HeldBy(a, j)
        BY <1>2, <4>1, <4>3, HeldFields DEF HeldBy
      <4> QED  BY <1>2, <1>3, <4>1, <4>3, <4>4, OneCall DEF Fine
    <3> QED  BY <2>2, <3>1, <3>2, <3>3 DEF Trigger
  <2>3. CASE Insert(a)
    <3>1. Latest + 1 \in Nat
      BY ArbitersCount DEF Shape
    <3> DEFINE n == Latest + 1
               j == [job[a] EXCEPT !.at = "launch", !.arb = n]
    <3>2. job' = [job EXCEPT ![a] = j] /\ job[a].at = "insert" /\ job[a] \in Job
      BY <1>1, <2>3 DEF Insert
    <3>3. n \in Arbiters' /\ n # 0
      <4>1. tasks \in Seq(TaskRecord) /\ tasks' = Append(tasks, NewTask("arbiter"))
        BY <2>3 DEF Insert, Shape, TypeOK
      <4> QED  BY <4>1 DEF Arbiters, Is, Latest, NewTask
    <3>4. n \in Nat
      BY <3>1
    <3> HIDE DEF n
    <3>5. /\ j \in Job /\ j.at = "launch" /\ j.arb = n /\ j.own = job[a].own /\ j.then = job[a].then
      BY <3>4, <3>2 DEF Job, Points
    <3> HIDE DEF j
    <3>6. HeldBy(a, j)
      BY <1>2, <3>2, <3>3, <3>5, HeldFields DEF HeldBy
    <3> QED  BY <3>2, <3>3, <3>5, <3>6, OneCall DEF Fine
  <2>4. CASE Launch(a) \/ GiveUp(a) \/ End(a) \/ Finish(a) \/ Throw(a)
    BY <1>5, <2>4 DEF Launch, GiveUp, End, Finish, Throw, Leaves
  <2>5. CASE Act(a) \/ ActFails(a) \/ ActThrows(a)
    BY <1>6, <2>5 DEF Act, ActFails, ActThrows, Goes
  <2> QED  BY <1>7, <2>1, <2>2, <2>3, <2>4, <2>5 DEF Step
<1>8. ASSUME NEW a \in Actors,
             job' = [job EXCEPT ![a] = [IdleJob EXCEPT !.at = "act", !.arb = LastOf("arbiter")]]
      PROVE  Fine
  <2> DEFINE j == [IdleJob EXCEPT !.at = "act", !.arb = LastOf("arbiter")]
  <2>1. job' = [job EXCEPT ![a] = j]
    BY <1>8
  <2>2. LastOf("arbiter") \in Nat
    BY <1>3, ArbitersCount DEF Shape
  <2> HIDE DEF j
  <2>3. HeldBy(a, j) /\ j.arb = LastOf("arbiter")
    BY <2>2, NewHanded DEF j
  <2> QED  BY <1>2, <1>3, <2>1, <2>3, OneCall DEF Fine
<1>9. ASSUME NEW a \in Actors,
             job' = [job EXCEPT ![a] = [IdleJob EXCEPT !.at = "trigger", !.own = TRUE, !.then = "end"]]
      PROVE  Fine
  BY <1>9, SentHanded, OneCall DEF Fine
<1>10. ASSUME NEW a \in Actors, Bounce(a) PROVE Fine
  BY <1>9, <1>10 DEF Bounce
<1>11. CASE Sweep
  <2>1. CASE SweepComplete
    <3>1. job' = [job EXCEPT !["sweep"] = [IdleJob EXCEPT !.at = "evaluate", !.then = "end"]]
      BY <2>1 DEF SweepComplete
    <3> QED  BY <1>1, <3>1, SentHanded, OneCall DEF Fine
  <2>2. CASE SweepRetry
    <3>1. CASE UNCHANGED job
      BY <1>4, <3>1
    <3>2. CASE job' = [job EXCEPT !["sweep"] =
                         [IdleJob EXCEPT !.at = "trigger", !.own = TRUE, !.then = "end"]]
      BY <1>1, <1>9, <3>2
    <3> QED  BY <2>2, <3>1, <3>2 DEF SweepRetry
  <2>3. CASE SweepAnswer
    <3>1. PICK at \in {"idle", "force", "act"} : job' = [job EXCEPT !["sweep"].at = at]
      <4>1. asks[wf.marker] \in {"c", "s", "g"}
        BY <2>3 DEF SweepAnswer, Choices
      <4> QED  BY <2>3, <4>1 DEF SweepAnswer
    <3>2. job["sweep"] = IdleJob
      BY <2>3 DEF SweepAnswer
    <3> QED  BY <1>1, <1>6, <3>1, <3>2
  <2>4. CASE SweepResolve \/ SweepForce \/ Release
    BY <1>1, <1>4, <1>5, <1>8, <2>4 DEF SweepResolve, SweepForce, Release, Leaves, Take
  <2> QED  BY <1>11, <2>1, <2>2, <2>3, <2>4 DEF Sweep
<1>12. CASE GateReady
  <2>1. CASE Leaves("gate")
    BY <1>1, <1>5, <2>1 DEF Leaves
  <2>2. CASE job["gate"].at = "ready" /\ job' = [job EXCEPT !["gate"].at = "evaluate"]
    BY <1>1, <1>6, <2>2
  <2> QED  BY <1>12, <2>1, <2>2 DEF GateReady, Goes
<1>13. CASE GateResolve
  BY <1>1, <1>5, <1>8, <1>13 DEF GateResolve, Leaves, Take
<1>14. CASE WorkReports \/ ArbiterReports
  <2>1. ASSUME NEW at \in {"ready", "look"}, Requests(at) PROVE Fine
    <3>1. CASE job["gate"] = IdleJob
      <4>1. job' = [job EXCEPT !["gate"].at = at]
        BY <2>1, <3>1 DEF Requests
      <4> QED  BY <1>1, <1>6, <2>1, <3>1, <4>1
    <3>2. CASE job["gate"] # IdleJob
      BY <1>4, <2>1, <3>2 DEF Requests
    <3> QED  BY <3>1, <3>2
  <2>2. CASE WorkReports
    BY <2>1, <2>2 DEF WorkReports
  <2>3. CASE ArbiterReports
    BY <2>1, <2>3 DEF ArbiterReports
  <2> QED  BY <1>14, <2>2, <2>3
<1>15. CASE ArbiterFails \/ Answer \/ Return \/ Age \/ UNCHANGED vars
  BY <1>4, <1>15 DEF ArbiterFails, Answer, Return, Age, vars
<1> QED
  BY <1>7, <1>10, <1>11, <1>12, <1>13, <1>14, <1>15 DEF Next

-----------------------------------------------------------------------------
(* The type invariant. *)

\* Every step keeps the types.
LEMMA NextTypeOK ==
  ASSUME Shape, [Next]_vars
  PROVE  TypeOK'
<1> USE DEF Shape
<1> DEFINE Rows == [status : PhaseStatus, claim : {"free", "held", "old"}]
           Places == {"here", "back", "on"}
           Workflow == [status : {"active", "paused", "failed"}, marker : 0..Len(asks)]
           Asks == Seq(Choices \cup {"open", "closed"})
<1>1. row \in Rows /\ Closed \in Rows /\ [row EXCEPT !.status = Failed] \in Rows
      /\ [row EXCEPT !.claim = "held"] \in Rows /\ [row EXCEPT !.claim = "free"] \in Rows
      /\ [row EXCEPT !.claim = "old"] \in Rows
      /\ [status |-> InProgress, claim |-> "held"] \in Rows
      /\ [status |-> InProgress, claim |-> "free"] \in Rows
      /\ [status |-> Pending, claim |-> "held"] \in Rows
  BY ClosedRow DEF TypeOK, PhaseStatus, Pending, InProgress, Completed, Failed, Skipped
<1>2. wf \in Workflow /\ asks \in Asks /\ Len(asks) \in Nat /\ [wf EXCEPT !.marker = 0] \in Workflow
      /\ FailWorkflow \in Workflow /\ [status |-> "active", marker |-> 0] \in Workflow
  BY DEF TypeOK, FailWorkflow
<1>3. tasks' \in Seq(TaskRecord) /\ file \in {0} \cup Arbiters' /\ place \in Places
  BY ArbitersStay DEF TypeOK
<1>4. \A a \in Actors : job'[a].arb \in {0} \cup Arbiters'
  BY NextHanded
<1> DEFINE Rest == row' \in Rows /\ wf' \in Workflow /\ asks' = asks /\ place' \in Places
                   /\ file' \in {0} \cup Arbiters'
<1>5. ASSUME Rest PROVE TypeOK'
  BY <1>2, <1>3, <1>4, <1>5 DEF TypeOK
<1>6. ASSUME row' \in Rows, place' \in Places, UNCHANGED file, asks' \in Asks,
             Len(asks') >= Len(asks) /\ Len(asks') \in Nat,
             wf' \in [status : {"active", "paused", "failed"}, marker : 0..Len(asks')]
      PROVE  TypeOK'
  BY <1>3, <1>4, <1>6 DEF TypeOK
<1> HIDE DEF Rows, Places, Workflow, Asks
<1>7. ASSUME NEW d, Outcome(d)
      PROVE  row' \in Rows /\ wf' \in Workflow /\ place' \in Places
  BY <1>1, <1>2, <1>3, <1>7 DEF Outcome, Places
<1>8. ASSUME ForceOn PROVE row' \in Rows /\ place' \in Places
  BY <1>1, <1>3, <1>8 DEF ForceOn, Places
<1>9. ASSUME NEW a \in Actors, Step(a) PROVE TypeOK'
  <2>1. CASE Evaluate(a) \/ Trigger(a) \/ Insert(a) \/ Launch(a) \/ End(a) \/ Throw(a)
    BY <1>1, <1>2, <1>3, <1>5, <2>1 DEF Evaluate, Trigger, Insert, Launch, End, Throw
  <2>2. CASE Finish(a)
    BY <1>1, <1>2, <1>3, <1>5, <2>2 DEF Finish
  <2>3. CASE Act(a) \/ ActFails(a) \/ ActThrows(a)
    BY <1>1, <1>2, <1>3, <1>5, <1>7, <2>3 DEF Act, ActFails, ActThrows
  <2>4. CASE GiveUp(a)
    <3>1. CASE ForceOn /\ UNCHANGED <<wf, asks>>
      BY <1>2, <1>3, <1>5, <1>8, <2>4, <3>1 DEF GiveUp
    <3>2. CASE /\ asks' = Append(asks, "open")
               /\ wf' = [status |-> "paused", marker |-> Len(asks) + 1]
               /\ UNCHANGED <<row, place>>
      <4>1. asks' \in Asks /\ Len(asks') = Len(asks) + 1
        BY <1>2, <3>2 DEF Asks
      <4>2. wf' \in [status : {"active", "paused", "failed"}, marker : 0..Len(asks')]
        BY <1>2, <3>2, <4>1
      <4> QED  BY <1>1, <1>2, <1>3, <1>6, <2>4, <3>2, <4>1, <4>2 DEF GiveUp
    <3> QED  BY <2>4, <3>1, <3>2 DEF GiveUp
  <2> QED  BY <1>9, <2>1, <2>2, <2>3, <2>4 DEF Step
<1>10. CASE \E a \in Actors : Bounce(a)
  BY <1>1, <1>2, <1>3, <1>5, <1>10 DEF Bounce, Places
<1>11. CASE Sweep
  <2>1. CASE SweepComplete \/ SweepRetry \/ SweepResolve \/ Release
    BY <1>1, <1>2, <1>3, <1>5, <2>1 DEF SweepComplete, SweepRetry, SweepResolve, Release
  <2>2. CASE SweepForce
    BY <1>2, <1>3, <1>5, <1>8, <2>2 DEF SweepForce
  <2>3. CASE SweepAnswer
    <3>1. asks' = [asks EXCEPT ![wf.marker] = "closed"]
      BY <2>3 DEF SweepAnswer
    <3>2. asks' \in Asks /\ Len(asks') = Len(asks)
      <4>1. CASE wf.marker \in DOMAIN asks
        BY <1>2, <3>1, <4>1 DEF Asks
      <4>2. CASE wf.marker \notin DOMAIN asks
        <5>1. asks' = asks
          BY <1>2, <3>1, <4>2 DEF Asks
        <5> QED  BY <1>2, <5>1
      <4> QED  BY <4>1, <4>2
    <3>3. wf' \in [status : {"active", "paused", "failed"}, marker : 0..Len(asks')]
      BY <1>2, <2>3, <3>2 DEF SweepAnswer, Workflow
    <3> QED  BY <1>1, <1>2, <1>3, <1>6, <2>3, <3>2, <3>3 DEF SweepAnswer
  <2> QED  BY <1>11, <2>1, <2>2, <2>3 DEF Sweep
<1>12. CASE GateReady \/ GateResolve \/ WorkReports \/ ArbiterFails \/ Return \/ Age \/ UNCHANGED vars
  BY <1>1, <1>2, <1>3, <1>5, <1>12
     DEF GateReady, GateResolve, WorkReports, ArbiterFails, Return, Age, vars, Places
<1>13. CASE ArbiterReports
  <2>1. Live \cap Arbiters' \subseteq Arbiters' /\ \A i \in Live : Is(i, "arbiter") => i \in Arbiters'
    BY ArbitersStay DEF Live, Arbiters, Is
  <2> QED  BY <1>1, <1>2, <1>3, <1>5, <1>13, <2>1 DEF ArbiterReports
<1>14. CASE Answer
  <2>1. PICK k \in DOMAIN asks, c \in Choices : asks' = [asks EXCEPT ![k] = c]
    BY <1>14 DEF Answer
  <2>2. asks' \in Asks /\ Len(asks') = Len(asks)
    BY <1>2, <2>1 DEF Asks
  <2>3. wf' \in [status : {"active", "paused", "failed"}, marker : 0..Len(asks')]
    BY <1>2, <1>14, <2>2 DEF Answer, Workflow
  <2> QED  BY <1>1, <1>2, <1>3, <1>6, <1>14, <2>2, <2>3 DEF Answer
<1> QED
  BY <1>9, <1>10, <1>11, <1>12, <1>13, <1>14 DEF Next

\* Both together are inductive.
LEMMA NextShape ==
  ASSUME Shape, [Next]_vars
  PROVE  Shape'
BY NextHanded, NextTypeOK DEF Shape

\* Type correctness, for any cap, bounds and faults.
THEOREM TypeCorrect == Spec => []TypeOK
<1>1. Init => Shape
  BY InitShape
<1>2. Shape /\ [Next]_vars => Shape'
  BY NextShape
<1>3. Shape => TypeOK
  BY DEF Shape
<1> QED
  BY <1>1, <1>2, <1>3, PTL DEF Spec

-----------------------------------------------------------------------------
(* What each step leaves of it. *)

\* The gate's re-check.
LEMMA GateReadyKeeps ==
  ASSUME Shape, Good, GateReady
  PROVE  Good'
<1>1. UNCHANGED <<wf, tasks, file, place, asks>>
  BY DEF GateReady
<1>2. "gate" \in Actors /\ "sweep" \in Actors
  BY DEF Actors
<1>3. job["gate"].at = "ready" /\ job["gate"].then = "idle" /\ job \in [Actors -> Job]
  BY <1>2 DEF GateReady, Shape, Handed, HeldBy, At, Job
<1>4. CASE row' = row /\ job' = [job EXCEPT !["gate"] = IdleJob]
  <2> QED
    BY SMTT(30), <1>1, <1>3, <1>4, SameTasks, Table
       DEF Good, Shape, At, SweepAt, GateAt, IdleJob, Meet, AtWork, OnFile, Stays, Asked,
           Escalated, Evaluating, Acting, Gate, GateReadies, GateEvaluates, GateAsks, GateActs,
           SweepEvaluates, OldClaim

<1>5. CASE /\ row.claim = "free" /\ AllDone /\ ~ SweepAt({"trigger", "give_up"})
           /\ job' = [job EXCEPT !["gate"].at = "evaluate"] /\ row' = [row EXCEPT !.claim = "held"]
  <2>1. WorkLast /\ Live = {} /\ ~ Waiting
    BY <1>3, <1>5, Table DEF Good, Gate, GateReadies, GateAt, At, Waiting, Unheard
  <2> QED
    BY SMTT(30), <1>1, <1>3, <1>5, <2>1, SameTasks, Table
       DEF Good, Shape, Actors, At, SweepAt, GateAt, Meet, AtWork, OnFile, Stays, Asked, Escalated,
           Evaluating, Acting, Gate, GateReadies, GateEvaluates, GateAsks, GateActs,
           SweepEvaluates, OldClaim

<1> QED
  BY <1>2, <1>3, <1>4, <1>5 DEF GateReady, Goes, Leaves, AllDone, Alone, Actors, SweepAt, At, IdleJob

\* The sweep finds the work done: the gate is not further than its re-check, or
\* a person was asked.
LEMMA SweepCompleteKeeps ==
  ASSUME Shape, Good, SweepComplete
  PROVE  Good'
<1>1. UNCHANGED <<wf, tasks, file, place, asks>>
  BY DEF SweepComplete
<1>2. "gate" \in Actors /\ "sweep" \in Actors
  BY DEF Actors
<1>3. /\ job["sweep"] = IdleJob /\ ~ GateAt({"trigger", "give_up"}) /\ job \in [Actors -> Job]
      /\ job' = [job EXCEPT !["sweep"] = [IdleJob EXCEPT !.at = "evaluate", !.then = "end"]]
      /\ row = [status |-> InProgress, claim |-> "free"]
      /\ row' = [status |-> InProgress, claim |-> "held"]
  BY DEF SweepComplete, SweepLooks, Alone, GateAt, At, Actors, Shape, Handed
<1>4. WorkLast /\ Live = {} /\ ~ Waiting /\ ~ Reported
  BY Table DEF SweepComplete, SweepLooks, WorkLast, Waiting, Unheard
<1>5. GateAt({"idle", "ready"}) \/ (GateAt({"evaluate"}) /\ Escalated)
  <2>1. GateAt({"idle", "ready", "evaluate", "insert", "launch", "end", "look", "act", "finish"})
    BY <1>2, <1>3 DEF Good, Meet, GateAt, SweepAt, At, Job, IdleJob, Points
  <2>2. ~ GateAt({"look", "act", "finish", "end"})
    BY <1>3, <1>4 DEF Good, Gate, GateActs, GateAt, At
  <2>3. ~ GateAt({"launch"})
    BY <1>2, <1>4, Table DEF Good, Evaluating, GateAt
  <2>4. ~ GateAt({"insert"})
    BY <1>3, <1>4 DEF Good, Gate, GateAsks, GateAt, At
  <2>5. GateAt({"evaluate"}) => Escalated
    BY <1>3 DEF Good, Gate, GateEvaluates, InProgress, Completed
  <2> QED
    BY <2>1, <2>2, <2>3, <2>4, <2>5 DEF GateAt, At
<1> QED
  BY SMTT(30), <1>1, <1>3, <1>4, <1>5, SameTasks
     DEF Good, Shape, Actors, At, SweepAt, GateAt, Meet, AtWork, OnFile, Stays, Asked, Escalated,
         Evaluating, Acting, Gate, GateReadies, GateEvaluates, GateAsks, GateActs, SweepEvaluates,
         OldClaim

\* The evaluation with the budget spent.
LEMMA EvaluateKeeps ==
  ASSUME Shape, Good, NEW a \in Actors, Evaluate(a)
  PROVE  Good'
<1>1. UNCHANGED <<wf, tasks, file, place, asks>>
  BY DEF Evaluate
<1>2. job[a].at = "evaluate" /\ job \in [Actors -> Job]
  BY DEF Evaluate, Shape, Handed
<1>3. \/ row.status = Completed /\ row' = row
         /\ job' = [job EXCEPT ![a] = [IdleJob EXCEPT !.at = job[a].then]]
      \/ row.status # Completed /\ job' = [job EXCEPT ![a].at = "trigger"]
         /\ row' = [status |-> InProgress, claim |-> "free"]
  BY DEF Evaluate, Goes, Leaves
<1> QED
  BY SMTT(30), <1>1, <1>2, <1>3, SameTasks
     DEF Good, Shape, Handed, HeldBy, Actors, At, SweepAt, GateAt, Job, IdleJob, Meet, AtWork,
         Settled, OnFile, Stays, Asked, Escalated, Evaluating, Acting, Gate, GateReadies,
         GateEvaluates, GateAsks, GateActs, SweepEvaluates, OldClaim

\* A goto comes back to a spent phase.
LEMMA BounceKeeps ==
  ASSUME Shape, Good, NEW a \in Actors, Bounce(a)
  PROVE  Good'
BY SMTT(30), SameTasks
   DEF Good, Shape, Actors, At, SweepAt, GateAt, Meet, AtWork, Settled, OnFile, Stays, Asked,
       Escalated, Evaluating, Acting, Gate, GateReadies, GateEvaluates, GateAsks, GateActs,
       SweepEvaluates, OldClaim, Bounce

\* A person says to continue.
LEMMA SweepForceKeeps ==
  ASSUME Shape, Good, SweepForce
  PROVE  Good'
BY SMTT(30), SameTasks
   DEF Good, Shape, Handed, HeldBy, Actors, At, SweepAt, GateAt, Job, Meet, AtWork, Settled,
       OnFile, Stays, Asked, Escalated, Evaluating, Acting, Gate, GateReadies, GateEvaluates,
       GateAsks, GateActs, SweepEvaluates, OldClaim, SweepForce, Leaves

\* A person answers.
LEMMA AnswerKeeps ==
  ASSUME Shape, Good, Answer
  PROVE  Good'
BY SMTT(30), SameTasks
   DEF Good, Shape, Actors, At, SweepAt, GateAt, IdleJob, Meet, AtWork, Settled, OnFile, Stays,
       Asked, Escalated, Evaluating, Acting, Gate, GateReadies, GateEvaluates, GateAsks,
       GateActs, SweepEvaluates, OldClaim, Answer

\* A claim past its timeout is released.
LEMMA ReleaseKeeps ==
  ASSUME Shape, Good, Release
  PROVE  Good'
BY SMTT(30), SameTasks
   DEF Good, Shape, Actors, At, SweepAt, GateAt, Meet, AtWork, OnFile, Stays, Asked, Escalated,
       Evaluating, Acting, Gate, GateReadies, GateEvaluates, GateAsks, GateActs, SweepEvaluates,
       OldClaim, Release

\* An arbiter is due: a person was asked, or one is sent, or the cap is spent.
\* No decision is in the file, so none is acted on here.
LEMMA TriggerKeeps ==
  ASSUME Shape, Good, NEW a \in Actors, Trigger(a)
  PROVE  Good'
<1>1. UNCHANGED <<wf, tasks, file, place, asks>>
  BY DEF Trigger
<1>2. "gate" \in Actors /\ "sweep" \in Actors
  BY DEF Actors
<1>3. job[a].at = "trigger" /\ file = 0 /\ ~ Waiting /\ job \in [Actors -> Job]
  BY DEF Trigger, Good, OnFile, Evaluating, At, Shape, Handed
<1>4. ASSUME row' = row, job' = [job EXCEPT ![a] = [IdleJob EXCEPT !.at = job[a].then]],
             Escalated \/ (~ job[a].own /\ row.claim # "free")
      PROVE  Good'
  <2> QED
    BY SMTT(30), <1>1, <1>2, <1>3, <1>4, SameTasks
       DEF Good, Shape, Handed, HeldBy, At, SweepAt, GateAt, Job, Meet, AtWork, Settled, OnFile,
           Stays, Asked, Escalated, Evaluating, Acting, Gate, GateReadies, GateEvaluates, GateAsks,
           GateActs, SweepEvaluates, OldClaim, InProgress, Pending

<1>5. ASSUME ~ Escalated, ~ AtCap, job[a].own \/ row.claim = "free",
             row' = IF row.status = InProgress THEN [row EXCEPT !.claim = "held"]
                    ELSE [status |-> InProgress, claim |-> "free"],
             job' = [job EXCEPT ![a].at = "insert"]
      PROVE  Good'
  <2> QED
    BY SMTT(30), <1>1, <1>3, <1>5, SameTasks
       DEF Good, Shape, Actors, At, SweepAt, GateAt, Meet, AtWork, Settled, OnFile, Stays, Asked,
           Escalated, Evaluating, Acting, Gate, GateReadies, GateEvaluates, GateAsks, GateActs,
           SweepEvaluates, OldClaim, InProgress, Pending

<1>6. ASSUME ~ Escalated, AtCap, row' = row, job' = [job EXCEPT ![a].at = "give_up"]
      PROVE  Good'
  <2> QED
    BY SMTT(30), <1>1, <1>2, <1>3, <1>6, SameTasks
       DEF Good, Shape, At, SweepAt, GateAt, Meet, AtWork, Settled, OnFile, Stays, Asked,
           Escalated, Evaluating, Acting, Gate, GateReadies, GateEvaluates, GateAsks, GateActs,
           SweepEvaluates, OldClaim

<1> QED
  BY <1>3, <1>4, <1>5, <1>6, ArbitersCount DEF Shape, Trigger, AlreadyAsked, AtCap, Goes, Leaves

\* The phase is forced through, or a person is asked.
LEMMA GiveUpKeeps ==
  ASSUME Shape, Good, NEW a \in Actors, GiveUp(a)
  PROVE  Good'
<1>1. UNCHANGED <<tasks, file>>
  BY DEF GiveUp
<1>2. "gate" \in Actors /\ "sweep" \in Actors
  BY DEF Actors
<1>3. /\ job[a].at = "give_up" /\ file = 0 /\ ~ Waiting /\ AtCap /\ ~ Escalated /\ job \in [Actors -> Job]
      /\ job' = [job EXCEPT ![a] = [IdleJob EXCEPT !.at = job[a].then]]
  BY DEF GiveUp, Leaves, Good, OnFile, Evaluating, Asked, At, Shape, Handed
<1>4. job'["gate"].at = "end" => row.status = Pending
  BY <1>2, <1>3
     DEF Good, Shape, Handed, HeldBy, Meet, Gate, GateAsks, GateAt, SweepAt, At, Actors, IdleJob, Job
<1>5. ASSUME UNCHANGED <<wf, asks>>,
             row' = IF row.status = InProgress THEN [row EXCEPT !.status = Completed] ELSE row
      PROVE  Good'
  <2> QED
    BY SMTT(30), <1>1, <1>3, <1>5, SameTasks
       DEF Good, Shape, Handed, HeldBy, Actors, At, SweepAt, GateAt, Job, IdleJob, Meet, AtWork,
           Settled, OnFile, Stays, Asked, Escalated, Evaluating, Acting, Gate, GateReadies,
           GateEvaluates, GateAsks, GateActs, SweepEvaluates, OldClaim, Pending, InProgress

<1>6. ASSUME UNCHANGED <<row, place>>, asks' = Append(asks, "open"),
             wf' = [status |-> "paused", marker |-> Len(asks) + 1]
      PROVE  Good'
  <2> QED
    BY SMTT(30), <1>1, <1>3, <1>6, SameTasks, Table
       DEF Good, Shape, Handed, HeldBy, Actors, At, SweepAt, GateAt, Job, Meet, AtWork, OnFile,
           Stays, Asked, Escalated, Evaluating, Acting, Gate, GateReadies, GateEvaluates, GateAsks,
           GateActs, SweepEvaluates, OldClaim, Pending, InProgress

<1> QED
  BY <1>5, <1>6, ClosedRow DEF GiveUp, ForceOn, Shape

\* A call is over and frees the phase, unless an arbiter is at work.
LEMMA EndKeeps ==
  ASSUME Shape, Good, NEW a \in Actors, End(a)
  PROVE  Good'
<1>1. UNCHANGED <<wf, tasks, file, place, asks>>
  BY DEF End
<1>2. "gate" \in Actors /\ "sweep" \in Actors
  BY DEF Actors
<1>3. /\ job[a].at = "end" /\ job[a].then = "idle" /\ job \in [Actors -> Job]
      /\ job' = [job EXCEPT ![a] = IdleJob]
      /\ row' = IF InFlight THEN row ELSE [row EXCEPT !.claim = "free"]
  <2>1. job[a].at = "end" /\ job \in [Actors -> Job]
    BY DEF End, Shape, Handed
  <2>2. job[a].then = "idle"
    BY <2>1 DEF Shape, Handed, HeldBy, At, Job
  <2>3. [IdleJob EXCEPT !.at = job[a].then] = IdleJob
    BY <2>2 DEF IdleJob
  <2> QED
    BY <2>1, <2>2, <2>3 DEF End, Leaves
<1> QED
  BY SMTT(30), <1>1, <1>3, SameTasks, Table
     DEF Good, Shape, Actors, At, SweepAt, GateAt, IdleJob, Meet, AtWork, Settled, OnFile, Stays,
         Asked, Escalated, Evaluating, Acting, Gate, GateReadies, GateEvaluates, GateAsks,
         GateActs, SweepEvaluates, OldClaim

\* The decision was acted on and its file goes.
LEMMA FinishKeeps ==
  ASSUME Shape, Good, NEW a \in Actors, Finish(a)
  PROVE  Good'
<1>1. UNCHANGED <<wf, tasks, place, asks>>
  BY DEF Finish
<1>2. "gate" \in Actors /\ "sweep" \in Actors
  BY DEF Actors
<1>3. /\ job[a].at = "finish" /\ job[a].then = "idle" /\ job \in [Actors -> Job]
      /\ job' = [job EXCEPT ![a] = IdleJob]
      /\ row' = [row EXCEPT !.claim = "free"]
  <2>1. job[a].at = "finish" /\ job \in [Actors -> Job]
    BY DEF Finish, Shape, Handed
  <2>2. job[a].then = "idle"
    BY <2>1 DEF Good, Acting, At
  <2>3. [IdleJob EXCEPT !.at = job[a].then] = IdleJob
    BY <2>2 DEF IdleJob
  <2> QED
    BY <2>1, <2>2, <2>3 DEF Finish, Leaves
<1>4. file' = 0
  BY <1>3 DEF Finish, Good, OnFile, At, Reported
<1> QED
  BY SMTT(30), <1>1, <1>3, <1>4, SameTasks
     DEF Good, Shape, Actors, At, SweepAt, GateAt, IdleJob, Meet, AtWork, Settled, OnFile, Stays,
         Asked, Escalated, Evaluating, Acting, Gate, GateReadies, GateEvaluates, GateAsks,
         GateActs, SweepEvaluates, OldClaim

\* The sweep reads a person's answer.
LEMMA SweepAnswerKeeps ==
  ASSUME Shape, Good, SweepAnswer
  PROVE  Good'
<1>1. UNCHANGED <<row, tasks, file, place>>
  BY DEF SweepAnswer
<1>2. "gate" \in Actors /\ "sweep" \in Actors
  BY DEF Actors
<1>3. /\ Escalated /\ ~ Waiting /\ AtCap /\ file = 0 /\ job["sweep"] = IdleJob /\ job \in [Actors -> Job]
      /\ GateAt({"idle"})
      /\ ~ Escalated' /\ \E at \in {"idle", "force", "act"} : job' = [job EXCEPT !["sweep"].at = at]
  BY DEF SweepAnswer, Good, Asked, Choices, Escalated, FailWorkflow, Shape, Handed
<1> QED
  BY SMTT(30), <1>1, <1>3, SameTasks, Table
     DEF Good, Shape, At, SweepAt, GateAt, IdleJob, Meet, AtWork, OnFile, Stays, Asked, Evaluating,
         Acting, Gate, GateReadies, GateEvaluates, GateAsks, GateActs, SweepEvaluates, OldClaim

\* A decision moves the phase: it is the last arbiter's own, for the first time.
LEMMA ActKeeps ==
  ASSUME Shape, Good, NEW a \in Actors, Act(a)
  PROVE  Good'
<1> DEFINE i == job[a].arb
<1>1. UNCHANGED <<file, asks>>
  BY DEF Act
<1>2. "gate" \in Actors /\ "sweep" \in Actors
  BY DEF Actors
<1>3. /\ job[a].at = "act" /\ job[a].then = "idle" /\ job \in [Actors -> Job]
      /\ job' = [job EXCEPT ![a].at = "finish"]
  <2>1. job[a].at = "act" /\ job \in [Actors -> Job] /\ job' = [job EXCEPT ![a].at = "finish"]
    BY DEF Act, Goes, Shape, Handed, HeldBy
  <2> QED  BY <2>1 DEF Good, Acting, At
<1>4. /\ i \in {0} \cup Arbiters /\ file \in {0, i}
      /\ i # 0 => i = LastArbiter /\ tasks[i].taken /\ tasks[i].acted = 0
      /\ i # 0 /\ tasks[i].state = "done" => i = Latest
      /\ i = 0 => ~ Waiting /\ AtCap
  BY <1>3 DEF Good, Acting, OnFile, At, Shape, TypeOK
<1>5. \/ tasks' = tasks
      \/ /\ i # 0 /\ i \in DOMAIN tasks
         /\ tasks' = [tasks EXCEPT ![i] = [tasks[i] EXCEPT !.acted = 1]]
  <2>1. i # 0 => /\ Author(i) = i /\ i \in DOMAIN tasks
                 /\ (IF tasks[i].acted = 2 THEN 2 ELSE tasks[i].acted + 1) = 1
    BY <1>4 DEF Author, Arbiters
  <2>2. tasks' = Counted(i)
    BY DEF Act
  <2> QED  BY <2>1, <2>2 DEF Counted
<1>6. /\ DOMAIN tasks' = DOMAIN tasks /\ Len(tasks') = Len(tasks)
      /\ \A j \in DOMAIN tasks : /\ tasks'[j].kind = tasks[j].kind /\ tasks'[j].state = tasks[j].state
                                 /\ tasks'[j].taken = tasks[j].taken
                                 /\ \/ tasks'[j].acted = tasks[j].acted
                                    \/ j = i /\ i # 0 /\ tasks'[j].acted = 1
  <2>1. CASE tasks' = tasks
    BY <2>1
  <2>2. CASE i # 0 /\ i \in DOMAIN tasks /\ tasks' = [tasks EXCEPT ![i] = [tasks[i] EXCEPT !.acted = 1]]
    <3>1. tasks[i] \in TaskRecord
      BY <2>2 DEF Shape, TypeOK
    <3>2. [tasks[i] EXCEPT !.acted = 1] \in TaskRecord
      BY <3>1 DEF TaskRecord
    <3>3. /\ DOMAIN tasks' = DOMAIN tasks /\ Len(tasks') = Len(tasks)
          /\ tasks'[i] = [tasks[i] EXCEPT !.acted = 1]
          /\ \A j \in DOMAIN tasks : j # i => tasks'[j] = tasks[j]
      BY <2>2, <3>2, OneTask DEF Shape
    <3> QED  BY <2>2, <3>1, <3>3 DEF TaskRecord
  <2> QED  BY <1>5, <2>1, <2>2
<1>7. /\ i = 0 \/ (Reported /\ i = Latest) => ~ Waiting /\ (AtCap \/ Reported)
      /\ i # 0 /\ tasks[i].state = "done" => Reported /\ i = Latest
  BY <1>4, Table DEF Good, Reported, Arbiters
<1>8. PICK d \in Decisions(i) : Outcome(d)
  BY DEF Act
<1>9. /\ wf' = [wf EXCEPT !.marker = 0] \/ wf' = FailWorkflow
      /\ \/ row.status = Completed /\ row' = row /\ place' = place
         \/ row' = [row EXCEPT !.status = Failed] /\ place' = place
         \/ /\ row' = IF row.status = InProgress THEN [row EXCEPT !.status = Completed] ELSE row
            /\ place' = place \/ i = 0 \/ (Reported /\ i = Latest)
  BY <1>7, <1>8, ClosedRow DEF Outcome, Decisions, Shape
<1>10. /\ Latest' = Latest /\ Live' = Live /\ Arbiters' = Arbiters /\ LastArbiter' = LastArbiter
      /\ WorkLast' = WorkLast /\ Reported' = Reported /\ ToRetry' = ToRetry
      /\ InFlight' = InFlight /\ Waiting' = Waiting /\ AtCap' = AtCap
      /\ AllDone' = AllDone /\ AllTaken' = AllTaken /\ Past' = Past
      /\ \A j \in DOMAIN tasks : Over(j)' = Over(j)
  BY <1>6, SameStates
<1>11. Heeded'
  BY <1>4, <1>6, <1>10 DEF Good, Heeded, Shape, TypeOK, Arbiters
<1>12. i # 0 => i \in DOMAIN tasks /\ tasks'[i].taken /\ Over(i)'
  BY <1>3, <1>4, <1>6, <1>10 DEF Good, Acting, At, Arbiters
<1>13. Reported => tasks'[Latest].taken = tasks[Latest].taken
  BY <1>6 DEF Reported, Is
<1> HIDE DEF i
<1>14. Meet' /\ SweepEvaluates' /\ OldClaim' /\ Evaluating' /\ Acting'
  BY SMTT(30), <1>3, <1>9, <1>10, <1>12
     DEF Good, Shape, Actors, At, SweepAt, GateAt, Meet, Evaluating, Acting, SweepEvaluates,
         OldClaim, i, TypeOK
<1>15. AtWork' /\ OnFile' /\ Stays' /\ Asked'
  BY SMTT(30), <1>1, <1>2, <1>3, <1>7, <1>9, <1>10, Table
     DEF Good, Shape, At, SweepAt, GateAt, AtWork, Settled, OnFile, Stays, Asked, Escalated, Gate,
         GateActs, TypeOK, FailWorkflow
<1>16. Gate'
  BY SMTT(30), <1>3, <1>9, <1>10, <1>13
     DEF Good, Shape, Actors, At, SweepAt, GateAt, Meet, Gate, GateReadies, GateEvaluates,
         GateAsks, GateActs, TypeOK, InProgress, Failed
<1> QED
  BY <1>10, <1>11, <1>14, <1>15, <1>16 DEF Good

\* One of the two takes the decision: the other is not about to.
LEMMA TakeKeeps ==
  ASSUME Shape, Good, NEW a \in Actors, Take(a), UNCHANGED <<wf, row, file, place, asks>>,
         IF a = "sweep" THEN job["sweep"] = IdleJob /\ wf.status = "active" ELSE GateAt({"look"})
  PROVE  Good'
<1> DEFINE i == LastArbiter
<1>1. "gate" \in Actors /\ "sweep" \in Actors
  BY DEF Actors
<1>2. /\ row.claim # "free" /\ i # 0 /\ Over(i) /\ ~ tasks[i].taken /\ i \in Arbiters /\ i \in DOMAIN tasks
      /\ tasks' = [tasks EXCEPT ![i] = [tasks[i] EXCEPT !.taken = TRUE]]
      /\ job' = [job EXCEPT ![a] = [IdleJob EXCEPT !.at = "act", !.arb = i]] /\ job \in [Actors -> Job]
      /\ \A b \in Actors \ {a} : ~ At(b, {"trigger", "give_up"})
  BY LastIsLast DEF Take, Resolvable, LastArbiter, Alone, At, Shape, Handed, HeldBy, Arbiters
<1>3. /\ DOMAIN tasks' = DOMAIN tasks /\ Len(tasks') = Len(tasks)
      /\ \A j \in DOMAIN tasks : /\ tasks'[j].kind = tasks[j].kind /\ tasks'[j].state = tasks[j].state
                                 /\ tasks'[j].acted = tasks[j].acted
                                 /\ tasks'[j].taken = (tasks[j].taken \/ j = i)
  <2>1. tasks[i] \in TaskRecord
    BY <1>2 DEF Shape, TypeOK
  <2>2. [tasks[i] EXCEPT !.taken = TRUE] \in TaskRecord
    BY <2>1 DEF TaskRecord
  <2>3. /\ DOMAIN tasks' = DOMAIN tasks /\ Len(tasks') = Len(tasks)
        /\ tasks'[i] = [tasks[i] EXCEPT !.taken = TRUE]
        /\ \A j \in DOMAIN tasks : j # i => tasks'[j] = tasks[j]
    BY <1>2, <2>2, OneTask DEF Shape
  <2>4. \A j \in DOMAIN tasks : tasks[j].taken \in BOOLEAN
    BY Records DEF Shape
  <2> QED  BY <2>1, <2>3, <2>4 DEF TaskRecord
<1>4. /\ Latest' = Latest /\ Arbiters' = Arbiters /\ LastArbiter' = LastArbiter
      /\ WorkLast' = WorkLast /\ AtCap' = AtCap /\ Live' = Live
      /\ \A j \in DOMAIN tasks : Over(j)' = Over(j)
  BY <1>3, SameKinds DEF Live, Over
<1>5. /\ Reported' = Reported /\ ToRetry' = ToRetry /\ InFlight' = InFlight /\ AllDone' = AllDone
      /\ Unheard' => Unheard
  BY <1>3, <1>4 DEF Reported, ToRetry, InFlight, Unheard, AllDone, Is, Over
<1>6. Past'
  BY <1>3, <1>4 DEF Past, Good, Is, Over
<1>7. Heeded'
  BY <1>3, <1>4 DEF Heeded, Good, Arbiters
<1>8. Waiting' => Waiting
  BY <1>4, <1>5 DEF Waiting
<1>9. /\ Is(Latest, "arbiter") => i = Latest
      /\ tasks[i].state = "done" => i = Latest
      /\ ~ AllTaken /\ ~ InFlight /\ tasks[i].acted = 0
  <2>1. Is(Latest, "arbiter") => i = Latest
    BY LatestArbiter DEF Shape
  <2>2. tasks[i].state = "done" => i = Latest
    BY <1>2 DEF Good, Past, Is, Arbiters
  <2>3. tasks[i].acted = 0
    BY <1>2, Records DEF Good, Heeded, Shape
  <2>4. ~ AllTaken /\ ~ InFlight
    BY <1>2, <2>1 DEF AllTaken, InFlight, Over
  <2> QED  BY <2>1, <2>2, <2>3, <2>4
<1>10. /\ job["sweep"] = IdleJob
      /\ a = "sweep" => GateAt({"idle", "end", "look"})
  <2>1. CASE a = "sweep"
    <3>1. ~ GateAt({"trigger", "give_up"})
      BY <1>1, <1>2, <2>1 DEF GateAt, At
    <3>2. ~ GateAt({"ready", "evaluate"})
      BY <1>2, <1>9, <2>1 DEF Good, Gate, GateReadies, GateEvaluates, GateAt, SweepAt, At, IdleJob
    <3>3. ~ GateAt({"insert"})
      BY <1>2, <1>9 DEF Good, Gate, GateAsks, GateAt, At
    <3>4. ~ GateAt({"launch"})
      BY <1>1, <1>9 DEF Good, Evaluating, GateAt
    <3>5. ~ GateAt({"act", "finish"})
      BY <1>1, <1>2, <1>9 DEF Good, Gate, GateActs, Acting, GateAt, At, Reported
    <3>6. ~ GateAt({"throw", "force"})
      BY <2>1 DEF Good, Meet, GateAt, SweepAt, At, IdleJob
    <3> QED
      BY <1>1, <1>2, <2>1, <3>1, <3>2, <3>3, <3>4, <3>5, <3>6 DEF GateAt, At, Job, Points
  <2>2. CASE a = "gate"
    <3>1. SweepAt({"idle", "act", "finish"})
      BY <2>2 DEF Good, Meet, GateAt, SweepAt, At
    <3>2. SweepAt({"idle"})
      BY <1>1, <1>2, <1>9, <2>2 DEF Good, Gate, GateActs, SweepAt, GateAt, At, Reported
    <3> QED
      BY <1>1, <2>2, <3>2 DEF Shape, Handed, HeldBy, SweepAt, At
  <2> QED  BY <2>1, <2>2 DEF Actors
<1>11. tasks'[i].taken /\ tasks'[i].acted = 0 /\ tasks'[i].state = tasks[i].state
  BY <1>2, <1>3, <1>9
<1> HIDE DEF i
<1>12. Reported => tasks'[Latest].taken
  BY <1>9, <1>11 DEF Reported
<1>13. Meet' /\ AtWork' /\ OnFile' /\ Stays' /\ Asked' /\ SweepEvaluates' /\ OldClaim'
  BY SMTT(30), <1>1, <1>2, <1>4, <1>5, <1>8, <1>9, <1>10
     DEF Good, Shape, At, SweepAt, GateAt, Meet, AtWork, OnFile, Stays, Asked, Escalated, Acting,
         Gate, GateActs, SweepEvaluates, OldClaim, Reported
<1>14. Evaluating' /\ Acting' /\ Gate'
  BY SMTT(30), <1>2, <1>4, <1>5, <1>8, <1>9, <1>10
     DEF Good, Shape, At, SweepAt, GateAt, IdleJob, Evaluating, Acting, Gate, GateReadies,
         GateEvaluates, GateAsks, GateActs, i, Reported
<1> QED
  BY <1>6, <1>7, <1>13, <1>14 DEF Good

\* The claim goes stale, at worst under an arbiter that is late.
LEMMA AgeKeeps ==
  ASSUME Shape, Good, Age
  PROVE  Good'
<1>1. /\ UNCHANGED <<wf, file, place, asks, job>> /\ Settled /\ row.claim # "free"
      /\ row' = [row EXCEPT !.claim = "old"] /\ job \in [Actors -> Job]
  BY DEF Age, Settled, Shape, Handed, HeldBy
<1>2. /\ DOMAIN tasks' = DOMAIN tasks /\ Len(tasks') = Len(tasks)
      /\ \A i \in DOMAIN tasks : /\ tasks'[i].kind = tasks[i].kind /\ tasks'[i].state = tasks[i].state
                                 /\ tasks'[i].taken = tasks[i].taken /\ tasks'[i].acted = tasks[i].acted
  <2>1. CASE InFlight
    <3>1. Latest \in DOMAIN tasks /\ tasks[Latest] \in TaskRecord
      BY <2>1, Records DEF InFlight, Is, Shape
    <3>2. [tasks[Latest] EXCEPT !.late = TRUE] \in TaskRecord
      BY <3>1 DEF TaskRecord
    <3>3. tasks' = [tasks EXCEPT ![Latest] = [tasks[Latest] EXCEPT !.late = TRUE]]
      BY <2>1 DEF Age
    <3>4. /\ DOMAIN tasks' = DOMAIN tasks /\ Len(tasks') = Len(tasks)
          /\ tasks'[Latest] = [tasks[Latest] EXCEPT !.late = TRUE]
          /\ \A j \in DOMAIN tasks : j # Latest => tasks'[j] = tasks[j]
      BY <3>1, <3>2, <3>3, OneTask DEF Shape
    <3> QED  BY <3>1, <3>4 DEF TaskRecord
  <2>2. CASE ~ InFlight
    BY <2>2 DEF Age
  <2> QED  BY <2>1, <2>2
<1>3. /\ Latest' = Latest /\ Live' = Live /\ Arbiters' = Arbiters /\ WorkLast' = WorkLast
      /\ Reported' = Reported /\ Waiting' = Waiting /\ AtCap' = AtCap /\ Past' = Past
  BY <1>2, SameStates
<1>4. Heeded'
  BY <1>2, <1>3 DEF Good, Heeded, Arbiters
<1>5. \A a \in Actors : job[a].at = "idle"
  BY <1>1 DEF Settled, IdleJob
<1> QED
  BY <1>1, <1>3, <1>4, <1>5, Quiet
     DEF Good, Settled, AtWork, OnFile, Stays, Asked, Escalated, At, SweepAt, GateAt, Actors, Shape, TypeOK

\* The pipeline is back at the phase.
LEMMA ReturnKeeps ==
  ASSUME Shape, Good, Return
  PROVE  Good'
<1>1. /\ UNCHANGED <<wf, file, asks, job>> /\ Settled /\ wf.status = "active"
      /\ place # "here" /\ place' = "here"
      /\ row' = [status |-> InProgress, claim |-> "free"] /\ job \in [Actors -> Job]
  BY DEF Return, Shape, Handed, HeldBy
<1>2. \A a \in Actors : job[a].at = "idle"
  BY <1>1 DEF Settled, IdleJob
<1>3. ~ Waiting /\ file = 0
  BY <1>1, <1>2 DEF Good, Stays, OnFile, At
<1>4. Past' /\ Heeded' /\ WorkLast'
  BY <1>3, TaskAdded DEF Return, Good, Shape
<1> QED
  BY <1>1, <1>3, <1>4, Quiet DEF Settled, Stays, Escalated

\* An arbiter dies.
LEMMA ArbiterFailsKeeps ==
  ASSUME Shape, Good, ArbiterFails
  PROVE  Good'
<1>1. /\ UNCHANGED <<wf, row, file, place, asks, job>> /\ Settled /\ job \in [Actors -> Job]
  BY DEF ArbiterFails, Shape, Handed, HeldBy
<1>2. PICK i \in Live, state \in {"failed", "spent"} :
        Is(i, "arbiter") /\ tasks' = [tasks EXCEPT ![i].state = state]
  BY DEF ArbiterFails
<1>3. i = Latest /\ i \in DOMAIN tasks /\ InFlight /\ Waiting
  BY <1>2 DEF Good, Past, Live, InFlight, Waiting
<1>4. Past' /\ Heeded' /\ Live' = {}
  BY <1>2, <1>3, LatestMoves DEF Good, Shape
<1>5. place = "here" /\ file = 0 /\ ~ Escalated
  BY <1>3, Table DEF Good, Stays, OnFile, Asked
<1> QED
  BY <1>1, <1>4, <1>5, Quiet DEF Settled, Stays, Escalated

\* It is sent out again, or has spent its retries.
LEMMA SweepRetryKeeps ==
  ASSUME Shape, Good, SweepRetry
  PROVE  Good'
<1>1. "gate" \in Actors /\ "sweep" \in Actors
  BY DEF Actors
<1>2. /\ UNCHANGED <<wf, file, place, asks>> /\ job["sweep"] = IdleJob /\ job \in [Actors -> Job]
      /\ ~ GateAt({"trigger", "give_up"}) /\ Live = {} /\ row = [status |-> InProgress, claim |-> "free"]
      /\ Is(Latest, "arbiter") /\ tasks[Latest].state \in {"failed", "spent"}
  BY DEF SweepRetry, SweepLooks, Alone, GateAt, At, Actors, Shape, Handed, HeldBy
<1>3. ~ Reported /\ ~ WorkLast /\ ~ InFlight /\ Latest \in DOMAIN tasks
  BY <1>2, Table DEF Reported, WorkLast, InFlight, Over, Is
<1>4. job["gate"] = IdleJob
  <2>1. ~ GateAt({"ready", "evaluate"})
    BY <1>2, <1>3 DEF Good, Gate, GateReadies, GateEvaluates, GateAt, At, InProgress, Failed
  <2>2. ~ GateAt({"insert"})
    <3>1. ~ AllDone
      BY <1>2, <1>3 DEF AllDone
    <3> QED  BY <1>2, <1>3, <3>1 DEF Good, Gate, GateAsks, GateAt, At
  <2>3. ~ GateAt({"launch"})
    BY <1>1, <1>3 DEF Good, Evaluating, GateAt
  <2>4. ~ GateAt({"look", "act", "finish", "end"})
    BY <1>2, <1>3 DEF Good, Gate, GateActs, GateAt, At
  <2>5. ~ GateAt({"throw", "force"})
    BY <1>2 DEF Good, Meet, GateAt, SweepAt, At, IdleJob
  <2> QED
    BY <1>1, <1>2, <2>1, <2>2, <2>3, <2>4, <2>5 DEF GateAt, At, Shape, Handed, HeldBy, Job, Points
<1>5. file = 0
  BY <1>3 DEF Good, OnFile
<1>6. ASSUME tasks[Latest].state = "failed", tasks' = [tasks EXCEPT ![Latest].state = "live"],
             UNCHANGED <<row, job>>
      PROVE  Good'
  <2>1. Past' /\ Heeded' /\ ~ WorkLast'
    BY <1>3, <1>6, LatestMoves DEF Good, Shape
  <2>2. Waiting /\ place = "here" /\ ~ Escalated
    BY <1>2, <1>6 DEF Good, Stays, Asked, Waiting, ToRetry
  <2>3. Settled
    BY <1>2, <1>4 DEF Settled, Actors
  <2> QED
    BY <1>2, <1>5, <1>6, <2>1, <2>2, <2>3, Quiet DEF Settled, Stays, Escalated
<1>7. ASSUME tasks[Latest].state = "spent", UNCHANGED tasks, row' = [row EXCEPT !.claim = "held"],
             job' = [job EXCEPT !["sweep"] = [IdleJob EXCEPT !.at = "trigger", !.own = TRUE, !.then = "end"]]
      PROVE  Good'
  <2>1. ~ Waiting
    BY <1>2, <1>7 DEF Waiting, ToRetry, Unheard, Reported
  <2> QED
    BY SMTT(30), <1>2, <1>3, <1>4, <1>7, <2>1, SameTasks
       DEF Good, Shape, At, SweepAt, GateAt, Meet, AtWork, OnFile, Stays, Asked, Escalated,
           Evaluating, Acting, Gate, GateReadies, GateEvaluates, GateAsks, GateActs,
           SweepEvaluates, OldClaim

<1> QED
  BY <1>6, <1>7 DEF SweepRetry

\* An agent reports its work done.
LEMMA WorkReportsKeeps ==
  ASSUME Shape, Good, WorkReports
  PROVE  Good'
<1>1. /\ UNCHANGED <<wf, row, file, place, asks>> /\ Settled /\ job \in [Actors -> Job]
      /\ job' = [job EXCEPT !["gate"].at = "ready"] \/ job["gate"] # IdleJob
  BY DEF WorkReports, Requests, Shape, Handed, HeldBy
<1>2. /\ job["sweep"] = IdleJob /\ job["gate"] = IdleJob
      /\ job' = [job EXCEPT !["gate"].at = "ready"]
  BY <1>1 DEF Settled, Actors
<1>3. PICK i \in Live : Is(i, "work") /\ tasks' = [tasks EXCEPT ![i].state = "done"]
  BY DEF WorkReports
<1>4. i = Latest /\ i \in DOMAIN tasks /\ WorkLast /\ Waiting /\ ~ Reported
  BY <1>3 DEF Good, Past, Live, WorkLast, Waiting, Is, Reported
<1>5. /\ Past' /\ Heeded' /\ Live' = {} /\ WorkLast' /\ ~ Reported' /\ ~ ToRetry' /\ ~ InFlight'
      /\ AtCap' = AtCap
  BY <1>3, <1>4, LatestMoves DEF Good, Shape, WorkLast, Is
<1>6. place = "here" /\ file = 0 /\ ~ Escalated /\ row = [status |-> InProgress, claim |-> "free"]
  BY <1>4, Table DEF Good, Stays, OnFile, Asked, AtWork
<1> QED
  BY SMTT(30), <1>1, <1>2, <1>5, <1>6
     DEF Good, Shape, At, SweepAt, GateAt, Meet, AtWork, Settled, OnFile, Stays, Asked, Escalated,
         Evaluating, Acting, Gate, GateReadies, GateEvaluates, GateAsks, GateActs, SweepEvaluates,
         OldClaim

\* An arbiter reports, with a decision or without.
LEMMA ArbiterReportsKeeps ==
  ASSUME Shape, Good, ArbiterReports
  PROVE  Good'
<1>1. /\ UNCHANGED <<wf, row, place, asks>> /\ Settled /\ job \in [Actors -> Job]
      /\ job' = [job EXCEPT !["gate"].at = "look"] \/ job["gate"] # IdleJob
  BY DEF ArbiterReports, Requests, Shape, Handed, HeldBy
<1>2. /\ job["sweep"] = IdleJob /\ job["gate"] = IdleJob
      /\ job' = [job EXCEPT !["gate"].at = "look"]
  BY <1>1 DEF Settled, Actors
<1>3. PICK i \in Live : /\ Is(i, "arbiter") /\ tasks' = [tasks EXCEPT ![i].state = "done"]
                        /\ file' = i \/ file' = file
  BY DEF ArbiterReports
<1>4. i = Latest /\ i \in DOMAIN tasks /\ InFlight /\ Waiting /\ ~ Reported
  BY <1>3 DEF Good, Past, Live, InFlight, Waiting, Is, Reported, Over
<1>5. /\ Past' /\ Heeded' /\ Live' = {} /\ ~ WorkLast' /\ Reported' /\ ~ ToRetry' /\ ~ InFlight'
      /\ AtCap' = AtCap /\ Latest' = Latest
  BY <1>3, <1>4, Table, LatestMoves DEF Good, Shape, WorkLast, Is
<1>6. place = "here" /\ file \in {0} /\ file' \in {0, Latest} /\ ~ Escalated
  BY <1>3, <1>4, Table DEF Good, Stays, OnFile, Asked
<1> QED
  BY SMTT(30), <1>1, <1>2, <1>5, <1>6
     DEF Good, Shape, At, SweepAt, GateAt, Meet, AtWork, Settled, OnFile, Stays, Asked, Escalated,
         Evaluating, Acting, Gate, GateReadies, GateEvaluates, GateAsks, GateActs, SweepEvaluates,
         OldClaim

\* The arbiter starts, or its launch fails and the workflow with it.
LEMMA LaunchKeeps ==
  ASSUME Shape, Good, NEW a \in Actors, Launch(a)
  PROVE  Good'
<1>1. "gate" \in Actors /\ "sweep" \in Actors
  BY DEF Actors
<1>2. /\ UNCHANGED <<file, place, asks>> /\ job[a].at = "launch" /\ job \in [Actors -> Job]
      /\ job' = [job EXCEPT ![a] = [IdleJob EXCEPT !.at = job[a].then]]
  BY DEF Launch, Leaves, Shape, Handed, HeldBy
<1>3. InFlight /\ job[a].arb = Latest /\ place = "here" /\ file = 0 /\ ~ Escalated
  BY <1>2, Table DEF Good, Evaluating, OnFile, Asked, At
<1>4. Waiting /\ Live # {} /\ ~ WorkLast /\ ~ Reported /\ ~ ToRetry /\ ~ AllDone /\ Latest \in DOMAIN tasks
  BY <1>3, Table DEF Waiting, InFlight, Is
<1>5. ASSUME UNCHANGED <<wf, row, tasks>> PROVE Good'
  <2> QED
    BY SMTT(30), <1>2, <1>4, <1>5, SameTasks
       DEF Good, Shape, At, SweepAt, GateAt, Job, Meet, AtWork, OnFile, Stays, Asked, Escalated,
           Evaluating, Acting, Gate, GateReadies, GateEvaluates, GateAsks, GateActs,
           SweepEvaluates, OldClaim

<1>6. ASSUME row' = [row EXCEPT !.status = Failed], wf' = FailWorkflow,
             tasks' = [tasks EXCEPT ![Latest].state = "failed"]
      PROVE Good'
  <2>1. /\ Past' /\ Heeded' /\ Live' = {} /\ ~ WorkLast' /\ ~ Reported' /\ ToRetry' /\ ~ InFlight'
        /\ ~ AllDone' /\ Latest' = Latest
    BY <1>3, <1>4, <1>6, LatestMoves DEF Good, Shape, InFlight
  <2> QED
    BY SMTT(30), <1>2, <1>6, <2>1
       DEF Good, Shape, Handed, HeldBy, Actors, At, SweepAt, GateAt, Job, Meet, AtWork, OnFile,
           Stays, Asked, Escalated, Evaluating, Acting, Gate, GateReadies, GateEvaluates, GateAsks,
           GateActs, SweepEvaluates, OldClaim, TypeOK, FailWorkflow, Failed, InProgress

<1> QED
  BY <1>2, <1>3, <1>5, <1>6 DEF Launch

\* The task of the arbiter is written.
LEMMA InsertKeeps ==
  ASSUME Shape, Good, NEW a \in Actors, Insert(a)
  PROVE  Good'
<1>1. "gate" \in Actors /\ "sweep" \in Actors
  BY DEF Actors
<1>2. /\ UNCHANGED <<wf, row, file, place, asks>> /\ job[a].at = "insert" /\ job \in [Actors -> Job]
      /\ job' = [job EXCEPT ![a].at = "launch", ![a].arb = Latest + 1]
      /\ tasks' = Append(tasks, NewTask("arbiter"))
  BY DEF Insert, Shape, Handed, HeldBy
<1>3. ~ Waiting /\ place = "here" /\ file = 0 /\ ~ Escalated
  BY <1>2 DEF Good, Evaluating, OnFile, Asked, At
<1>4. /\ Past' /\ Heeded' /\ Live' # {} /\ ~ WorkLast' /\ ~ Reported' /\ ~ ToRetry' /\ InFlight'
      /\ ~ AllDone' /\ Latest' = Latest + 1 /\ (AtCap => AtCap')
  BY <1>2, <1>3, TaskAdded DEF Good, Shape
<1>5. \A b \in Actors \ {a} : At(b, {"idle", "ready"})
  BY <1>1, <1>2 DEF Good, Meet, SweepAt, GateAt, At, Actors
<1>6. Meet' /\ SweepEvaluates' /\ OldClaim'
  BY SMTT(30), <1>1, <1>2
     DEF Good, Shape, At, SweepAt, GateAt, Meet, Evaluating, SweepEvaluates, OldClaim
<1>7. AtWork' /\ OnFile' /\ Stays'
  BY SMTT(30), <1>2, <1>3, <1>4
     DEF Good, Shape, At, SweepAt, GateAt, AtWork, OnFile, Stays
<1>8. Asked'
  BY SMTT(30), <1>2
     DEF Good, Shape, At, SweepAt, GateAt, Asked, Escalated
<1>9. Evaluating' /\ Acting'
  BY SMTT(30), <1>2, <1>4
     DEF Good, Shape, Actors, At, SweepAt, GateAt, Job, Meet, Evaluating, Acting, Gate,
         GateEvaluates, SweepEvaluates, OldClaim
<1>10. GateReadies' /\ GateEvaluates'
  BY SMTT(30), <1>1, <1>2, <1>4, <1>5
     DEF Good, Shape, At, SweepAt, GateAt, Escalated, Gate, GateReadies, GateEvaluates
<1>11. GateAsks' /\ GateActs'
  BY SMTT(30), <1>1, <1>2, <1>5
     DEF Good, Shape, At, SweepAt, GateAt, GateAsks, GateActs
<1> QED
  BY <1>4, <1>6, <1>7, <1>8, <1>9, <1>10, <1>11 DEF Good, Gate

\* The gate finds nothing to act on.
LEMMA GateLeavesKeeps ==
  ASSUME Shape, Good, UNCHANGED <<wf, row, tasks, file, place, asks>>, GateAt({"look"}), ~ Resolvable,
         Leaves("gate")
  PROVE  Good'
<1>1. "gate" \in Actors /\ "sweep" \in Actors
  BY DEF Actors
<1>2. job["gate"].at = "look" /\ job \in [Actors -> Job] /\ job' = [job EXCEPT !["gate"] = IdleJob]
  <2>1. job["gate"].at = "look" /\ job["gate"].then = "idle" /\ job \in [Actors -> Job]
    BY <1>1 DEF GateAt, At, Shape, Handed, HeldBy, Job
  <2>2. [IdleJob EXCEPT !.at = job["gate"].then] = IdleJob
    BY <2>1 DEF IdleJob
  <2> QED  BY <2>1, <2>2 DEF Leaves
<1> QED
  BY SMTT(30), <1>2, SameTasks, Table
     DEF Good, Shape, At, SweepAt, GateAt, IdleJob, Meet, AtWork, OnFile, Stays, Asked, Escalated,
         Evaluating, Acting, Gate, GateReadies, GateEvaluates, GateAsks, GateActs, SweepEvaluates,
         OldClaim

-----------------------------------------------------------------------------
(* The theorems. *)

\* The first task is at work and no call is about the phase.
LEMMA InitGood == Init => Good
<1> SUFFICES ASSUME Init PROVE Good
  OBVIOUS
<1>1. /\ wf.status = "active" /\ row = [status |-> InProgress, claim |-> "free"]
      /\ file = 0 /\ place = "here" /\ \A a \in Actors : job[a] = IdleJob
  BY DEF Init
<1>2. \A a \in Actors : job[a].at = "idle"
  BY <1>1 DEF IdleJob
<1>3. DOMAIN tasks = {1} /\ Latest = 1 /\ tasks[1].kind = "work"
  BY DEF Init, Latest, NewTask
<1>4. "gate" \in Actors /\ "sweep" \in Actors
  BY DEF Actors
<1>5. Past /\ Heeded
  BY <1>3 DEF Past, Heeded, Arbiters, Is
<1>6. Meet /\ AtWork /\ OnFile /\ Stays /\ Asked /\ SweepEvaluates /\ OldClaim
  BY <1>1, <1>2, <1>4 DEF Meet, AtWork, Settled, OnFile, Stays, Asked, Escalated, SweepEvaluates, OldClaim,
                          At, SweepAt, GateAt
<1>7. Evaluating /\ Acting /\ Gate
  BY <1>2, <1>4
     DEF Evaluating, Acting, Gate, GateReadies, GateEvaluates, GateAsks, GateActs, At, SweepAt, GateAt
<1> QED  BY <1>5, <1>6, <1>7 DEF Good

\* A step that ends with every decision intact keeps what held before it.
LEMMA NextGood ==
  ASSUME Shape, Good, [Next]_vars, Intact'
  PROVE  Good'
<1>1. ASSUME NEW a \in Actors, Step(a) PROVE Good'
  <2>1. ~ ActFails(a) /\ ~ ActThrows(a)
    BY CutShort
  <2>2. ~ Throw(a)
    BY DEF Throw, Good, Meet, SweepAt, GateAt, At, Actors
  <2> QED
    BY <1>1, <2>1, <2>2, EvaluateKeeps, TriggerKeeps, InsertKeeps, LaunchKeeps, GiveUpKeeps, EndKeeps,
       ActKeeps, FinishKeeps DEF Step
<1>2. CASE Sweep
  <2>1. CASE SweepResolve
    <3>1. "sweep" \in Actors
      BY DEF Actors
    <3> QED  BY <2>1, <3>1, TakeKeeps DEF SweepResolve
  <2> QED
    BY <1>2, <2>1, SweepCompleteKeeps, SweepRetryKeeps, SweepAnswerKeeps, SweepForceKeeps, ReleaseKeeps
       DEF Sweep
<1>3. CASE GateResolve
  <2>1. "gate" \in Actors /\ "gate" # "sweep"
    BY DEF Actors
  <2>2. CASE Take("gate")
    BY <1>3, <2>1, <2>2, TakeKeeps DEF GateResolve, GateAt, At
  <2>3. CASE ~ Resolvable /\ Leaves("gate") /\ UNCHANGED tasks
    BY <1>3, <2>3, GateLeavesKeeps DEF GateResolve, GateAt, At
  <2> QED  BY <1>3, <2>2, <2>3 DEF GateResolve
<1>4. CASE UNCHANGED vars
  <2>1. UNCHANGED <<wf, row, tasks, file, place, asks, job>>
    BY <1>4 DEF vars
  <2> QED
    BY SMTT(30), <2>1, SameTasks
       DEF Good, Shape, At, SweepAt, GateAt, Meet, AtWork, Settled, OnFile, Stays, Asked,
           Escalated, Evaluating, Acting, Gate, GateReadies, GateEvaluates, GateAsks, GateActs,
           SweepEvaluates, OldClaim

<1> QED
  BY <1>1, <1>2, <1>3, <1>4, BounceKeeps, GateReadyKeeps, WorkReportsKeeps, ArbiterReportsKeeps,
     ArbiterFailsKeeps, AnswerKeeps, ReturnKeeps, AgeKeeps DEF Next

\* The inductive invariant, whatever the cap and however often calls fail.
THEOREM Invariance == Spec => []IInv
<1>1. Init => IInv
  BY InitShape, InitGood DEF IInv
<1>2. IInv /\ [Next]_vars => IInv'
  BY NextShape, NextGood, ArbitersStay DEF IInv
<1> QED
  BY <1>1, <1>2, PTL DEF Spec

\* No arbiter's decision moves the phase twice, however the commits of the sweep
\* and of the report interleave, and however late the arbiter comes
\* (_maybe_resolve_arbitration, _claim_arbitration_resolution).
THEOREM ActedOnOnce == Spec => []DecidedOnce
<1>1. IInv => DecidedOnce
  <2>1. SUFFICES ASSUME Shape, Good, NEW i \in Arbiters PROVE tasks[i].acted =< 1
    BY DEF IInv, DecidedOnce
  <2>2. tasks[i].acted \in 0..2 /\ tasks[i].acted < 2
    BY <2>1, Records DEF Shape, Good, Heeded, Arbiters
  <2> QED  BY <2>2
<1> QED
  BY <1>1, Invariance, PTL

\* While a person thinks no call is at a point from which the phase moves.
LEMMA LeftToThem ==
  ASSUME Shape, Good, [Next]_vars, Escalated, asks[wf.marker] = "open"
  PROVE  /\ wf'.marker = wf.marker /\ place' = place /\ row'.status = row.status
         /\ Arbiters' = Arbiters
<1> DEFINE Left == /\ wf'.marker = wf.marker /\ place' = place /\ row'.status = row.status
                   /\ Arbiters' = Arbiters
<1>1. /\ ~ Waiting /\ Live = {} /\ ~ ToRetry /\ wf.status = "paused"
      /\ row.claim = "old" => row.status = InProgress
      /\ \A a \in Actors : /\ ~ At(a, {"look", "act", "finish", "give_up", "insert", "launch", "force",
                                         "throw"})
                           /\ At(a, {"evaluate"}) => row.status \in {InProgress, Completed}
  <2>1. \A a \in Actors : ~ At(a, {"throw"})
    BY DEF Good, Meet, SweepAt, GateAt, At, Actors
  <2>2. \A a \in Actors : At(a, {"evaluate"}) => row.status \in {InProgress, Completed}
    BY DEF Good, SweepEvaluates, Gate, GateEvaluates, SweepAt, GateAt, Actors
  <2>3. row.claim = "old" => row.status = InProgress
    BY DEF Good, Asked, OldClaim, SweepAt, GateAt, At, Actors
  <2> QED
    BY <2>1, <2>2, <2>3, Table DEF Good, Asked, At, Escalated
<1>2. row \in [status : PhaseStatus, claim : {"free", "held", "old"}]
  BY DEF Shape, TypeOK
<1>3. UNCHANGED tasks => Arbiters' = Arbiters
  BY SameTasks
<1> HIDE DEF Left
<1> SUFFICES Left
  BY DEF Left
<1>4. ASSUME NEW a \in Actors, Step(a) \/ Bounce(a) PROVE Left
  <2>1. Evaluate(a) \/ Trigger(a) \/ End(a)
    BY <1>1, <1>4 DEF Step, At, Insert, Launch, GiveUp, Act, ActFails, ActThrows, Throw, Finish, Bounce
  <2>2. CASE Evaluate(a)
    BY <1>1, <1>2, <1>3, <2>2 DEF Evaluate, At, Left
  <2>3. CASE Trigger(a)
    BY <1>3, <2>3 DEF Trigger, AlreadyAsked, Left
  <2>4. CASE End(a)
    BY <1>2, <1>3, <2>4 DEF End, Left
  <2> QED  BY <2>1, <2>2, <2>3, <2>4
<1>5. CASE Sweep
  <2>1. ~ SweepResolve /\ ~ SweepAnswer /\ ~ SweepForce
    BY <1>1 DEF SweepResolve, SweepAnswer, SweepForce, Choices, At, Actors
  <2>2. CASE SweepComplete \/ Release
    BY <1>1, <1>2, <1>3, <2>2 DEF SweepComplete, Release, Left
  <2>3. CASE SweepRetry
    <3>1. UNCHANGED tasks
      BY <1>1, <2>3 DEF SweepRetry, ToRetry
    <3> QED  BY <1>2, <1>3, <2>3, <3>1 DEF SweepRetry, Left
  <2> QED  BY <1>5, <2>1, <2>2, <2>3 DEF Sweep
<1>6. CASE GateReady \/ GateResolve
  <2>1. ~ GateResolve
    BY <1>1 DEF GateResolve, At, Actors
  <2> QED  BY <1>2, <1>3, <1>6, <2>1 DEF GateReady, Left
<1>7. CASE Answer \/ Age \/ UNCHANGED vars
  <2>1. Arbiters' = Arbiters
    <3>1. CASE InFlight /\ Age
      BY <1>1, <3>1, Table
    <3> QED  BY <1>3, <1>7, <3>1 DEF Answer, Age, vars
  <2> QED  BY <1>2, <1>7, <2>1 DEF Answer, Age, vars, Left
<1>8. ~ WorkReports /\ ~ ArbiterReports /\ ~ ArbiterFails /\ ~ Return
  BY <1>1 DEF WorkReports, ArbiterReports, ArbiterFails, Return
<1> QED
  BY <1>4, <1>5, <1>6, <1>7, <1>8 DEF Next

\* While a person has been asked and has not answered, nothing moves the phase,
\* forgets the question or sends an arbiter (_trigger_arbitration's guard).
THEOREM LeftToThePerson == Spec => PersonDecides
<1>1. IInv /\ [Next]_vars =>
        [Escalated /\ asks[wf.marker] = "open" /\ Intact =>
           /\ wf'.marker = wf.marker /\ place' = place /\ row'.status = row.status
           /\ Arbiters' = Arbiters]_vars
  BY LeftToThem DEF IInv
<1> QED
  BY <1>1, Invariance, PTL DEF Spec, PersonDecides
=============================================================================
