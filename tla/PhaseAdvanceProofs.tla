------------------------- MODULE PhaseAdvanceProofs -------------------------
(***************************************************************************)
(* For any number of phases, whatever the budgets and whichever of them    *)
(* evaluate: the type invariant, that a phase is closed by work only, and  *)
(* that the phases are started in order, with the sweep and the gate       *)
(* interleaved commit by commit.  And of the sweep alone: that it pays for *)
(* every retry, that what it reports complete is over, and that it runs    *)
(* one phase at a time.                                                    *)
(*                                                                         *)
(* Each of them needs to say what a call still has in its hands when it    *)
(* writes: that the phases it knows of have delivered (Ordered), that      *)
(* nobody works on what it closes (Alone), where a retry it has charged    *)
(* has got to (Paid), and which claims and which running phase are its own *)
(* (Single).                                                               *)
(***************************************************************************)
EXTENDS PhaseAdvance, FiniteSetTheorems, SequenceTheorems, WellFoundedInduction, TLAPS

\* A finite set of numbers has a greatest and a least element: otherwise the
\* elements beyond each of them were ever smaller sets.
LEMMA MaxIsGreatest ==
  ASSUME NEW S, IsFiniteSet(S), S # {}, S \subseteq Int
  PROVE  Max(S) \in S /\ \A y \in S : Max(S) >= y
<1> DEFINE beyond(x) == {y \in S : y > x}
           T == {beyond(x) : x \in S}
<1>1. T \subseteq FiniteSubsetsOf(S)
  BY FS_FiniteSubsetsOfFinite
<1>2. IsWellFoundedOn(StrictSubsetOrdering(S), FiniteSubsetsOf(S))
  BY FS_StrictSubsetOrderingWellFounded
<1>3. T # {}
  OBVIOUS
<1> HIDE DEF T
<1>4. PICK U \in T : \A V \in T : ~ (<<V, U>> \in StrictSubsetOrdering(S))
  BY <1>1, <1>2, <1>3, WFMin
<1> USE DEF T
<1>5. PICK m \in S : U = beyond(m)
  OBVIOUS
<1>6. ASSUME NEW y \in S, y > m PROVE FALSE
  <2>0. \A z \in S : z > y => z > m
    BY <1>6
  <2>1. beyond(y) \subseteq beyond(m)
    BY <2>0
  <2>2. y \in beyond(m) /\ ~ (y > y)
    BY <1>6
  <2>3. <<beyond(y), beyond(m)>> \in StrictSubsetOrdering(S)
    BY <2>1, <2>2 DEF StrictSubsetOrdering
  <2> QED  BY <1>4, <1>5, <2>3
<1>7. \A y \in S : m >= y
  BY <1>6
<1> QED  BY <1>7 DEF Max

LEMMA MinIsLeast ==
  ASSUME NEW S, IsFiniteSet(S), S # {}, S \subseteq Int
  PROVE  Min(S) \in S /\ \A y \in S : Min(S) =< y
<1> DEFINE below(x) == {y \in S : y < x}
           T == {below(x) : x \in S}
<1>1. T \subseteq FiniteSubsetsOf(S)
  BY FS_FiniteSubsetsOfFinite
<1>2. IsWellFoundedOn(StrictSubsetOrdering(S), FiniteSubsetsOf(S))
  BY FS_StrictSubsetOrderingWellFounded
<1>3. T # {}
  OBVIOUS
<1> HIDE DEF T
<1>4. PICK U \in T : \A V \in T : ~ (<<V, U>> \in StrictSubsetOrdering(S))
  BY <1>1, <1>2, <1>3, WFMin
<1> USE DEF T
<1>5. PICK m \in S : U = below(m)
  OBVIOUS
<1>6. ASSUME NEW y \in S, y < m PROVE FALSE
  <2>0. \A z \in S : z < y => z < m
    BY <1>6
  <2>1. below(y) \subseteq below(m)
    BY <2>0
  <2>2. y \in below(m) /\ ~ (y < y)
    BY <1>6
  <2>3. <<below(y), below(m)>> \in StrictSubsetOrdering(S)
    BY <2>1, <2>2 DEF StrictSubsetOrdering
  <2> QED  BY <1>4, <1>5, <2>3
<1>7. \A y \in S : m =< y
  BY <1>6
<1> QED  BY <1>7 DEF Min

LEMMA Extremes ==
  ASSUME NEW n \in Nat, NEW S, S \subseteq 0..n
  PROVE  /\ IsFiniteSet(S)
         /\ S # {} => /\ Max(S) \in S /\ \A y \in S : Max(S) >= y
                      /\ Min(S) \in S /\ \A y \in S : Min(S) =< y
<1>1. IsFiniteSet(0..n)
  BY FS_Interval
<1>2. IsFiniteSet(S)
  BY <1>1, FS_Subset
<1>3. S \subseteq Int
  OBVIOUS
<1> QED  BY <1>2, <1>3, MaxIsGreatest, MinIsLeast

-----------------------------------------------------------------------------
(* Types: the rows, and what each call has in its hands at each point. *)

RowType == [status : PhaseStatus, started : Nat, claim : {Nobody} \cup Actors]

Places == {"idle", "healed", "look", "grab", "try", "last", "fired", "evaluate", "close", "next",
           "start", "reset", "tag", "dispatch", "rewind", "claim", "check", "insert", "end"}
Job == [at : Places, phase : {0} \cup Phases, act : {"none", "continue", "retry", "goto"},
        to : {0} \cup Phases, own : BOOLEAN, since : Int]

\* A call that evaluates has a phase, one that starts something has a target,
\* and one that closes a phase knows what it answers.
Placed(j) ==
  /\ j.at \in {"fired", "evaluate", "close", "next", "reset", "tag"} => j.phase \in Phases
  /\ j.at \in {"grab", "try", "start", "reset", "rewind", "claim", "check", "insert"} =>
       j.to \in Phases
  /\ j.at = "close" => j.act # "none" /\ (j.act = "goto" => j.to \in Phases)

Shape ==
  /\ TypeOK
  /\ job \in [Actors -> Job]
  /\ \A a \in Actors : Placed(job[a])

LEMMA InitShape == Init => Shape
<1> SUFFICES ASSUME Init PROVE Shape
  OBVIOUS
<1> USE SomePhases, Budgets, Bounds DEF Init, Phases
<1>1. rows \in [Phases -> RowType]
  BY DEF RowType, PhaseStatus
<1>2. job \in [Actors -> Job] /\ \A a \in Actors : Placed(job[a])
  BY DEF IdleJob, Job, Places, Placed
<1>3. closings \in [Phases -> [rank : 0..N, after : Nat]]
  OBVIOUS
<1>4. retries \in [Phases -> 0..MaxRetries] /\ gotos \in 0..(MaxGotos + 1)
  OBVIOUS
<1>5. gates \in 0..MaxGates /\ crashes \in 0..MaxCrashes
  OBVIOUS
<1>6. tasks \in Seq(Task)
  OBVIOUS
<1> QED  BY <1>1, <1>2, <1>3, <1>4, <1>5, <1>6 DEF Shape, TypeOK, RowType, Job

LEMMA TaskBounds ==
  ASSUME Shape, NEW S, S \subseteq DOMAIN tasks
  PROVE  /\ S \subseteq Nat \ {0} /\ IsFiniteSet(S)
         /\ S # {} => /\ Max(S) \in S /\ \A i \in S : Max(S) >= i
                      /\ Min(S) \in S /\ \A i \in S : Min(S) =< i
<1>1. Len(tasks) \in Nat /\ DOMAIN tasks = 1..Len(tasks)
  BY DEF Shape, TypeOK
<1>2. S \subseteq 0..Len(tasks) /\ S \subseteq Nat \ {0}
  BY <1>1
<1> QED  BY <1>1, <1>2, Extremes

LEMMA PhaseBounds ==
  ASSUME NEW S, S \subseteq Phases, S # {}
  PROVE  /\ Max(S) \in S /\ \A p \in S : Max(S) >= p
         /\ Min(S) \in S /\ \A p \in S : Min(S) =< p
<1>1. N \in Nat /\ S \subseteq 0..N
  BY SomePhases DEF Phases
<1> QED  BY <1>1, Extremes

LEMMA PhaseNumbers ==
  /\ \A p \in Phases : p \in Int /\ p # 0
  /\ \A s : With(s) \subseteq Phases
BY SomePhases DEF Phases, With

LEMMA LastClosingIsClosed ==
  ASSUME Shape, With(Completed) # {}
  PROVE  LastClosing \in With(Completed)
<1> DEFINE R == {closings[p].rank : p \in With(Completed)}
<1>1. \A p \in Phases : closings[p].rank \in 0..N
  BY DEF Shape, TypeOK
<1>2. R \subseteq 0..N /\ R # {}
  BY <1>1 DEF With
<1> HIDE DEF R
<1>3. Max(R) \in R /\ \A r \in R : Max(R) >= r
  BY <1>2, SomePhases, Extremes
<1> USE DEF R
<1>4. PICK p \in With(Completed) : closings[p].rank = Max(R)
  BY <1>3
<1>5. \A q \in With(Completed) : closings[q].rank <= closings[p].rank
  BY <1>2, <1>3, <1>4
<1> QED  BY <1>5 DEF LastClosing

LEMMA TargetIsTag ==
  ASSUME Shape, NEW S, S \subseteq DOMAIN tasks
  PROVE  /\ Target(S) \in {0} \cup Phases
         /\ Target(S) # 0 => \E i \in S : tasks[i].state = "done" /\ Target(S) = tasks[i].tag
<1>1. CASE In("done", S) = {}
  BY <1>1 DEF Target
<1>2. CASE In("done", S) # {}
  <2>1. Max(In("done", S)) \in In("done", S)
    BY <1>2, TaskBounds DEF In
  <2>2. \A i \in DOMAIN tasks : tasks[i].tag \in {0} \cup Phases
    <3>1. \A i \in DOMAIN tasks : tasks[i] \in Task
      BY DEF Shape, TypeOK
    <3> QED  BY <3>1 DEF Task
  <2> QED  BY <1>2, <2>1, <2>2 DEF Target, In
<1> QED  BY <1>1, <1>2

LEMMA RunType ==
  ASSUME NEW row \in RowType, NEW i \in Nat
  PROVE  Run(row, i) \in RowType /\ Run(row, i).status = InProgress
BY DEF RowType, Run, PhaseStatus

LEMMA HealedType ==
  ASSUME Shape, NEW p \in Phases
  PROVE  Healed(p) \in RowType
<1>1. rows[p] \in RowType
  BY DEF Shape, TypeOK, RowType
<1>2. [rows[p] EXCEPT !.claim = Nobody] \in RowType
  BY <1>1 DEF RowType
<1>3. TasksOf(p) # {} => Max(TasksOf(p)) \in Nat
  BY TaskBounds DEF TasksOf
<1> QED  BY <1>1, <1>2, <1>3, RunType DEF Healed, RowType

\* What a call that goes on, or ends, has in its hands.
LEMMA GoesShape ==
  ASSUME Shape, NEW a \in Actors, NEW at \in Places, Goes(a, at), Placed([job[a] EXCEPT !.at = at])
  PROVE  /\ job' \in [Actors -> Job] /\ \A b \in Actors : Placed(job'[b])
BY DEF Shape, Goes, Job, Placed

LEMMA GoesTo ==
  ASSUME Shape, NEW a \in Actors, NEW at, Goes(a, at),
         \/ at \in {"healed", "look", "last", "dispatch", "end"}
         \/ at \in {"rewind", "claim", "check", "insert"} /\ job[a].to \in Phases
         \/ at \in {"next", "tag"} /\ job[a].phase \in Phases
  PROVE  /\ job' \in [Actors -> Job] /\ \A b \in Actors : Placed(job'[b])
<1>1. at \in Places /\ job[a] \in Job
  BY DEF Places, Shape
<1>2. Placed([job[a] EXCEPT !.at = at])
  BY <1>1 DEF Placed, Job
<1> QED  BY <1>1, <1>2, GoesShape

LEMMA FreshShape ==
  ASSUME NEW p \in Phases
  PROVE  /\ LET j == [IdleJob EXCEPT !.at = "fired", !.phase = p] IN j \in Job /\ Placed(j)
         /\ LET j == [IdleJob EXCEPT !.at = "evaluate", !.phase = p, !.own = TRUE] IN
            j \in Job /\ Placed(j)
<1>1. IdleJob \in Job
  BY DEF IdleJob, Job, Places
<1>2. ASSUME NEW j \in Job PROVE /\ [j EXCEPT !.at = "fired", !.phase = p] \in Job
                                 /\ Placed([j EXCEPT !.at = "fired", !.phase = p])
  BY <1>2 DEF Job, Places, Placed
<1>3. ASSUME NEW j \in Job PROVE /\ [j EXCEPT !.at = "evaluate", !.phase = p, !.own = TRUE] \in Job
                                 /\ Placed([j EXCEPT !.at = "evaluate", !.phase = p, !.own = TRUE])
  BY <1>3 DEF Job, Places, Placed
<1> QED  BY <1>1, <1>2, <1>3

LEMMA EndsShape ==
  ASSUME Shape, NEW a \in Actors, Ends(a)
  PROVE  /\ job' \in [Actors -> Job] /\ \A b \in Actors : Placed(job'[b])
<1>1. IdleJob \in Job /\ Placed(IdleJob)
  BY DEF IdleJob, Job, Places, Placed
<1> QED  BY <1>1 DEF Shape, Ends

\* One task, or some of them, written: the sequence keeps its length.
LEMMA TasksWritten ==
  ASSUME Shape, NEW s, DOMAIN s = DOMAIN tasks, \A i \in DOMAIN tasks : s[i] \in Task,
         s = [i \in DOMAIN tasks |-> s[i]]
  PROVE  s \in Seq(Task) /\ Len(s) = Len(tasks)
<1>1. Len(tasks) \in Nat /\ DOMAIN tasks = 1..Len(tasks)
  BY DEF Shape, TypeOK
<1>2. s \in [1..Len(tasks) -> Task]
  BY <1>1
<1>3. s \in Seq(Task)
  BY <1>1, <1>2, SeqDef
<1> QED  BY <1>1, <1>2, <1>3, LenProperties

LEMMA ResetShape ==
  ASSUME Shape, NEW t \in Phases, NEW e, ResetTo(t, e)
  PROVE  rows' \in [Phases -> RowType] /\ tasks' \in Seq(Task) /\ Len(tasks') = Len(tasks)
<1>1. rows' \in [Phases -> RowType]
  BY DEF Shape, TypeOK, ResetTo, RowType, PhaseStatus
<1>2. DOMAIN tasks' = DOMAIN tasks /\ tasks' = [i \in DOMAIN tasks |-> tasks'[i]]
  BY DEF ResetTo
<1>3. ASSUME NEW i \in DOMAIN tasks PROVE tasks'[i] \in Task
  <2>1. tasks[i] \in Task
    BY DEF Shape, TypeOK
  <2>2. tasks'[i] = tasks[i] \/ tasks'[i] = [tasks[i] EXCEPT !.state = "lost"]
    BY DEF ResetTo
  <2> QED  BY <2>1, <2>2 DEF Task
<1> QED  BY <1>1, <1>2, <1>3, TasksWritten

LEMMA StepShape ==
  ASSUME Shape, NEW a \in Actors, Step(a)
  PROVE  Shape'
<1> USE SomePhases
<1>r. rows \in [Phases -> RowType]
  BY DEF Shape, TypeOK, RowType
<1>j. job[a] \in Job /\ Placed(job[a])
  BY DEF Shape
<1>n. Len(tasks) \in Nat
  BY DEF Shape, TypeOK
<1>1. CASE Evaluate(a)
  <2>1. job[a].phase \in Phases /\ job[a].at = "evaluate"
    BY <1>1, <1>j DEF Evaluate, Placed
  <2>2. CASE rows[job[a].phase].status = Completed
    <3>1. Goes(a, "dispatch") /\ UNCHANGED <<rows, tasks, closings, retries, gotos, wf, gates, crashes>>
      BY <1>1, <2>2 DEF Evaluate
    <3>2. job' \in [Actors -> Job] /\ \A b \in Actors : Placed(job'[b])
      BY <3>1, GoesTo
    <3> QED  BY <3>1, <3>2 DEF Shape, TypeOK, Job
  <2>3. CASE rows[job[a].phase].status # Completed
    <3> DEFINE p == job[a].phase
    <3>1. PICK v \in Verdicts(p) :
            LET act == IF v.act = "goto" /\ gotos >= MaxGotos THEN "continue" ELSE v.act IN
            /\ job' = [job EXCEPT ![a].at = "close", ![a].act = act,
                                  ![a].to = IF act = "continue" THEN 0 ELSE v.to]
            /\ retries' = [retries EXCEPT ![p] = @ + IF v.act = "retry" THEN 1 ELSE 0]
            /\ gotos' = IF v.act = "goto" THEN Min({gotos + 1, MaxGotos + 1}) ELSE gotos
      BY <1>1, <2>3 DEF Evaluate
    <3>2. /\ v.act \in {"continue", "retry", "goto"} /\ v.to \in {0} \cup Phases
          /\ v.act \in {"retry", "goto"} => v.to \in Phases
          /\ v.act = "retry" => retries[p] < MaxRetries
      <4>1. retries[p] \in Int /\ MaxRetries \in Int
        BY <2>1, Budgets DEF Shape, TypeOK
      <4> QED  BY <2>1, <4>1 DEF Verdicts, Phases
    <3>3. retries' \in [Phases -> 0..MaxRetries]
      <4>1. retries \in [Phases -> 0..MaxRetries]
        BY DEF Shape, TypeOK
      <4>2. retries[p] + (IF v.act = "retry" THEN 1 ELSE 0) \in 0..MaxRetries
        BY <2>1, <3>2, <4>1, Budgets
      <4> QED  BY <2>1, <3>1, <4>1, <4>2
    <3>4. gotos' \in 0..(MaxGotos + 1)
      <4>1. gotos \in 0..(MaxGotos + 1) /\ gotos + 1 \in 0..(MaxGotos + 2)
        BY Budgets DEF Shape, TypeOK
      <4>2. {gotos + 1, MaxGotos + 1} \subseteq 0..(MaxGotos + 2)
        BY <4>1, Budgets
      <4>3. Min({gotos + 1, MaxGotos + 1}) \in {gotos + 1, MaxGotos + 1}
            /\ Min({gotos + 1, MaxGotos + 1}) =< MaxGotos + 1
        BY <4>2, Budgets, Extremes
      <4> QED  BY <3>1, <4>1, <4>3, Budgets
    <3>5. job' \in [Actors -> Job] /\ \A b \in Actors : Placed(job'[b])
      <4>1. PICK act \in {"continue", "retry", "goto"} :
              /\ act = "continue" \/ act = v.act
              /\ job' = [job EXCEPT ![a].at = "close", ![a].act = act,
                                    ![a].to = IF act = "continue" THEN 0 ELSE v.to]
        BY <3>1, <3>2
      <4>2. job' = [job EXCEPT ![a] = [job[a] EXCEPT !.at = "close", !.act = act,
                                        !.to = IF act = "continue" THEN 0 ELSE v.to]]
        BY <4>1
      <4> DEFINE j == [job[a] EXCEPT !.at = "close", !.act = act,
                                     !.to = IF act = "continue" THEN 0 ELSE v.to]
      <4>3. j \in Job
        BY <1>j, <3>2 DEF Job, Places
      <4>4. Placed(j)
        BY <2>1, <1>j, <3>2, <4>1 DEF Job, Placed
      <4> HIDE DEF j
      <4> QED  BY <4>2, <4>3, <4>4 DEF Shape, j
    <3>6. UNCHANGED <<rows, tasks, closings, wf, gates, crashes>>
      BY <1>1 DEF Evaluate
    <3> QED  BY <3>3, <3>4, <3>5, <3>6 DEF Shape, TypeOK, Job
  <2> QED  BY <2>2, <2>3
<1>2. CASE Close(a)
  <2>1. job[a].phase \in Phases /\ job[a].act \in {"continue", "retry", "goto"}
        /\ (job[a].act = "goto" => job[a].to \in Phases)
    BY <1>2, <1>j DEF Close, Placed, Job
  <2>2. \A at \in {"next", "reset", "tag"} :
          Goes(a, at) /\ (at = "reset" => job[a].to \in Phases) =>
            job' \in [Actors -> Job] /\ \A b \in Actors : Placed(job'[b])
    BY <2>1, <1>j, GoesShape DEF Placed, Job, Places
  <2>3. job' \in [Actors -> Job] /\ \A b \in Actors : Placed(job'[b])
    BY <1>2, <2>1, <2>2 DEF Close
  <2>4. rows' \in [Phases -> RowType]
    BY <1>2, <1>r, <2>1 DEF Close, RowType, PhaseStatus
  <2>5. closings' \in [Phases -> [rank : 0..N, after : Nat]]
    <3>1. closings \in [Phases -> [rank : 0..N, after : Nat]]
      BY DEF Shape, TypeOK
    <3>2. ASSUME NEW q \in Phases PROVE Dated(job[a].phase)[q] \in [rank : 0..N, after : Nat]
      <4>1. CASE q = job[a].phase  BY <1>n, <4>1 DEF Dated
      <4>2. CASE q # job[a].phase
        <5>1. CASE closings[q].rank > closings[job[a].phase].rank
          <6>1. closings[q].rank \in 0..N /\ closings[job[a].phase].rank \in 0..N
            BY <2>1, <3>1
          <6>2. closings[q].rank - 1 \in 0..N
            BY <5>1, <6>1
          <6> QED  BY <3>1, <4>2, <5>1, <6>2 DEF Dated
        <5>2. CASE ~ (closings[q].rank > closings[job[a].phase].rank)
          BY <3>1, <4>2, <5>2 DEF Dated
        <5> QED  BY <5>1, <5>2
      <4> QED  BY <4>1, <4>2
    <3>3. Dated(job[a].phase) \in [Phases -> [rank : 0..N, after : Nat]]
      BY <3>2 DEF Dated
    <3> QED  BY <1>2, <3>1, <3>3 DEF Close
  <2>6. UNCHANGED <<tasks, retries, gotos, wf, gates, crashes>>
    BY <1>2 DEF Close
  <2> QED  BY <2>3, <2>4, <2>5, <2>6 DEF Shape, TypeOK, Job, RowType
<1>3. CASE Next_(a)
  <2> DEFINE p == job[a].phase
             next == IF wf # "active" \/ With(InProgress) \ {p} # {} THEN 0
                     ELSE IF Target(Cycle(p)) # 0 THEN Target(Cycle(p))
                     ELSE IF p < N THEN p + 1 ELSE 0
  <2>1. p \in Phases
    BY <1>3, <1>j DEF Next_, Placed
  <2>2. next \in {0} \cup Phases
    BY <2>1, TargetIsTag DEF Cycle, TasksOf, Phases
  <2> HIDE DEF next
  <2>3. job' = [job EXCEPT ![a] = [job[a] EXCEPT !.at = IF next = 0 THEN "dispatch" ELSE "start",
                                                 !.to = next]]
        /\ rows' = SkipOver(p, next) /\ wf' \in {wf, "completed"}
    BY <1>3 DEF Next_, next
  <2>4. job' \in [Actors -> Job] /\ \A b \in Actors : Placed(job'[b])
    <3> DEFINE j == [job[a] EXCEPT !.at = IF next = 0 THEN "dispatch" ELSE "start", !.to = next]
    <3>1. j \in Job /\ Placed(j)
      BY <1>j, <2>2 DEF Job, Places, Placed
    <3> HIDE DEF j
    <3> QED  BY <2>3, <3>1 DEF Shape, j
  <2>5. rows' \in [Phases -> RowType]
    BY <1>r, <2>3 DEF SkipOver, RowType, PhaseStatus
  <2>6. UNCHANGED <<tasks, closings, retries, gotos, gates, crashes>>
    BY <1>3 DEF Next_
  <2> QED  BY <2>3, <2>4, <2>5, <2>6 DEF Shape, TypeOK, Job, RowType
<1>4. CASE Start(a)
  <2>1. job[a].to \in Phases
    BY <1>4, <1>j DEF Start, Placed
  <2>2. rows' \in [Phases -> RowType]
    <3>1. Now \in Nat
      BY <1>n DEF Now
    <3>2. Run(rows[job[a].to], Now) \in RowType
      BY <1>r, <2>1, <3>1, RunType
    <3> QED  BY <1>4, <1>r, <2>1, <3>2 DEF Start
  <2>3. job' \in [Actors -> Job] /\ \A b \in Actors : Placed(job'[b])
    BY <1>4, GoesTo DEF Start
  <2>4. UNCHANGED <<tasks, closings, retries, gotos, wf, gates, crashes>>
    BY <1>4 DEF Start
  <2> QED  BY <2>2, <2>3, <2>4 DEF Shape, TypeOK, Job, RowType
<1>5. CASE Reset(a)
  <2>1. job[a].to \in Phases /\ job[a].phase \in Phases /\ ResetTo(job[a].to, job[a].phase)
    BY <1>5, <1>j DEF Reset, Placed
  <2>2. rows' \in [Phases -> RowType] /\ tasks' \in Seq(Task)
    BY <2>1, ResetShape
  <2>3. job' \in [Actors -> Job] /\ \A b \in Actors : Placed(job'[b])
    BY <1>5, <1>j, <2>1, GoesShape DEF Reset, Placed, Job, Places
  <2>4. UNCHANGED <<closings, retries, gotos, wf, gates, crashes>>
    BY <1>5 DEF Reset
  <2> QED  BY <2>2, <2>3, <2>4 DEF Shape, TypeOK, Job, RowType
<1>6. CASE Tag(a)
  <2> DEFINE S == In("done", TasksOf(job[a].phase))
  <2>1. S # {} => Max(S) \in DOMAIN tasks
    BY TaskBounds DEF In, TasksOf
  <2>2. tasks' \in Seq(Task)
    <3>1. CASE S = {}  BY <1>6, <3>1 DEF Tag, Shape, TypeOK
    <3>2. CASE S # {}
      <4> DEFINE m == Max(S)
      <4>1. tasks' = [tasks EXCEPT ![m] = [tasks[m] EXCEPT !.tag = job[a].to]]
        BY <1>6, <3>2 DEF Tag
      <4>2. tasks[m] \in Task /\ m \in 1..Len(tasks) /\ tasks \in Seq(Task)
        BY <2>1, <3>2 DEF Shape, TypeOK
      <4>3. [tasks[m] EXCEPT !.tag = job[a].to] \in Task
        BY <1>j, <4>2 DEF Task, Job
      <4> QED  BY <4>1, <4>2, <4>3, ExceptSeq
    <3> QED  BY <3>1, <3>2
  <2>3. job' \in [Actors -> Job] /\ \A b \in Actors : Placed(job'[b])
    <3>1. Goes(a, "dispatch")
      BY <1>6 DEF Tag
    <3> QED  BY <3>1, GoesTo
  <2>4. UNCHANGED <<rows, closings, retries, gotos, wf, gates, crashes>>
    BY <1>6 DEF Tag
  <2> QED  BY <2>2, <2>3, <2>4 DEF Shape, TypeOK, Job
<1>7. CASE Dispatch(a)
  <2>1. job' \in [Actors -> Job] /\ \A b \in Actors : Placed(job'[b])
    <3>1. Ends(a) \/ \E at \in {"end", "rewind", "claim"} :
                        Goes(a, at) /\ (at # "end" => job[a].to # 0)
      BY <1>7 DEF Dispatch
    <3>2. job[a].to # 0 => job[a].to \in Phases
      BY <1>j DEF Job
    <3> QED  BY <3>1, <3>2, GoesTo, EndsShape
  <2>2. UNCHANGED <<rows, tasks, closings, retries, gotos, wf, gates, crashes>>
    BY <1>7 DEF Dispatch
  <2> QED  BY <2>1, <2>2 DEF Shape, TypeOK, Job
<1>8. CASE Rewind(a)
  <2>1. job[a].to \in Phases /\ ResetTo(job[a].to, job[a].phase)
    BY <1>8, <1>j DEF Rewind, Placed
  <2>2. rows' \in [Phases -> RowType] /\ tasks' \in Seq(Task)
    BY <2>1, ResetShape
  <2>3. job' \in [Actors -> Job] /\ \A b \in Actors : Placed(job'[b])
    <3>1. Goes(a, "claim")
      BY <1>8 DEF Rewind
    <3> QED  BY <2>1, <3>1, GoesTo
  <2>4. UNCHANGED <<closings, retries, gotos, wf, gates, crashes>>
    BY <1>8 DEF Rewind
  <2> QED  BY <2>2, <2>3, <2>4 DEF Shape, TypeOK, Job, RowType
<1>9. CASE Claim(a)
  <2> DEFINE t == job[a].to
  <2>1. t \in Phases /\ Healed(t) \in RowType
    BY <1>9, <1>j, HealedType DEF Claim, Placed
  <2>2. UNCHANGED <<tasks, closings, retries, gotos, wf, gates, crashes>>
    BY <1>9 DEF Claim
  <2>3. CASE rows[t].claim # Nobody /\ ~ Stale(t)
    <3>1. job' = [job EXCEPT ![a].at = "end", ![a].to = 0] /\ UNCHANGED rows
      BY <1>9, <2>3 DEF Claim
    <3>2. job' = [job EXCEPT ![a] = [job[a] EXCEPT !.at = "end", !.to = 0]]
      BY <3>1
    <3>3. [job[a] EXCEPT !.at = "end", !.to = 0] \in Job
          /\ Placed([job[a] EXCEPT !.at = "end", !.to = 0])
      BY <1>j DEF Job, Places, Placed
    <3>4. job' \in [Actors -> Job] /\ \A b \in Actors : Placed(job'[b])
      BY <3>2, <3>3 DEF Shape
    <3> QED  BY <2>2, <3>1, <3>4 DEF Shape, TypeOK, Job
  <2>4. CASE ~ (rows[t].claim # Nobody /\ ~ Stale(t))
    <3>1. /\ rows' = [rows EXCEPT ![t] =
                        [(IF Stale(t) THEN Healed(t) ELSE rows[t]) EXCEPT !.claim = a]]
          /\ Goes(a, "check")
      BY <1>9, <2>4 DEF Claim
    <3>2. \A row \in RowType : [row EXCEPT !.claim = a] \in RowType
      BY DEF RowType
    <3>3. rows' \in [Phases -> RowType]
      BY <1>r, <2>1, <3>1, <3>2
    <3>4. job' \in [Actors -> Job] /\ \A b \in Actors : Placed(job'[b])
      BY <2>1, <3>1, GoesTo
    <3> QED  BY <2>2, <3>3, <3>4 DEF Shape, TypeOK, Job, RowType
  <2> QED  BY <2>3, <2>4
<1>10. CASE Check(a)
  <2>1. job' \in [Actors -> Job] /\ \A b \in Actors : Placed(job'[b])
    <3>1. Ends(a) \/ Goes(a, "end") \/ Goes(a, "insert")
      BY <1>10 DEF Check
    <3>2. job[a].to \in Phases
      BY <1>10, <1>j DEF Check, Placed
    <3> QED  BY <3>1, <3>2, GoesTo, EndsShape
  <2>2. UNCHANGED <<rows, tasks, closings, retries, gotos, wf, gates, crashes>>
    BY <1>10 DEF Check
  <2> QED  BY <2>1, <2>2 DEF Shape, TypeOK, Job
<1>11. CASE Insert(a)
  <2>1. job[a].to \in Phases
    BY <1>11, <1>j DEF Insert, Placed
  <2>2. rows' \in [Phases -> RowType]
    <3>0. Now \in Nat
      BY <1>n DEF Now
    <3>1. Run(rows[job[a].to], Now) \in RowType
      BY <1>r, <2>1, <3>0, RunType
    <3>2. [Run(rows[job[a].to], Now) EXCEPT !.claim = Nobody] \in RowType
      BY <3>1 DEF RowType
    <3> QED  BY <1>11, <1>r, <3>2 DEF Insert
  <2>3. tasks' \in Seq(Task)
    <3>1. [phase |-> job[a].to, state |-> "live",
           tag |-> IF job[a].act \in {"goto", "retry"} THEN job[a].phase ELSE 0] \in Task
      BY <1>j, <2>1 DEF Task, Job
    <3> QED  BY <1>11, <3>1 DEF Insert, Shape, TypeOK
  <2>4. job' \in [Actors -> Job] /\ \A b \in Actors : Placed(job'[b])
    <3>1. Ends(a) \/ Goes(a, "end")
      BY <1>11 DEF Insert
    <3> QED  BY <3>1, GoesTo, EndsShape
  <2>5. UNCHANGED <<closings, retries, gotos, wf, gates, crashes>>
    BY <1>11 DEF Insert
  <2> QED  BY <2>2, <2>3, <2>4, <2>5 DEF Shape, TypeOK, Job, RowType
<1>12. CASE End(a)
  <2>1. rows' \in [Phases -> RowType]
    BY <1>12, <1>r DEF End, RowType
  <2>2. job' \in [Actors -> Job] /\ \A b \in Actors : Placed(job'[b])
    BY <1>12, EndsShape DEF End
  <2>3. UNCHANGED <<tasks, closings, retries, gotos, wf, gates, crashes>>
    BY <1>12 DEF End
  <2> QED  BY <2>1, <2>2, <2>3 DEF Shape, TypeOK, Job, RowType
<1> QED
  BY <1>1, <1>2, <1>3, <1>4, <1>5, <1>6, <1>7, <1>8, <1>9, <1>10, <1>11, <1>12 DEF Step

\* What a case of the sweep leaves to its claim.
LEMMA GrabsShape ==
  ASSUME Shape, NEW at \in {"grab", "try"}, NEW p \in Phases, NEW act \in {"continue", "goto"},
         NEW source \in {0} \cup Phases, NEW since \in Int, Grabs(at, p, act, source, since)
  PROVE  job' \in [Actors -> Job] /\ \A b \in Actors : Placed(job'[b])
<1> DEFINE j == [at |-> at, phase |-> source, act |-> act, to |-> p, own |-> FALSE, since |-> since]
<1>1. j \in Job /\ Placed(j)
  BY DEF Job, Places, Placed
<1>2. job' = [job EXCEPT !["sweep"] = j]
  BY DEF Grabs
<1> HIDE DEF j
<1> QED  BY <1>1, <1>2 DEF Shape

\* What the sweep's last case leaves: it ends, or evaluates, or grabs.
LEMMA LastCaseShape ==
  ASSUME Shape, CaseInProgressComplete
  PROVE  /\ rows' \in [Phases -> RowType] /\ tasks' \in Seq(Task)
         /\ job' \in [Actors -> Job] /\ \A b \in Actors : Placed(job'[b])
<1>r. rows \in [Phases -> RowType]
  BY DEF Shape, TypeOK, RowType
<1>t. tasks \in Seq(Task)
  BY DEF Shape, TypeOK
<1>q. Quiet # {} => Min(Quiet) \in Phases
  BY PhaseBounds DEF Quiet, With
<1>s. "sweep" \in Actors
  BY DEF Actors
<1>1. CASE CaseNeverStarted
  <2>1. Min(Quiet) \in Phases /\ rows[Min(Quiet)].started - 1 \in Int
    BY <1>1, <1>r, <1>q DEF CaseNeverStarted, RowType
  <2> QED  BY <1>1, <1>r, <1>t, <2>1, GrabsShape DEF CaseNeverStarted
<1>2. CASE CaseRetry
  <2>1. Ends("sweep") /\ rows' = rows
    BY <1>2 DEF CaseRetry
  <2>2. DOMAIN tasks' = DOMAIN tasks /\ tasks' = [i \in DOMAIN tasks |-> tasks'[i]]
    BY <1>2 DEF CaseRetry
  <2>3. ASSUME NEW i \in DOMAIN tasks PROVE tasks'[i] \in Task
    <3>1. tasks[i] \in Task
      BY <1>t
    <3>2. tasks'[i] = tasks[i] \/ tasks'[i] = [tasks[i] EXCEPT !.state = "live"]
      BY <1>2 DEF CaseRetry
    <3> QED  BY <3>1, <3>2 DEF Task
  <2> QED  BY <1>s, <1>r, <2>1, <2>2, <2>3, TasksWritten, EndsShape
<1>3. CASE CaseComplete
  <2> DEFINE p == Min(Quiet)
             j == [IdleJob EXCEPT !.at = "evaluate", !.phase = p, !.own = TRUE]
  <2>1. p \in Phases
    BY <1>3, <1>q DEF CaseComplete
  <2>2. j \in Job /\ Placed(j)
    BY <2>1, FreshShape
  <2>3. job' = [job EXCEPT !["sweep"] = j] /\ rows' = [rows EXCEPT ![p].claim = "sweep"]
    BY <1>3 DEF CaseComplete
  <2>4. rows' \in [Phases -> RowType]
    BY <1>r, <2>3 DEF RowType, Actors
  <2> HIDE DEF j
  <2>5. job' \in [Actors -> Job] /\ \A b \in Actors : Placed(job'[b])
    BY <2>2, <2>3 DEF Shape
  <2> QED  BY <1>3, <1>t, <2>4, <2>5 DEF CaseComplete
<1>4. CASE NothingToDo
  BY <1>4, <1>s, <1>r, <1>t, EndsShape DEF NothingToDo
<1> QED  BY <1>1, <1>2, <1>3, <1>4 DEF CaseInProgressComplete

\* The phase that the sweep starts after the last one closed.
Successor ==
  LET last   == LastClosing
      target == Target(TasksOf(last))
      later  == {p \in With(Pending) : p > last} IN
  IF target \in With(Pending) THEN target ELSE Min(IF later # {} THEN later ELSE With(Pending))

LEMMA SuccessorIsPending ==
  ASSUME Shape, CaseCompletedWithSuccessor
  PROVE  /\ LastClosing \in With(Completed) /\ Successor \in With(Pending)
         /\ rows' = SkipOver(LastClosing, Successor) /\ tasks' = tasks
         /\ \/ Ends("sweep")
            \/ /\ ~ \E i \in TasksOf(Successor) : i > closings[LastClosing].after
               /\ \/ Grabs("grab", Successor, "goto", LastClosing, closings[LastClosing].after)
                  \/ Grabs("grab", Successor, "continue", 0, closings[LastClosing].after)
<1>1. LastClosing \in With(Completed)
  BY LastClosingIsClosed DEF CaseCompletedWithSuccessor
<1>2. Successor \in With(Pending)
  <2> DEFINE later == {p \in With(Pending) : p > LastClosing}
             S == IF later # {} THEN later ELSE With(Pending)
  <2>1. S \subseteq With(Pending) /\ S # {} /\ S \subseteq Phases
    BY DEF CaseCompletedWithSuccessor, With
  <2>2. Min(S) \in With(Pending)
    BY <2>1, PhaseBounds
  <2> QED  BY <2>2 DEF Successor
<1> QED  BY <1>1, <1>2 DEF CaseCompletedWithSuccessor, Successor

LEMMA SweepShape ==
  ASSUME Shape, SweepHeal \/ SweepRelease \/ SweepLook \/ SweepGrab \/ SweepLast
  PROVE  Shape'
<1> USE SomePhases
<1>r. rows \in [Phases -> RowType]
  BY DEF Shape, TypeOK, RowType
<1>s. "sweep" \in Actors /\ job["sweep"] \in Job /\ Placed(job["sweep"])
  BY DEF Shape, Actors
<1>1. CASE SweepHeal
  <2>1. rows' \in [Phases -> RowType]
    BY <1>1, <1>r, HealedType DEF SweepHeal
  <2>2. job' \in [Actors -> Job] /\ \A b \in Actors : Placed(job'[b])
    <3>1. Goes("sweep", "healed")
      BY <1>1 DEF SweepHeal
    <3> QED  BY <1>s, <3>1, GoesTo
  <2>3. UNCHANGED <<tasks, closings, retries, gotos, wf, gates, crashes>>
    BY <1>1 DEF SweepHeal
  <2> QED  BY <2>1, <2>2, <2>3 DEF Shape, TypeOK, Job, RowType
<1>2. CASE SweepRelease
  <2> DEFINE done == In("done", DOMAIN tasks)
             i == Max(done)
             p == tasks[i].phase
  <2>1. rows' \in [Phases -> RowType]
    <3>1. CASE rows' = rows
      BY <1>r, <3>1
    <3>2. CASE rows' # rows
      <4>1. done # {} /\ rows' = [rows EXCEPT ![p] = Run(@, IF @.started = 0 THEN i ELSE @.started)]
        BY <1>2, <3>2 DEF SweepRelease
      <4>2. i \in Nat /\ i \in DOMAIN tasks
        BY <4>1, TaskBounds DEF In
      <4>3. p \in Phases
        <5>1. tasks[i] \in Task
          BY <4>2 DEF Shape, TypeOK
        <5> QED  BY <5>1 DEF Task
      <4>4. (IF rows[p].started = 0 THEN i ELSE rows[p].started) \in Nat
        BY <1>r, <4>2, <4>3 DEF RowType
      <4> QED  BY <1>r, <4>1, <4>3, <4>4, RunType
    <3> QED  BY <3>1, <3>2
  <2>2. job' \in [Actors -> Job] /\ \A b \in Actors : Placed(job'[b])
    <3>1. Goes("sweep", "look")
      BY <1>2 DEF SweepRelease
    <3> QED  BY <1>s, <3>1, GoesTo
  <2>3. UNCHANGED <<tasks, closings, retries, gotos, wf, gates, crashes>>
    BY <1>2 DEF SweepRelease
  <2> QED  BY <2>1, <2>2, <2>3 DEF Shape, TypeOK, Job, RowType
<1>3. CASE SweepLook
  <2>1. /\ rows' \in [Phases -> RowType] /\ tasks' \in Seq(Task)
        /\ job' \in [Actors -> Job] /\ \A b \in Actors : Placed(job'[b])
    <3>t. tasks \in Seq(Task)
      BY DEF Shape, TypeOK
    <3>1. CASE CaseStartFirst
      <4>1. Min(With(Pending)) \in Phases
        BY <3>1, PhaseBounds DEF CaseStartFirst, With
      <4> QED  BY <3>1, <3>t, <1>s, <1>r, <4>1, GrabsShape, EndsShape DEF CaseStartFirst
    <3>2. CASE CaseInProgressNoTasks
      <4>1. Min(With(InProgress)) \in Phases
        BY <3>2, PhaseBounds DEF CaseInProgressNoTasks, With
      <4> QED  BY <3>2, <3>t, <1>r, <4>1, GrabsShape DEF CaseInProgressNoTasks
    <3>3. CASE CaseCompletedWithSuccessor
      <4>1. LastClosing \in Phases /\ Successor \in Phases
        BY <3>3, SuccessorIsPending DEF With
      <4>2. rows' \in [Phases -> RowType]
        BY <3>3, <1>r, SuccessorIsPending DEF SkipOver, RowType, PhaseStatus
      <4>3. closings[LastClosing].after \in Int
        BY <4>1 DEF Shape, TypeOK
      <4> QED  BY <3>3, <3>t, <1>s, <4>1, <4>2, <4>3, SuccessorIsPending, GrabsShape, EndsShape
    <3>4. CASE CaseInProgressComplete
      BY <3>4, LastCaseShape
    <3> QED  BY <1>3, <3>1, <3>2, <3>3, <3>4 DEF SweepLook
  <2>2. UNCHANGED <<closings, retries, gotos, wf, gates, crashes>>
    BY <1>3 DEF SweepLook
  <2> QED  BY <2>1, <2>2 DEF Shape, TypeOK, Job, RowType
<1>4. CASE SweepGrab
  <2> DEFINE p == job["sweep"].to
  <2>1. p \in Phases
    BY <1>4, <1>s DEF SweepGrab, Placed
  <2>2. UNCHANGED <<tasks, closings, retries, gotos, wf, gates, crashes>>
    BY <1>4 DEF SweepGrab
  <2>3. job' \in [Actors -> Job] /\ \A b \in Actors : Placed(job'[b])
    <3>1. Ends("sweep") \/ Goes("sweep", "last") \/ Goes("sweep", "check")
      BY <1>4 DEF SweepGrab
    <3> QED  BY <1>s, <2>1, <3>1, GoesTo, EndsShape
  <2>4. rows' \in [Phases -> RowType]
    <3>1. CASE rows[p].claim # Nobody
      BY <1>4, <1>r, <3>1 DEF SweepGrab
    <3>2. CASE rows[p].claim = Nobody /\ \E i \in TasksOf(p) : i > job["sweep"].since
      <4>1. TasksOf(p) # {}
        BY <3>2
      <4>2. Min(TasksOf(p)) \in Nat
        BY <4>1, TaskBounds DEF TasksOf
      <4>3. [Run(rows[p], Min(TasksOf(p))) EXCEPT !.claim = Nobody] \in RowType
        BY <1>r, <2>1, <4>2, RunType DEF RowType
      <4>4. rows' = [rows EXCEPT ![p] = [Run(@, Min(TasksOf(p))) EXCEPT !.claim = Nobody]]
        BY <1>4, <3>2 DEF SweepGrab
      <4> QED  BY <1>r, <4>3, <4>4
    <3>3. CASE rows[p].claim = Nobody /\ ~ \E i \in TasksOf(p) : i > job["sweep"].since
      <4>1. rows' = [rows EXCEPT ![p].claim = "sweep"]
        BY <1>4, <3>3 DEF SweepGrab
      <4> QED  BY <1>r, <4>1, <1>s DEF RowType
    <3> QED  BY <3>1, <3>2, <3>3
  <2> QED  BY <2>2, <2>3, <2>4 DEF Shape, TypeOK, Job, RowType
<1>5. CASE SweepLast
  <2>1. CaseInProgressComplete /\ UNCHANGED <<closings, retries, gotos, wf, gates, crashes>>
    BY <1>5 DEF SweepLast
  <2> QED  BY <2>1, LastCaseShape DEF Shape, TypeOK, Job, RowType
<1> QED  BY <1>1, <1>2, <1>3, <1>4, <1>5

LEMMA NextShape == Shape /\ [Next]_vars => Shape'
<1> SUFFICES ASSUME Shape, [Next]_vars PROVE Shape'
  OBVIOUS
<1>t. tasks \in Seq(Task)
  BY DEF Shape, TypeOK
<1>1. CASE Sweep
  BY <1>1, SweepShape, StepShape DEF Sweep, Actors
<1>2. CASE GateClaim
  <2> DEFINE p == job["gate"].phase
  <2>1. p \in Phases /\ job["gate"] \in Job /\ Placed(job["gate"])
    BY <1>2 DEF Shape, GateClaim, Placed, Actors
  <2>2. rows' \in [Phases -> RowType]
    <3>1. rows \in [Phases -> RowType]
      BY DEF Shape, TypeOK, RowType
    <3>2. rows' = rows \/ rows' = [rows EXCEPT ![p].claim = "gate"]
      BY <1>2 DEF GateClaim
    <3>3. "gate" \in Actors
      BY DEF Actors
    <3> QED  BY <2>1, <3>1, <3>2, <3>3 DEF RowType
  <2>3. job' \in [Actors -> Job] /\ \A b \in Actors : Placed(job'[b])
    <3>1. CASE Ends("gate")  BY <3>1, EndsShape DEF Actors
    <3>2. CASE ~ Ends("gate")
      <4> DEFINE j == [job["gate"] EXCEPT !.at = "evaluate", !.own = TRUE]
      <4>1. job' = [job EXCEPT !["gate"] = j]
        BY <1>2, <3>2 DEF GateClaim
      <4>2. j \in Job /\ Placed(j)
        BY <2>1 DEF Job, Places, Placed
      <4> HIDE DEF j
      <4> QED  BY <4>1, <4>2 DEF Shape
    <3> QED  BY <3>1, <3>2
  <2>4. UNCHANGED <<tasks, closings, retries, gotos, wf, gates, crashes>>
    BY <1>2 DEF GateClaim
  <2> QED  BY <2>2, <2>3, <2>4 DEF Shape, TypeOK, Job, RowType
<1>3. CASE Step("gate")
  BY <1>3, StepShape DEF Actors
<1>4. ASSUME NEW i \in DOMAIN tasks, NEW fires \in BOOLEAN, Finish(i, fires) PROVE Shape'
  <2>1. tasks[i] \in Task /\ i \in 1..Len(tasks)
    BY <1>t
  <2>2. tasks' \in Seq(Task)
    <3>1. [tasks[i] EXCEPT !.state = "done"] \in Task
      BY <2>1 DEF Task
    <3> QED  BY <1>4, <1>t, <2>1, <3>1, ExceptSeq DEF Finish
  <2>3. job' \in [Actors -> Job] /\ \A b \in Actors : Placed(job'[b])
    <3>1. CASE fires
      <4> DEFINE j == [IdleJob EXCEPT !.at = "fired", !.phase = tasks[i].phase]
      <4>1. job' = [job EXCEPT !["gate"] = j]
        BY <1>4, <3>1 DEF Finish
      <4>2. j \in Job /\ Placed(j)
        BY <2>1, FreshShape DEF Task
      <4> HIDE DEF j
      <4> QED  BY <4>1, <4>2 DEF Shape
    <3>2. CASE ~ fires  BY <1>4, <3>2 DEF Finish, Shape
    <3> QED  BY <3>1, <3>2
  <2>4. gates' \in 0..MaxGates
    BY <1>4, Bounds DEF Finish, Shape, TypeOK
  <2>5. UNCHANGED <<rows, closings, retries, gotos, wf, crashes>>
    BY <1>4 DEF Finish
  <2> QED  BY <2>2, <2>3, <2>4, <2>5 DEF Shape, TypeOK, Job
<1>5. CASE Poll
  <2>1. wf' \in {"active", "completed"}
        /\ UNCHANGED <<rows, tasks, closings, retries, gotos, job, gates, crashes>>
    BY <1>5 DEF Poll
  <2> QED  BY <2>1 DEF Shape, TypeOK
<1>6. CASE Crash
  <2>1. crashes' \in 0..MaxCrashes
    BY <1>6, Bounds DEF Crash, Shape, TypeOK
  <2>2. job' \in [Actors -> Job] /\ \A b \in Actors : Placed(job'[b])
    BY <1>6 DEF Crash, IdleJob, Job, Places, Placed
  <2>3. UNCHANGED <<rows, tasks, closings, retries, gotos, wf, gates>>
    BY <1>6 DEF Crash
  <2> QED  BY <2>1, <2>2, <2>3 DEF Shape, TypeOK, Job
<1>7. CASE UNCHANGED vars
  BY <1>7 DEF Shape, TypeOK, vars
<1> QED  BY <1>1, <1>2, <1>3, <1>4, <1>5, <1>6, <1>7 DEF Next, Gate

\* Type correctness: no verdict, whoever asks for it and however often, takes a
\* phase's retries past its budget, and no call acts on a phase it has not named.
THEOREM TypeCorrect == Spec => []TypeOK
<1>1. Shape => TypeOK  BY DEF Shape
<1> QED  BY <1>1, InitShape, NextShape, PTL DEF Spec

-----------------------------------------------------------------------------
(* No phase is closed, or given its first task, out of turn. *)

Delivered(p) == In("done", TasksOf(p)) # {}
Ready(p) == \A q \in Phases : q < p => Delivered(q)

\* Whatever may start a phase knows only phases whose predecessors have all
\* delivered: a running row, a task, a goto's tag on it, a call that has chosen
\* where to go on; and whoever evaluates a phase has seen finished work of it.
Ordered ==
  /\ ClosedByWork
  /\ \A p \in Phases : /\ rows[p].status # Failed
                       /\ rows[p].status = InProgress => Ready(p)
  /\ \A i \in DOMAIN tasks : Ready(tasks[i].phase) /\ Ready(tasks[i].tag)
  /\ \A a \in Actors : /\ Ready(job[a].to)
                       /\ job[a].phase \in Phases => Delivered(job[a].phase)

\* A step's effect on rows, tasks and calls, as far as Ordered is concerned.
TasksOnward ==
  \A i \in DOMAIN tasks :
    /\ i \in DOMAIN tasks' /\ tasks'[i].phase = tasks[i].phase
    /\ tasks[i].state = "done" => tasks'[i].state = "done"
TasksInOrder == \A i \in DOMAIN tasks' : Ready(tasks'[i].phase) /\ Ready(tasks'[i].tag)
RowInOrder(p) ==
  \/ rows'[p].status \in {rows[p].status, Pending}
  \/ rows'[p].status = InProgress /\ Ready(p)
  \/ rows'[p].status \in {Completed, Skipped} /\ Delivered(p)
JobInOrder(a) ==
  /\ Ready(job'[a].to)
  /\ \A p \in Phases : job'[a].phase = p => Delivered(p) \/ Delivered(p)'

LEMMA InOrderStep ==
  ASSUME Ordered, TasksOnward, TasksInOrder,
         \A p \in Phases : RowInOrder(p), \A a \in Actors : JobInOrder(a)
  PROVE  Ordered'
<1>1. ASSUME NEW p \in Phases, Delivered(p) PROVE Delivered(p)'
  <2>1. PICK i \in DOMAIN tasks : tasks[i].phase = p /\ tasks[i].state = "done"
    BY <1>1 DEF Delivered, In, TasksOf
  <2>2. i \in DOMAIN tasks' /\ tasks'[i].phase = p /\ tasks'[i].state = "done"
    BY <2>1 DEF TasksOnward
  <2> QED  BY <2>2 DEF Delivered, In, TasksOf
<1>2. ASSUME NEW p, Ready(p) PROVE Ready(p)'
  BY <1>1, <1>2 DEF Ready
<1>3. ClosedByWork'
  <2> SUFFICES ASSUME NEW p \in Phases, rows'[p].status \in {Completed, Skipped} PROVE Delivered(p)'
    BY DEF ClosedByWork, With, Delivered
  <2>1. rows[p].status \in {Completed, Skipped} => Delivered(p)
    BY DEF Ordered, ClosedByWork, With, Delivered
  <2> QED  BY <1>1, <2>1 DEF RowInOrder, Completed, Skipped, Pending, InProgress
<1>4. ASSUME NEW p \in Phases
      PROVE  rows'[p].status # Failed /\ (rows'[p].status = InProgress => Ready(p)')
  BY <1>2 DEF Ordered, RowInOrder, Completed, Skipped, Pending, InProgress, Failed
<1>5. \A i \in DOMAIN tasks' : Ready(tasks[i].phase)' /\ Ready(tasks[i].tag)'
  <2> SUFFICES ASSUME NEW i \in DOMAIN tasks',
                      NEW p, p = tasks'[i].phase \/ p = tasks'[i].tag
               PROVE  Ready(p)'
    BY DEF Ready, Delivered, In, TasksOf
  <2> QED  BY <1>2 DEF TasksInOrder
<1>6. \A a \in Actors : Ready(job[a].to)'
  <2> SUFFICES ASSUME NEW a \in Actors, NEW p, p = job'[a].to PROVE Ready(p)'
    BY DEF Ready, Delivered, In, TasksOf
  <2> QED  BY <1>2 DEF JobInOrder
<1>7. \A a \in Actors : job'[a].phase \in Phases => Delivered(job[a].phase)'
  <2> SUFFICES ASSUME NEW a \in Actors, NEW p \in Phases, p = job'[a].phase PROVE Delivered(p)'
    BY DEF Delivered, In, TasksOf
  <2> QED  BY <1>1 DEF JobInOrder
<1> QED  BY <1>3, <1>4, <1>5, <1>6, <1>7 DEF Ordered

LEMMA InitOrdered == Init => Ordered
BY SomePhases DEF Init, Ordered, ClosedByWork, With, Ready, IdleJob, Phases, Pending, InProgress,
   Completed, Skipped, Failed

\* What is ready in an ordered state.
LEMMA WhatIsReady ==
  ASSUME Shape, Ordered
  PROVE  /\ Ready(0)
         /\ \A p \in Phases : TasksOf(p) # {} => Ready(p)
         /\ \A p \in Phases : Delivered(p) => Ready(p)
         /\ \A p \in Phases, t \in {0} \cup Phases : Ready(p) /\ t <= p => Ready(t)
<1>1. Ready(0)
  BY SomePhases DEF Ready, Phases
<1>2. \A p \in Phases : TasksOf(p) # {} => Ready(p)
  BY DEF Ordered, TasksOf
<1>3. \A p \in Phases : Delivered(p) => Ready(p)
  BY <1>2 DEF Delivered, In
<1>4. \A p \in Phases, t \in {0} \cup Phases : Ready(p) /\ t <= p => Ready(t)
  BY SomePhases DEF Ready, Phases
<1> QED  BY <1>1, <1>2, <1>3, <1>4

\* Phases passed over on the way to one that is ready have delivered.
LEMMA SkipInOrder ==
  ASSUME Shape, NEW p \in {0} \cup Phases, NEW t \in {0} \cup Phases, Ready(t),
         rows' = SkipOver(p, t)
  PROVE  \A q \in Phases : RowInOrder(q)
<1> SUFFICES ASSUME NEW q \in Phases PROVE RowInOrder(q)
  OBVIOUS
<1>1. CASE q < t /\ rows'[q].status = Skipped
  BY <1>1 DEF Ready, RowInOrder
<1>2. CASE rows'[q] = rows[q]
  BY <1>2 DEF RowInOrder
<1>3. rows[q] \in RowType
  BY DEF Shape, TypeOK, RowType
<1> QED  BY <1>1, <1>2, <1>3 DEF SkipOver, RowType

LEMMA ResetInOrder ==
  ASSUME Shape, Ordered, NEW t, NEW e, ResetTo(t, e)
  PROVE  TasksOnward /\ TasksInOrder /\ \A q \in Phases : RowInOrder(q)
<1>1. \A q \in Phases : RowInOrder(q)
  BY DEF ResetTo, RowInOrder
<1>2. ASSUME NEW i \in DOMAIN tasks
      PROVE  /\ tasks'[i].phase = tasks[i].phase /\ tasks'[i].tag = tasks[i].tag
             /\ tasks[i].state = "done" => tasks'[i].state = "done"
  <2>1. tasks[i] \in Task
    BY DEF Shape, TypeOK
  <2>2. tasks'[i] = tasks[i] \/ (tasks'[i] = [tasks[i] EXCEPT !.state = "lost"]
                                 /\ tasks[i].state = "live")
    BY DEF ResetTo
  <2> QED  BY <2>1, <2>2 DEF Task
<1>3. DOMAIN tasks' = DOMAIN tasks
  BY DEF ResetTo
<1> QED  BY <1>1, <1>2, <1>3 DEF TasksOnward, TasksInOrder, Ordered

\* A call that goes on, or ends, knows no more than before.
LEMMA GoesInOrder ==
  ASSUME Shape, Ordered, NEW a \in Actors, Ends(a) \/ \E at \in Places : Goes(a, at)
  PROVE  \A b \in Actors : JobInOrder(b)
<1> SUFFICES ASSUME NEW b \in Actors PROVE JobInOrder(b)
  OBVIOUS
<1>1. CASE job'[b] = IdleJob
  BY <1>1, WhatIsReady, SomePhases DEF JobInOrder, IdleJob, Phases
<1>2. CASE job'[b].to = job[b].to /\ job'[b].phase = job[b].phase
  BY <1>2 DEF JobInOrder, Ordered
<1> QED  BY <1>1, <1>2 DEF Shape, Ends, Goes, Job

LEMMA StepInOrder ==
  ASSUME Shape, Ordered, NEW a \in Actors, Step(a)
  PROVE  Ordered'
<1> DEFINE p == job[a].phase
           t == job[a].to
<1>j. job[a] \in Job /\ Placed(job[a]) /\ rows \in [Phases -> RowType]
  BY DEF Shape, TypeOK, RowType
<1>o. /\ Ready(t) /\ Ready(0)
      /\ p \in Phases => Delivered(p) /\ Ready(p)
  BY WhatIsReady DEF Ordered
<1>k. ASSUME tasks' = tasks PROVE TasksOnward /\ TasksInOrder
  BY <1>k DEF TasksOnward, TasksInOrder, Ordered
<1>l. ASSUME rows' = rows PROVE \A q \in Phases : RowInOrder(q)
  BY <1>l DEF RowInOrder
<1>1. CASE Evaluate(a)
  <2>1. p \in Phases
    BY <1>1, <1>j DEF Evaluate, Placed
  <2>2. CASE rows[p].status = Completed
    <3>1. Goes(a, "dispatch") /\ rows' = rows /\ tasks' = tasks
      BY <1>1, <2>2 DEF Evaluate
    <3> QED  BY <3>1, <1>k, <1>l, GoesInOrder, InOrderStep DEF Places
  <2>3. CASE rows[p].status # Completed
    <3>1. rows' = rows /\ tasks' = tasks
      BY <1>1 DEF Evaluate
    <3>0. PICK v \in Verdicts(p) : \E act \in {"continue", v.act} :
            job' = [job EXCEPT ![a].at = "close", ![a].act = act,
                               ![a].to = IF act = "continue" THEN 0 ELSE v.to]
      BY <1>1, <2>3 DEF Evaluate
    <3>2. v.to \in {0} \cup Phases /\ v.to <= p
      BY <2>1, SomePhases DEF Verdicts, Phases
    <3>3. Ready(v.to)
      BY <2>1, <3>2, <1>o, WhatIsReady
    <3>4. \A b \in Actors : JobInOrder(b)
      <4> SUFFICES ASSUME NEW b \in Actors PROVE JobInOrder(b)
        OBVIOUS
      <4>1. CASE b = a
        <5>1. job'[a].phase = p /\ job'[a].to \in {0, v.to}
          BY <1>j, <3>0 DEF Shape, Job
        <5> QED  BY <4>1, <5>1, <3>3, <1>o DEF JobInOrder
      <4>2. CASE b # a
        <5>1. job'[b] = job[b]
          BY <4>2, <3>0 DEF Shape
        <5> QED  BY <5>1 DEF JobInOrder, Ordered
      <4> QED  BY <4>1, <4>2
    <3> QED  BY <3>1, <3>4, <1>k, <1>l, InOrderStep
  <2> QED  BY <2>2, <2>3
<1>2. CASE Close(a)
  <2>1. p \in Phases /\ job[a].act \in {"continue", "retry", "goto"} /\ tasks' = tasks
    BY <1>2, <1>j DEF Close, Placed, Job
  <2>2. \E at \in Places : Goes(a, at)
    BY <1>2, <2>1 DEF Close, Places
  <2>3. ASSUME NEW q \in Phases PROVE RowInOrder(q)
    BY <1>2, <1>j, <1>o, <2>1 DEF Close, RowInOrder, RowType
  <2> QED  BY <2>1, <2>2, <2>3, <1>k, GoesInOrder, InOrderStep
<1>3. CASE Next_(a)
  <2> DEFINE next == IF wf # "active" \/ With(InProgress) \ {p} # {} THEN 0
                     ELSE IF Target(Cycle(p)) # 0 THEN Target(Cycle(p))
                     ELSE IF p < N THEN p + 1 ELSE 0
  <2>1. p \in Phases /\ tasks' = tasks
    BY <1>3, <1>j DEF Next_, Placed
  <2>2. next \in {0} \cup Phases /\ Ready(next)
    <3>1. Target(Cycle(p)) \in {0} \cup Phases
          /\ (Target(Cycle(p)) # 0 => Ready(Target(Cycle(p))))
      BY TargetIsTag DEF Cycle, TasksOf, Ordered
    <3>2. p < N => p + 1 \in Phases /\ Ready(p + 1)
      BY <2>1, <1>o, SomePhases DEF Phases, Ready
    <3> QED  BY <3>1, <3>2, <1>o
  <2> HIDE DEF next
  <2>3. job' = [job EXCEPT ![a].at = IF next = 0 THEN "dispatch" ELSE "start", ![a].to = next]
        /\ rows' = SkipOver(p, next)
    BY <1>3 DEF Next_, next
  <2>4. \A b \in Actors : JobInOrder(b)
    <3> SUFFICES ASSUME NEW b \in Actors PROVE JobInOrder(b)
      OBVIOUS
    <3>1. CASE b = a
      <4>1. job'[a].phase = p /\ job'[a].to = next
        BY <1>j, <2>3 DEF Shape, Job
      <4> QED  BY <3>1, <4>1, <2>2, <1>o DEF JobInOrder
    <3>2. CASE b # a
      <4>1. job'[b] = job[b]
        BY <3>2, <2>3 DEF Shape
      <4> QED  BY <4>1 DEF JobInOrder, Ordered
    <3> QED  BY <3>1, <3>2
  <2>5. \A q \in Phases : RowInOrder(q)
    BY <2>1, <2>2, <2>3, SkipInOrder
  <2> QED  BY <2>1, <2>4, <2>5, <1>k, InOrderStep
<1>4. CASE Start(a)
  <2>1. t \in Phases /\ Goes(a, "dispatch") /\ tasks' = tasks
    BY <1>4, <1>j DEF Start, Placed
  <2>2. ASSUME NEW q \in Phases PROVE RowInOrder(q)
    BY <1>4, <1>j, <1>o DEF Start, RowInOrder, Run
  <2> QED  BY <2>1, <2>2, <1>k, GoesInOrder, InOrderStep DEF Places
<1>5. CASE Reset(a) \/ Rewind(a)
  <2>1. ResetTo(t, p) /\ (Goes(a, "tag") \/ Goes(a, "claim"))
    BY <1>5 DEF Reset, Rewind
  <2> QED  BY <2>1, ResetInOrder, GoesInOrder, InOrderStep DEF Places
<1>6. CASE Tag(a)
  <2> DEFINE S == In("done", TasksOf(p))
  <2>1. Goes(a, "dispatch") /\ rows' = rows
    BY <1>6 DEF Tag
  <2>2. CASE S = {}
    <3>1. tasks' = tasks
      BY <1>6, <2>2 DEF Tag
    <3> QED  BY <2>1, <3>1, <1>k, <1>l, GoesInOrder, InOrderStep DEF Places
  <2>3. CASE S # {}
    <3>1. Max(S) \in DOMAIN tasks /\ tasks' = [tasks EXCEPT ![Max(S)].tag = t]
      BY <1>6, <2>3, TaskBounds DEF Tag, In, TasksOf
    <3>2. \A i \in DOMAIN tasks : /\ tasks'[i].phase = tasks[i].phase
                                  /\ tasks'[i].state = tasks[i].state
                                  /\ tasks'[i].tag \in {t, tasks[i].tag}
      <4>1. \A i \in DOMAIN tasks : tasks[i] \in Task
        BY DEF Shape, TypeOK
      <4>2. \A i \in DOMAIN tasks : tasks'[i] = tasks[i] \/ tasks'[i] = [tasks[i] EXCEPT !.tag = t]
        BY <3>1
      <4> QED  BY <4>1, <4>2 DEF Task
    <3>3. DOMAIN tasks' = DOMAIN tasks
      BY <3>1
    <3>4. TasksOnward /\ TasksInOrder
      BY <3>2, <3>3, <1>o DEF TasksOnward, TasksInOrder, Ordered
    <3> QED  BY <2>1, <3>4, <1>l, GoesInOrder, InOrderStep DEF Places
  <2> QED  BY <2>2, <2>3
<1>7. CASE Dispatch(a) \/ Check(a)
  <2>1. Ends(a) \/ \E at \in Places : Goes(a, at)
    BY <1>7 DEF Dispatch, Check, Places
  <2>2. rows' = rows /\ tasks' = tasks
    BY <1>7 DEF Dispatch, Check
  <2> QED  BY <2>1, <2>2, <1>k, <1>l, GoesInOrder, InOrderStep
<1>8. CASE Claim(a)
  <2>1. t \in Phases /\ tasks' = tasks
    BY <1>8, <1>j DEF Claim, Placed
  <2>2. ASSUME NEW q \in Phases PROVE RowInOrder(q)
    <3>1. Healed(t).status = rows[t].status \/ Healed(t).status = InProgress
      BY <1>j, <2>1 DEF Healed, Run, RowType
    <3>2. Healed(t) \in RowType
      BY <2>1, HealedType
    <3>3. rows'[q] = rows[q] \/ (q = t /\ rows'[q].status \in {rows[q].status, InProgress})
      BY <1>8, <1>j, <3>1, <3>2 DEF Claim, RowType
    <3> QED  BY <3>3, <1>o DEF RowInOrder
  <2>3. \A b \in Actors : JobInOrder(b)
    <3>1. CASE Goes(a, "check")
      BY <3>1, GoesInOrder DEF Places
    <3>2. CASE job' = [job EXCEPT ![a].at = "end", ![a].to = 0]
      <4> SUFFICES ASSUME NEW b \in Actors PROVE JobInOrder(b)
        OBVIOUS
      <4>1. job'[b].phase = job[b].phase /\ job'[b].to \in {0, job[b].to}
        BY <3>2 DEF Shape, Job
      <4> QED  BY <4>1, <1>o DEF JobInOrder, Ordered
    <3> QED  BY <1>8, <3>1, <3>2 DEF Claim
  <2> QED  BY <2>1, <2>2, <2>3, <1>k, InOrderStep
<1>9. CASE Insert(a)
  <2>1. t \in Phases
    BY <1>9, <1>j DEF Insert, Placed
  <2>2. ASSUME NEW q \in Phases PROVE RowInOrder(q)
    <3>1. rows'[q] = rows[q] \/ (q = t /\ rows'[q].status = InProgress)
      BY <1>9, <1>j, RunType DEF Insert, Run, RowType
    <3> QED  BY <3>1, <1>o DEF RowInOrder
  <2>3. TasksOnward /\ TasksInOrder
    <3>1. tasks \in Seq(Task) /\ Len(tasks) \in Nat
      BY DEF Shape, TypeOK
    <3> DEFINE new == [phase |-> t, state |-> "live",
                       tag |-> IF job[a].act \in {"goto", "retry"} THEN p ELSE 0]
    <3>2. new \in Task /\ Ready(new.phase) /\ Ready(new.tag)
      BY <1>j, <1>o, <2>1 DEF Task, Job
    <3>3. tasks' = Append(tasks, new)
      BY <1>9 DEF Insert
    <3> HIDE DEF new
    <3>4. \A i \in DOMAIN tasks : i \in DOMAIN tasks' /\ tasks'[i] = tasks[i]
      BY <3>1, <3>2, <3>3
    <3>5. \A i \in DOMAIN tasks' : i \in DOMAIN tasks \/ tasks'[i] = new
      BY <3>1, <3>2, <3>3
    <3> QED  BY <3>2, <3>4, <3>5 DEF TasksOnward, TasksInOrder, Ordered
  <2>4. Ends(a) \/ \E at \in Places : Goes(a, at)
    BY <1>9 DEF Insert, Places
  <2> QED  BY <2>2, <2>3, <2>4, GoesInOrder, InOrderStep
<1>10. CASE End(a)
  <2>1. tasks' = tasks /\ Ends(a)
    BY <1>10 DEF End
  <2>2. \A q \in Phases : RowInOrder(q)
    BY <1>10, <1>j DEF End, RowInOrder, RowType
  <2> QED  BY <2>1, <2>2, <1>k, GoesInOrder, InOrderStep
<1> QED  BY <1>1, <1>2, <1>3, <1>4, <1>5, <1>6, <1>7, <1>8, <1>9, <1>10 DEF Step

LEMMA GrabsInOrder ==
  ASSUME Shape, Ordered, NEW at \in {"grab", "try"}, NEW p \in Phases, Ready(p),
         NEW act \in {"continue", "goto"}, NEW source \in {0} \cup Phases,
         source \in Phases => Delivered(source),
         NEW since \in Int, Grabs(at, p, act, source, since)
  PROVE  \A b \in Actors : JobInOrder(b)
<1> SUFFICES ASSUME NEW b \in Actors PROVE JobInOrder(b)
  OBVIOUS
<1>1. CASE job'[b].to = p /\ job'[b].phase = source
  BY <1>1 DEF JobInOrder
<1>2. CASE job'[b] = job[b]
  BY <1>2 DEF JobInOrder, Ordered
<1> QED  BY <1>1, <1>2 DEF Grabs, Shape

LEMMA LastCaseInOrder ==
  ASSUME Shape, Ordered, CaseInProgressComplete
  PROVE  Ordered'
<1>j. rows \in [Phases -> RowType] /\ "sweep" \in Actors
  BY DEF Shape, TypeOK, RowType, Actors
<1>q. Quiet # {} => /\ Min(Quiet) \in Phases
                    /\ Min(Quiet) \in Quiet /\ Ready(Min(Quiet))
  BY PhaseBounds DEF Quiet, With, Ordered
<1>k. ASSUME tasks' = tasks PROVE TasksOnward /\ TasksInOrder
  BY <1>k DEF TasksOnward, TasksInOrder, Ordered
<1>l. ASSUME rows' = rows PROVE \A q \in Phases : RowInOrder(q)
  BY <1>l DEF RowInOrder
<1>1. CASE CaseNeverStarted
  <2>1. Min(Quiet) \in Phases /\ rows[Min(Quiet)].started - 1 \in Int /\ Ready(Min(Quiet))
    BY <1>1, <1>j, <1>q DEF CaseNeverStarted, RowType
  <2>2. \A b \in Actors : JobInOrder(b)
    BY <1>1, <2>1, GrabsInOrder, SomePhases DEF CaseNeverStarted, Phases
  <2> QED  BY <1>1, <1>k, <1>l, <2>2, InOrderStep DEF CaseNeverStarted
<1>2. CASE CaseRetry
  <2>1. TasksOnward /\ TasksInOrder
    <3>1. \A i \in DOMAIN tasks : tasks[i] \in Task
      BY DEF Shape, TypeOK
    <3>2. \A i \in DOMAIN tasks : \/ tasks'[i] = tasks[i]
                                  \/ /\ tasks'[i] = [tasks[i] EXCEPT !.state = "live"]
                                     /\ tasks[i].state = "lost"
      BY <1>2 DEF CaseRetry, In
    <3>3. \A i \in DOMAIN tasks : /\ tasks'[i].phase = tasks[i].phase /\ tasks'[i].tag = tasks[i].tag
                                  /\ tasks[i].state = "done" => tasks'[i].state = "done"
      <4> SUFFICES ASSUME NEW i \in DOMAIN tasks
                   PROVE  /\ tasks'[i].phase = tasks[i].phase /\ tasks'[i].tag = tasks[i].tag
                          /\ tasks[i].state = "done" => tasks'[i].state = "done"
        OBVIOUS
      <4>1. tasks[i] \in Task
        BY <3>1
      <4> QED  BY <3>2, <4>1 DEF Task
    <3>4. DOMAIN tasks' = DOMAIN tasks
      BY <1>2 DEF CaseRetry
    <3> QED  BY <3>3, <3>4 DEF TasksOnward, TasksInOrder, Ordered
  <2> QED  BY <1>2, <1>j, <1>l, <2>1, GoesInOrder, InOrderStep DEF CaseRetry
<1>3. CASE CaseComplete
  <2> DEFINE p == Min(Quiet)
  <2>1. p \in Phases /\ p \in Quiet /\ Cycle(p) # {} /\ In("lost", Cycle(p)) = {}
    BY <1>3, <1>q DEF CaseComplete
  <2>2. Delivered(p)
    <3>1. PICK i \in Cycle(p) : TRUE
      BY <2>1
    <3>2. tasks[i] \in Task /\ i \in TasksOf(p)
      BY <3>1 DEF Shape, TypeOK, Cycle, TasksOf
    <3>3. tasks[i].state = "done"
      BY <2>1, <3>1, <3>2 DEF Quiet, In, Task
    <3> QED  BY <3>2, <3>3 DEF Delivered, In
  <2>3. \A b \in Actors : JobInOrder(b)
    <3> SUFFICES ASSUME NEW b \in Actors PROVE JobInOrder(b)
      OBVIOUS
    <3>1. \/ job'[b] = job[b]
          \/ job'[b].phase = p /\ job'[b].to = 0
      BY <1>3 DEF CaseComplete, Shape, IdleJob
    <3> QED  BY <3>1, <2>2, WhatIsReady DEF JobInOrder, Ordered
  <2>4. \A q \in Phases : RowInOrder(q)
    BY <1>3, <1>j DEF CaseComplete, RowInOrder, RowType
  <2> QED  BY <1>3, <1>k, <2>3, <2>4, InOrderStep DEF CaseComplete
<1>4. CASE NothingToDo
  BY <1>4, <1>j, <1>k, <1>l, GoesInOrder, InOrderStep DEF NothingToDo
<1> QED  BY <1>1, <1>2, <1>3, <1>4 DEF CaseInProgressComplete

\* The successor has nothing in front of it but closed phases and ones that a
\* goto's tag says have delivered.
LEMMA SuccessorIsReady ==
  ASSUME Shape, Ordered, CaseCompletedWithSuccessor
  PROVE  Ready(Successor) /\ Delivered(LastClosing)
<1> DEFINE last == LastClosing
           target == Target(TasksOf(last))
           later == {p \in With(Pending) : p > last}
<1>1. last \in Phases /\ Delivered(last) /\ Ready(last)
  <2>1. last \in With(Completed)
    BY SuccessorIsPending
  <2> QED  BY <2>1, WhatIsReady DEF With, Ordered, ClosedByWork, Delivered
<1>2. ASSUME NEW q \in Phases, q \notin With(Pending) PROVE Delivered(q)
  <2>1. rows[q] \in RowType /\ rows[q].status \notin {Pending, InProgress, Failed}
    BY <1>2 DEF CaseCompletedWithSuccessor, With, Shape, TypeOK, RowType, Ordered
  <2>2. q \in With(Completed) \cup With(Skipped)
    BY <2>1 DEF RowType, PhaseStatus, With
  <2> QED  BY <2>2 DEF Ordered, ClosedByWork, Delivered
<1>3. CASE target \in With(Pending)
  <2>1. target # 0
    BY <1>3, SomePhases DEF With, Phases
  <2>2. Ready(target)
    BY <2>1, TargetIsTag DEF TasksOf, Ordered
  <2> QED  BY <1>1, <1>3, <2>2 DEF Successor
<1>4. CASE target \notin With(Pending) /\ later # {}
  <2>1. Min(later) \in later /\ \A q \in later : Min(later) =< q
    BY <1>4, PhaseBounds DEF With
  <2>2. ASSUME NEW q \in Phases, q < Min(later) PROVE Delivered(q)
    <3>1. CASE q < last  BY <1>1, <3>1 DEF Ready
    <3>2. CASE q = last  BY <1>1, <3>2
    <3>3. CASE q > last
      <4>0. Min(later) \in Phases
        BY <2>1, PhaseNumbers
      <4>1. Min(later) \in Int /\ q \in Int /\ ~ (Min(later) =< q)
        BY <2>2, <4>0, PhaseNumbers
      <4>2. q \notin later
        BY <2>1, <4>1
      <4> QED  BY <1>2, <3>3, <4>2
    <3> QED  BY <1>1, <3>1, <3>2, <3>3, SomePhases DEF Phases
  <2>3. Successor = Min(later)
    BY <1>4 DEF Successor
  <2> QED  BY <1>1, <2>2, <2>3 DEF Ready
<1>5. CASE target \notin With(Pending) /\ later = {}
  <2>1. Min(With(Pending)) \in With(Pending) /\ \A q \in With(Pending) : Min(With(Pending)) =< q
    BY PhaseBounds DEF With, CaseCompletedWithSuccessor
  <2>2. ASSUME NEW q \in Phases, q < Min(With(Pending)) PROVE Delivered(q)
    <3>1. Min(With(Pending)) \in Int /\ q \in Int /\ ~ (Min(With(Pending)) =< q)
      BY <2>1, <2>2, PhaseNumbers
    <3>2. q \notin With(Pending)
      BY <2>1, <3>1
    <3> QED  BY <1>2, <3>2
  <2>3. Successor = Min(With(Pending))
    BY <1>5 DEF Successor
  <2> QED  BY <1>1, <2>2, <2>3 DEF Ready
<1> QED  BY <1>3, <1>4, <1>5

LEMMA SweepInOrder ==
  ASSUME Shape, Ordered, SweepHeal \/ SweepRelease \/ SweepLook \/ SweepGrab \/ SweepLast
  PROVE  Ordered'
<1>j. rows \in [Phases -> RowType] /\ "sweep" \in Actors
      /\ job["sweep"] \in Job /\ Placed(job["sweep"])
  BY DEF Shape, TypeOK, RowType, Actors
<1>k. ASSUME tasks' = tasks PROVE TasksOnward /\ TasksInOrder
  BY <1>k DEF TasksOnward, TasksInOrder, Ordered
<1>l. ASSUME rows' = rows PROVE \A q \in Phases : RowInOrder(q)
  BY <1>l DEF RowInOrder
<1>1. CASE SweepHeal
  <2>1. ASSUME NEW q \in Phases PROVE RowInOrder(q)
    <3>1. Healed(q).status = rows[q].status \/ (Healed(q).status = InProgress /\ TasksOf(q) # {})
      BY <1>j DEF Healed, Run, RowType
    <3>2. rows'[q] = rows[q] \/ rows'[q] = Healed(q)
      BY <1>1 DEF SweepHeal
    <3> QED  BY <3>1, <3>2, WhatIsReady DEF RowInOrder
  <2> QED  BY <1>1, <1>j, <1>k, <2>1, GoesInOrder, InOrderStep DEF SweepHeal, Places
<1>2. CASE SweepRelease
  <2> DEFINE done == In("done", DOMAIN tasks)
             i == Max(done)
             p == tasks[i].phase
  <2>1. ASSUME NEW q \in Phases PROVE RowInOrder(q)
    <3>1. CASE rows'[q] = rows[q]
      BY <3>1 DEF RowInOrder
    <3>2. CASE rows'[q] # rows[q]
      <4>1. done # {} /\ q = p /\ rows'[q] = Run(rows[q], IF rows[q].started = 0 THEN i ELSE rows[q].started)
        BY <1>2, <1>j, <3>2 DEF SweepRelease
      <4>2. i \in DOMAIN tasks
        BY <4>1, TaskBounds DEF In
      <4>3. Ready(q)
        BY <4>1, <4>2 DEF Ordered
      <4>4. rows'[q].status = InProgress
        BY <4>1 DEF Run
      <4> QED  BY <4>3, <4>4 DEF RowInOrder
    <3> QED  BY <3>1, <3>2
  <2> QED  BY <1>2, <1>j, <1>k, <2>1, GoesInOrder, InOrderStep DEF SweepRelease, Places
<1>3. CASE SweepLook
  <2>1. CASE CaseStartFirst
    <3> DEFINE p == Min(With(Pending))
    <3>1. p \in With(Pending) /\ \A q \in With(Pending) : p =< q
      BY <2>1, PhaseBounds DEF CaseStartFirst, With
    <3>2. ASSUME NEW q \in Phases, q < p PROVE Delivered(q)
      <4>1. q \notin With(Pending)
        <5>1. p \in Int /\ q \in Int /\ ~ (p =< q)
          BY <3>1, <3>2, PhaseNumbers
        <5> QED  BY <3>1, <5>1
      <4>2. rows[q] \in RowType /\ rows[q].status \notin {Pending, InProgress, Completed, Failed}
        BY <2>1, <4>1, <1>j DEF CaseStartFirst, With, Ordered
      <4>3. q \in With(Skipped)
        BY <4>2 DEF RowType, PhaseStatus, With
      <4> QED  BY <4>3 DEF Ordered, ClosedByWork, Delivered
    <3>3. Ready(p) /\ p \in Phases
      BY <3>1, <3>2 DEF Ready, With
    <3>4. \A b \in Actors : JobInOrder(b)
      BY <2>1, <1>j, <3>3, GrabsInOrder, GoesInOrder, SomePhases DEF CaseStartFirst, Phases
    <3> QED  BY <2>1, <1>k, <1>l, <3>4, InOrderStep DEF CaseStartFirst
  <2>2. CASE CaseInProgressNoTasks
    <3> DEFINE p == Min(With(InProgress))
    <3>1. p \in Phases /\ Ready(p)
      BY <2>2, PhaseBounds DEF CaseInProgressNoTasks, With, Ordered
    <3>2. \A b \in Actors : JobInOrder(b)
      BY <2>2, <3>1, GrabsInOrder, SomePhases DEF CaseInProgressNoTasks, Phases
    <3> QED  BY <2>2, <1>k, <1>l, <3>2, InOrderStep DEF CaseInProgressNoTasks
  <2>3. CASE CaseCompletedWithSuccessor
    <3>1. Ready(Successor) /\ Delivered(LastClosing)
      BY <2>3, SuccessorIsReady
    <3>2. LastClosing \in Phases /\ Successor \in Phases
      BY <2>3, SuccessorIsPending DEF With
    <3>3. \A q \in Phases : RowInOrder(q)
      BY <2>3, <3>1, <3>2, SuccessorIsPending, SkipInOrder
    <3>4. closings[LastClosing].after \in Int
      BY <3>2 DEF Shape, TypeOK
    <3>5. \A b \in Actors : JobInOrder(b)
      <4>1. CASE Ends("sweep")
        BY <4>1, <1>j, GoesInOrder
      <4>2. CASE Grabs("grab", Successor, "goto", LastClosing, closings[LastClosing].after)
        BY <4>2, <3>1, <3>2, <3>4, GrabsInOrder
      <4>3. CASE Grabs("grab", Successor, "continue", 0, closings[LastClosing].after)
        BY <4>3, <3>1, <3>2, <3>4, GrabsInOrder, SomePhases DEF Phases
      <4> QED  BY <2>3, <4>1, <4>2, <4>3, SuccessorIsPending
    <3>6. tasks' = tasks
      BY <2>3 DEF CaseCompletedWithSuccessor
    <3> QED  BY <3>3, <3>5, <3>6, <1>k, InOrderStep
  <2>4. CASE CaseInProgressComplete
    BY <2>4, LastCaseInOrder
  <2> QED  BY <1>3, <2>1, <2>2, <2>3, <2>4 DEF SweepLook
<1>4. CASE SweepGrab
  <2> DEFINE p == job["sweep"].to
  <2>1. ASSUME NEW q \in Phases PROVE RowInOrder(q)
    <3>1. Ready(p)
      BY <1>j DEF Ordered
    <3>2. rows'[q].status = rows[q].status \/ (q = p /\ rows'[q].status = InProgress)
      BY <1>4, <1>j DEF SweepGrab, Run, RowType
    <3> QED  BY <3>1, <3>2 DEF RowInOrder
  <2>2. Ends("sweep") \/ \E at \in Places : Goes("sweep", at)
    BY <1>4 DEF SweepGrab, Places
  <2>3. tasks' = tasks
    BY <1>4 DEF SweepGrab
  <2> QED  BY <1>j, <1>k, <2>1, <2>2, <2>3, GoesInOrder, InOrderStep
<1>5. CASE SweepLast
  BY <1>5, LastCaseInOrder DEF SweepLast
<1> QED  BY <1>1, <1>2, <1>3, <1>4, <1>5

LEMMA NextOrdered == Shape /\ Ordered /\ [Next]_vars => Ordered'
<1> SUFFICES ASSUME Shape, Ordered, [Next]_vars PROVE Ordered'
  OBVIOUS
<1>j. rows \in [Phases -> RowType] /\ "gate" \in Actors
  BY DEF Shape, TypeOK, RowType, Actors
<1>k. ASSUME tasks' = tasks PROVE TasksOnward /\ TasksInOrder
  BY <1>k DEF TasksOnward, TasksInOrder, Ordered
<1>l. ASSUME rows' = rows PROVE \A q \in Phases : RowInOrder(q)
  BY <1>l DEF RowInOrder
<1>m. ASSUME job' = job PROVE \A a \in Actors : JobInOrder(a)
  BY <1>m DEF JobInOrder, Ordered
<1>1. CASE Sweep
  BY <1>1, SweepInOrder, StepInOrder DEF Sweep, Actors
<1>2. CASE GateClaim
  <2>1. tasks' = tasks /\ \A q \in Phases : RowInOrder(q)
    BY <1>2, <1>j DEF GateClaim, RowInOrder, RowType
  <2>2. \A a \in Actors : JobInOrder(a)
    <3>1. CASE Ends("gate")  BY <3>1, <1>j, GoesInOrder
    <3>2. CASE ~ Ends("gate")
      <4> SUFFICES ASSUME NEW a \in Actors PROVE JobInOrder(a)
        OBVIOUS
      <4>1. job'[a].to = job[a].to /\ job'[a].phase = job[a].phase
        BY <1>2, <3>2 DEF GateClaim, Shape, Job
      <4> QED  BY <4>1 DEF JobInOrder, Ordered
    <3> QED  BY <3>1, <3>2
  <2> QED  BY <1>k, <2>1, <2>2, InOrderStep
<1>3. CASE Step("gate")
  BY <1>3, <1>j, StepInOrder
<1>4. ASSUME NEW i \in DOMAIN tasks, NEW fires \in BOOLEAN, Finish(i, fires) PROVE Ordered'
  <2>1. \A k \in DOMAIN tasks : tasks[k] \in Task
    BY DEF Shape, TypeOK
  <2>2. tasks' = [tasks EXCEPT ![i].state = "done"] /\ rows' = rows
    BY <1>4 DEF Finish
  <2>3. DOMAIN tasks' = DOMAIN tasks
        /\ \A k \in DOMAIN tasks : /\ tasks'[k].phase = tasks[k].phase /\ tasks'[k].tag = tasks[k].tag
                                   /\ tasks'[k].state = IF k = i THEN "done" ELSE tasks[k].state
    BY <2>1, <2>2 DEF Task
  <2>4. TasksOnward /\ TasksInOrder
    BY <2>3 DEF TasksOnward, TasksInOrder, Ordered
  <2>5. \A a \in Actors : JobInOrder(a)
    <3> SUFFICES ASSUME NEW a \in Actors PROVE JobInOrder(a)
      OBVIOUS
    <3>1. CASE job'[a] = job[a]
      BY <3>1 DEF JobInOrder, Ordered
    <3>2. CASE job'[a] # job[a]
      <4>1. job'[a].phase = tasks[i].phase /\ job'[a].to = 0
        BY <1>4, <3>2 DEF Finish, Shape, IdleJob
      <4>2. ASSUME NEW p \in Phases, tasks[i].phase = p PROVE Delivered(p)'
        BY <2>3, <4>2 DEF Delivered, In, TasksOf
      <4> QED  BY <4>1, <4>2, WhatIsReady DEF JobInOrder
    <3> QED  BY <3>1, <3>2
  <2> QED  BY <1>l, <2>2, <2>4, <2>5, InOrderStep
<1>5. CASE Poll
  BY <1>5, <1>k, <1>l, <1>m, InOrderStep DEF Poll
<1>6. CASE Crash
  <2>1. \A a \in Actors : JobInOrder(a)
    BY <1>6, WhatIsReady, SomePhases DEF Crash, JobInOrder, IdleJob, Phases
  <2> QED  BY <1>6, <1>k, <1>l, <2>1, InOrderStep DEF Crash
<1>7. CASE UNCHANGED vars
  BY <1>7, <1>k, <1>l, <1>m, InOrderStep DEF vars
<1> QED  BY <1>1, <1>2, <1>3, <1>4, <1>5, <1>6, <1>7 DEF Next, Gate

\* ClosedByWork: sweep and gate, racing on one row or on two, with gotos that
\* reset and pass over phases and restarts in between, close or skip no phase
\* that has not had a finished run.
THEOREM OnlyWorkCloses == Spec => []ClosedByWork
<1>1. Ordered => ClosedByWork  BY DEF Ordered
<1> QED  BY <1>1, InitShape, NextShape, InitOrdered, NextOrdered, PTL DEF Spec

\* InOrder: none of them gives a phase its first task before the phase in front
\* of it has delivered.
THEOREM StartedInOrder == Spec => []InOrder
<1>1. Shape /\ Ordered => InOrder
  <2> SUFFICES ASSUME Shape, Ordered, NEW p \in Phases \ {1}, TasksOf(p) # {}
               PROVE  In("done", TasksOf(p - 1)) # {}
    BY DEF InOrder
  <2>1. p - 1 \in Phases /\ p - 1 < p
    BY SomePhases DEF Phases
  <2> QED  BY <2>1, WhatIsReady DEF Ready, Delivered
<1> QED  BY <1>1, InitShape, NextShape, InitOrdered, NextOrdered, PTL DEF Spec

-----------------------------------------------------------------------------
(* The sweep alone: as long as no gate has run, the sweep's call is the     *)
(* only one there is.                                                       *)

Alive(p) == In("live", TasksOf(p)) # {}

\* A live task belongs to the cycle of a running row.
LiveRuns ==
  \A i \in DOMAIN tasks :
    tasks[i].state = "live" => /\ rows[tasks[i].phase].status = InProgress
                               /\ rows[tasks[i].phase].started <= i

\* What is being evaluated runs, and nobody works on it.
Evaluated ==
  LET j == job["sweep"] IN
  j.at \in {"evaluate", "close"} => rows[j.phase].status = InProgress /\ ~ Alive(j.phase)

Started == \A p \in Phases : rows[p].started <= Len(tasks) + 1

Alone == gates = 0 => job["gate"] = IdleJob /\ LiveRuns /\ Started /\ Evaluated

\* The steps that are left while the gate has not run.
LEMMA AloneSteps ==
  ASSUME Shape, Alone, [Next]_vars, gates' = 0
  PROVE  /\ gates = 0 /\ job["gate"] = IdleJob /\ job'["gate"] = IdleJob
         /\ LiveRuns /\ Started /\ Evaluated
         /\ \/ Sweep \/ Poll \/ Crash \/ UNCHANGED vars
            \/ \E i \in DOMAIN tasks : Finish(i, FALSE)
<1>g. gates \in Nat
  BY Bounds DEF Shape, TypeOK
<1>1. gates = 0
  <2>1. CASE gates' = gates  BY <2>1
  <2>2. CASE gates' # gates
    <3>1. \E i \in DOMAIN tasks, fires \in BOOLEAN : Finish(i, fires)
      BY <2>2 DEF Next, Sweep, SweepHeal, SweepRelease, SweepLook, SweepGrab, SweepLast, Step, Gate,
         GateClaim, Poll, Crash, vars, Evaluate, Close, Next_, Start, Reset, Tag, Dispatch, Rewind,
         Claim, Check, Insert, End
    <3>2. gates' = gates + 1 \/ gates' = gates + 0
      BY <3>1 DEF Finish
    <3> QED  BY <1>g, <3>2
  <2> QED  BY <2>1, <2>2
<1>2. job["gate"] = IdleJob /\ job["gate"].at = "idle" /\ LiveRuns /\ Started /\ Evaluated
  BY <1>1 DEF Alone, IdleJob
<1>3. ~ Gate
  BY <1>2 DEF Gate, GateClaim, Step, Evaluate, Close, Next_, Start, Reset, Tag, Dispatch, Rewind,
     Claim, Check, Insert, End
<1>4. ASSUME NEW i \in DOMAIN tasks, NEW fires \in BOOLEAN, Finish(i, fires) PROVE ~ fires
  <2>1. fires => gates' = gates + 1
    BY <1>4 DEF Finish
  <2> QED  BY <1>1, <2>1
<1>5. \/ Sweep \/ Poll \/ Crash \/ UNCHANGED vars
      \/ \E i \in DOMAIN tasks : Finish(i, FALSE)
  BY <1>3, <1>4 DEF Next
<1>6. job'["gate"] = job["gate"] \/ job'["gate"] = IdleJob
  <2>1. CASE Sweep
    BY <2>1 DEF Sweep, SweepHeal, SweepRelease, SweepLook, SweepGrab, SweepLast, Step,
       Evaluate, Close, Next_, Start, Reset, Tag, Dispatch, Rewind, Claim, Check, Insert, End,
       CaseStartFirst, CaseInProgressNoTasks, CaseCompletedWithSuccessor, CaseInProgressComplete,
       CaseNeverStarted, CaseRetry, CaseComplete, NothingToDo, Goes, Ends, Grabs, Shape, Actors
  <2>2. CASE Poll \/ Crash \/ UNCHANGED vars
    BY <2>2 DEF Poll, Crash, vars, Actors
  <2>3. ASSUME NEW i \in DOMAIN tasks, Finish(i, FALSE) PROVE job' = job
    BY <2>3 DEF Finish
  <2> QED  BY <1>5, <2>1, <2>2, <2>3
<1> QED  BY <1>1, <1>2, <1>5, <1>6

\* Rows change only where nobody works.
LEMMA LiveKept ==
  ASSUME Shape, LiveRuns, tasks' = tasks,
         \A p \in Phases : \/ rows[p].status # InProgress \/ ~ Alive(p)
                           \/ rows'[p].status = rows[p].status /\ rows'[p].started = rows[p].started
  PROVE  LiveRuns'
<1> SUFFICES ASSUME NEW i \in DOMAIN tasks, tasks[i].state = "live"
             PROVE  /\ rows'[tasks[i].phase].status = InProgress
                    /\ rows'[tasks[i].phase].started <= i
  BY DEF LiveRuns
<1>1. tasks[i].phase \in Phases
  <2>1. tasks[i] \in Task
    BY DEF Shape, TypeOK
  <2> QED  BY <2>1 DEF Task
<1>2. rows[tasks[i].phase].status = InProgress /\ rows[tasks[i].phase].started <= i
  BY DEF LiveRuns
<1>3. Alive(tasks[i].phase)
  BY DEF Alive, In, TasksOf
<1> QED  BY <1>1, <1>2, <1>3

\* A row that changes its status or its start is one nobody works on, and starts
\* with a task there is or with the next.
Calm(p) ==
  /\ rows'[p].started <= Len(tasks) + 1
  /\ \/ rows[p].status # InProgress \/ ~ Alive(p)
     \/ rows'[p].status = rows[p].status /\ rows'[p].started = rows[p].started

LEMMA CalmRows ==
  ASSUME Shape, Started, NEW p \in Phases,
         \/ rows'[p].status = rows[p].status /\ rows'[p].started = rows[p].started
         \/ rows[p].status # InProgress /\ rows'[p].started = rows[p].started
         \/ rows[p].status # InProgress /\ rows'[p].started = 0
         \/ \E i \in DOMAIN tasks \cup {Now} : rows'[p] = Run(rows[p], i)
         \/ \E i \in DOMAIN tasks \cup {Now} : rows'[p] = [Run(rows[p], i) EXCEPT !.claim = Nobody]
         \/ ~ Alive(p) /\ rows'[p].started \in {0, rows[p].started}
  PROVE  Calm(p)
<1>1. rows[p] \in RowType /\ rows[p].started <= Len(tasks) + 1
  BY DEF Shape, TypeOK, RowType, Started
<1>2. Len(tasks) \in Nat /\ \A i \in DOMAIN tasks \cup {Now} : i \in Nat /\ i <= Len(tasks) + 1
  BY DEF Shape, TypeOK, Now
<1>3. ASSUME NEW i \in DOMAIN tasks \cup {Now}
      PROVE  /\ Run(rows[p], i).started = IF rows[p].status = InProgress THEN rows[p].started ELSE i
             /\ Run(rows[p], i).status = InProgress
             /\ Run(rows[p], i) \in RowType
    BY <1>1, <1>2, RunType DEF Run
<1>4. ASSUME NEW i \in DOMAIN tasks \cup {Now},
             \/ rows'[p] = Run(rows[p], i) \/ rows'[p] = [Run(rows[p], i) EXCEPT !.claim = Nobody]
      PROVE  Calm(p)
  <2>1. rows'[p].started = Run(rows[p], i).started /\ rows'[p].status = InProgress
    BY <1>3, <1>4 DEF RowType
  <2>2. rows'[p].started = (IF rows[p].status = InProgress THEN rows[p].started ELSE i)
    BY <1>3, <2>1
  <2> QED  BY <1>1, <1>2, <2>1, <2>2 DEF Calm
<1>5. CASE rows'[p].started = rows[p].started \/ rows'[p].started = 0
  <2>1. rows'[p].started <= Len(tasks) + 1
    BY <1>1, <1>2, <1>5
  <2>2. CASE \E i \in DOMAIN tasks \cup {Now} :
               rows'[p] = Run(rows[p], i) \/ rows'[p] = [Run(rows[p], i) EXCEPT !.claim = Nobody]
    BY <1>4, <2>2
  <2> QED  BY <2>1, <2>2 DEF Calm
<1> QED  BY <1>4, <1>5

\* A repair restarts only rows that do not run.
LEMMA HealedCalm ==
  ASSUME Shape, Started, NEW q \in Phases
  PROVE  /\ Healed(q).started <= Len(tasks) + 1
         /\ \/ rows[q].status # InProgress
            \/ Healed(q).status = rows[q].status /\ Healed(q).started = rows[q].started
<1>1. rows[q] \in RowType /\ rows[q].started <= Len(tasks) + 1
  BY DEF Shape, TypeOK, RowType, Started
<1>2. CASE rows[q].status # InProgress /\ TasksOf(q) # {}
  <2>1. Max(TasksOf(q)) <= Len(tasks) + 1
    <3>1. Max(TasksOf(q)) \in DOMAIN tasks
      BY <1>2, TaskBounds DEF TasksOf
    <3> QED  BY <3>1 DEF Shape, TypeOK
  <2> QED  BY <1>1, <1>2, <2>1 DEF Healed, Run
<1>3. CASE ~ (rows[q].status # InProgress /\ TasksOf(q) # {})
  <2>1. Healed(q) = [rows[q] EXCEPT !.claim = Nobody]
    BY <1>3 DEF Healed
  <2> QED  BY <1>1, <2>1 DEF RowType
<1> QED  BY <1>2, <1>3

LEMMA AloneKept ==
  ASSUME Shape, LiveRuns, tasks' = tasks, \A p \in Phases : Calm(p),
         job'["sweep"].at \notin {"evaluate", "close"}
  PROVE  LiveRuns' /\ Started' /\ Evaluated'
BY LiveKept DEF Calm, Started, Evaluated

LEMMA SameRowsCalm ==
  ASSUME Shape, Started, rows' = rows
  PROVE  \A p \in Phases : Calm(p)
BY CalmRows

\* Where an actor's call is after a step that goes on or ends.
LEMMA Whereabouts ==
  ASSUME Shape
  PROVE  /\ \A at : Goes("sweep", at) => job'["sweep"].at = at
         /\ Ends("sweep") => job'["sweep"].at = "idle"
         /\ \A at, p, act, s, since : Grabs(at, p, act, s, since) =>
               job'["sweep"] = [at |-> at, phase |-> s, act |-> act, to |-> p, own |-> FALSE,
                                since |-> since]
<1>1. job \in [Actors -> Job] /\ "sweep" \in Actors /\ job["sweep"] \in Job
  BY DEF Shape, Actors
<1>2. ASSUME NEW at, Goes("sweep", at) PROVE job'["sweep"].at = at
  <2>1. job' = [job EXCEPT !["sweep"] = [job["sweep"] EXCEPT !.at = at]]
    BY <1>2 DEF Goes
  <2>2. job'["sweep"] = [job["sweep"] EXCEPT !.at = at]
    BY <1>1, <2>1
  <2> QED  BY <1>1, <2>2 DEF Job
<1>3. Ends("sweep") => job'["sweep"].at = "idle"
  BY <1>1 DEF Ends, IdleJob
<1>4. ASSUME NEW at, NEW p, NEW act, NEW s, NEW since, Grabs(at, p, act, s, since)
      PROVE  job'["sweep"] = [at |-> at, phase |-> s, act |-> act, to |-> p, own |-> FALSE,
                              since |-> since]
  BY <1>1, <1>4 DEF Grabs
<1> QED  BY <1>2, <1>3, <1>4

LEMMA InitAlone == Init => Alone
<1> SUFFICES ASSUME Init PROVE LiveRuns /\ Started /\ Evaluated /\ job["gate"] = IdleJob
  BY DEF Alone
<1>1. DOMAIN tasks = {} /\ Len(tasks) = 0
  BY DEF Init
<1> QED  BY <1>1 DEF Init, LiveRuns, Started, Evaluated, IdleJob, Actors

LEMMA StepAlone ==
  ASSUME Shape, LiveRuns, Started, Evaluated, Step("sweep")
  PROVE  LiveRuns' /\ Started' /\ Evaluated'
<1> DEFINE j == job["sweep"]
<1>j. "sweep" \in Actors /\ j \in Job /\ Placed(j)
  BY DEF Shape, Actors
<1>r. rows \in [Phases -> RowType]
  BY DEF Shape, TypeOK, RowType
<1>n. Len(tasks) \in Nat /\ DOMAIN tasks = 1..Len(tasks) /\ \A i \in DOMAIN tasks : tasks[i] \in Task
  BY DEF Shape, TypeOK
<1>1. CASE Evaluate("sweep")
  <2>1. rows' = rows /\ tasks' = tasks
    BY <1>1 DEF Evaluate
  <2>2. j.phase \in Phases /\ rows[j.phase].status = InProgress /\ ~ Alive(j.phase)
    BY <1>1, <1>j DEF Evaluate, Placed, Evaluated
  <2>3. job'["sweep"].phase = j.phase
    <3>1. CASE Goes("sweep", "dispatch")
      BY <1>j, <3>1 DEF Goes, Shape, Job
    <3>2. CASE ~ Goes("sweep", "dispatch")
      <4>1. PICK act, to : job' = [job EXCEPT !["sweep"].at = "close", !["sweep"].act = act,
                                              !["sweep"].to = to]
        <5>1. PICK v \in Verdicts(j.phase) :
                LET act == IF v.act = "goto" /\ gotos >= MaxGotos THEN "continue" ELSE v.act IN
                job' = [job EXCEPT !["sweep"].at = "close", !["sweep"].act = act,
                                   !["sweep"].to = IF act = "continue" THEN 0 ELSE v.to]
          BY <1>1, <3>2 DEF Evaluate
        <5> QED  BY <5>1
      <4> QED  BY <1>j, <4>1 DEF Shape, Job
    <3> QED  BY <3>1, <3>2
  <2>4. LiveRuns' /\ Started'
    BY <2>1 DEF LiveRuns, Started
  <2>5. Evaluated'
    BY <2>1, <2>2, <2>3 DEF Evaluated, Alive, In, TasksOf
  <2> QED  BY <2>4, <2>5
<1>2. CASE Close("sweep")
  <2>1. j.phase \in Phases /\ ~ Alive(j.phase)
    BY <1>2, <1>j DEF Close, Placed, Evaluated
  <2>2. \A q \in Phases : Calm(q)
    <3> SUFFICES ASSUME NEW q \in Phases PROVE Calm(q)
      OBVIOUS
    <3>1. CASE q # j.phase
      BY <1>2, <1>r, <3>1, CalmRows DEF Close
    <3>2. CASE q = j.phase
      <4>1. rows'[q].started \in {0, rows[q].started}
        BY <1>2, <1>r, <3>2 DEF Close, RowType
      <4> QED  BY <2>1, <3>2, <4>1, CalmRows
    <3> QED  BY <3>1, <3>2
  <2>3. job'["sweep"].at \in {"next", "reset", "tag"}
    <3>1. j.act \in {"continue", "goto", "retry"}
      BY <1>2, <1>j DEF Close, Placed, Job
    <3> QED  BY <1>2, <3>1, Whereabouts DEF Close
  <2> QED  BY <1>2, <2>2, <2>3, AloneKept DEF Close
<1>3. CASE Next_("sweep")
  <2>1. tasks' = tasks /\ \E to : rows' = SkipOver(j.phase, to)
    BY <1>3 DEF Next_
  <2>2. \A q \in Phases : Calm(q)
    <3> SUFFICES ASSUME NEW q \in Phases PROVE Calm(q)
      OBVIOUS
    <3>1. rows'[q] = rows[q] \/ (rows[q].status = Pending /\ rows'[q] = [rows[q] EXCEPT !.status = Skipped])
      BY <2>1 DEF SkipOver
    <3>2. rows[q] \in RowType
      BY <1>r
    <3>3. Pending # InProgress
      BY DEF Pending, InProgress
    <3> QED  BY <3>1, <3>2, <3>3, CalmRows DEF RowType
  <2>3. job'["sweep"].at \notin {"evaluate", "close"}
    BY <1>3, <1>j DEF Next_, Shape, Job
  <2> QED  BY <2>1, <2>2, <2>3, AloneKept
<1>4. CASE Start("sweep")
  <2>1. j.to \in Phases /\ rows' = [rows EXCEPT ![j.to] = Run(@, Now)]
    BY <1>4, <1>j DEF Start, Placed
  <2>2. \A q \in Phases : Calm(q)
    BY <1>r, <2>1, CalmRows
  <2>3. tasks' = tasks /\ job'["sweep"].at = "dispatch"
    BY <1>4, Whereabouts DEF Start
  <2> QED  BY <2>2, <2>3, AloneKept
<1>5. CASE Reset("sweep") \/ Rewind("sweep")
  <2>1. ResetTo(j.to, j.phase) /\ job'["sweep"].at \in {"tag", "claim"}
    BY <1>5, Whereabouts DEF Reset, Rewind
  <2> DEFINE hit(p) == /\ p >= j.to /\ p # j.phase
                       /\ rows[p].status \in {InProgress, Completed, Failed}
                       /\ p > j.to \/ In("live", TasksOf(p)) = {}
  <2>2. /\ rows' = [p \in Phases |-> IF hit(p) THEN [status |-> Pending, started |-> 0, claim |-> Nobody]
                                     ELSE rows[p]]
        /\ tasks' = [i \in DOMAIN tasks |->
                      IF hit(tasks[i].phase) /\ tasks[i].state = "live"
                      THEN [tasks[i] EXCEPT !.state = "lost"] ELSE tasks[i]]
    BY <2>1 DEF ResetTo
  <2>3. ASSUME NEW i \in DOMAIN tasks', tasks'[i].state = "live"
        PROVE  /\ rows'[tasks'[i].phase].status = InProgress
               /\ rows'[tasks'[i].phase].started <= i
    <3>1. i \in DOMAIN tasks /\ tasks[i] \in Task
      BY <1>n, <2>2, <2>3
    <3> DEFINE p == tasks[i].phase
    <3>2. tasks'[i] = tasks[i] /\ tasks[i].state = "live" /\ ~ hit(p) /\ p \in Phases
      BY <2>2, <2>3, <3>1 DEF Task
    <3>3. rows'[p] = rows[p]
      BY <2>2, <3>2
    <3> QED  BY <3>1, <3>2, <3>3 DEF LiveRuns
  <2>4. LiveRuns'
    BY <2>3 DEF LiveRuns
  <2>5. Len(tasks') = Len(tasks)
    <3>1. j.to \in Phases
      BY <1>5, <1>j DEF Placed, Reset, Rewind
    <3> QED  BY <2>1, <3>1, ResetShape
  <2>6. Started'
    <3> SUFFICES ASSUME NEW p \in Phases PROVE rows'[p].started <= Len(tasks) + 1
      BY <2>5 DEF Started
    <3>1. rows'[p].started = 0 \/ rows'[p] = rows[p]
      BY <2>2
    <3> QED  BY <3>1, <1>n DEF Started
  <2> QED  BY <2>1, <2>4, <2>6 DEF Evaluated
<1>6. CASE Tag("sweep")
  <2> DEFINE S == In("done", TasksOf(j.phase))
             m == Max(S)
  <2>1. ASSUME S # {} PROVE m \in DOMAIN tasks
    BY <2>1, TaskBounds DEF In, TasksOf
  <2>2. tasks' = IF S = {} THEN tasks ELSE [tasks EXCEPT ![m] = [tasks[m] EXCEPT !.tag = j.to]]
    BY <1>6 DEF Tag
  <2> HIDE DEF S, m
  <2>3. DOMAIN tasks' = DOMAIN tasks /\ \A i \in DOMAIN tasks : /\ tasks'[i].phase = tasks[i].phase
                                                                /\ tasks'[i].state = tasks[i].state
    BY <1>n, <2>1, <2>2 DEF Task
  <2>4. rows' = rows /\ job'["sweep"].at = "dispatch"
    BY <1>6, Whereabouts DEF Tag
  <2>5. Len(tasks') = Len(tasks)
    <3>1. tasks' \in Seq(Task)
      BY <1>6, StepShape, <1>j DEF Step, Shape, TypeOK
    <3> QED  BY <2>3, <3>1, <1>n
  <2> QED  BY <2>3, <2>4, <2>5 DEF LiveRuns, Started, Evaluated
<1>7. CASE Dispatch("sweep") \/ Check("sweep")
  <2>1. rows' = rows /\ tasks' = tasks
    BY <1>7 DEF Dispatch, Check
  <2>2. job'["sweep"].at \notin {"evaluate", "close"}
    BY <1>7, Whereabouts DEF Dispatch, Check
  <2> QED  BY <2>1, <2>2, AloneKept, SameRowsCalm
<1>8. CASE Claim("sweep")
  <2>1. j.to \in Phases /\ tasks' = tasks
    BY <1>8, <1>j DEF Claim, Placed
  <2>2. job'["sweep"].at \notin {"evaluate", "close"}
    BY <1>8, <1>j, Whereabouts DEF Claim, Shape, Job
  <2>3. ASSUME NEW q \in Phases PROVE Calm(q)
    <3>1. CASE rows'[q] = rows[q]
      BY <3>1, CalmRows
    <3>2. CASE q = j.to /\ rows'[q] = [rows[q] EXCEPT !.claim = "sweep"]
      BY <1>r, <3>2, CalmRows DEF RowType
    <3>3. CASE q = j.to /\ rows'[q] = [Healed(q) EXCEPT !.claim = "sweep"]
      <4>1. Healed(q) \in RowType
        BY HealedType
      <4>2. rows'[q].status = Healed(q).status /\ rows'[q].started = Healed(q).started
        BY <3>3, <4>1 DEF RowType
      <4> QED  BY <4>2, HealedCalm DEF Calm
    <3> QED  BY <1>8, <1>r, <2>1, <3>1, <3>2, <3>3 DEF Claim
  <2> QED  BY <2>1, <2>2, <2>3, AloneKept
<1>9. CASE Insert("sweep")
  <2> DEFINE new == [phase |-> j.to, state |-> "live",
                     tag |-> IF j.act \in {"goto", "retry"} THEN j.phase ELSE 0]
  <2>1. j.to \in Phases /\ tasks' = Append(tasks, new)
        /\ rows' = [rows EXCEPT ![j.to] = [Run(@, Now) EXCEPT !.claim = Nobody]]
    BY <1>9, <1>j DEF Insert, Placed
  <2>2. new.phase = j.to
    OBVIOUS
  <2> HIDE DEF new
  <2>3. /\ Len(tasks') = Len(tasks) + 1 /\ DOMAIN tasks' = DOMAIN tasks \cup {Now}
        /\ tasks'[Now] = new /\ \A i \in DOMAIN tasks : tasks'[i] = tasks[i]
    <3>1. tasks \in Seq(Task)
      BY DEF Shape, TypeOK
    <3> QED  BY <1>n, <2>1, <3>1 DEF Now
  <2>4. ASSUME NEW q \in Phases
        PROVE  /\ rows'[q].started <= Len(tasks) + 1
               /\ rows[q].status = InProgress => rows'[q].status = InProgress
                                                 /\ rows'[q].started = rows[q].started
               /\ q = j.to => rows'[q].status = InProgress
    <3>1. rows[q] \in RowType /\ rows[q].started <= Len(tasks) + 1 /\ Now \in Nat
      BY <1>r, <1>n DEF Started, Now
    <3>2. CASE q # j.to
      BY <2>1, <1>r, <3>1, <3>2
    <3>3. CASE q = j.to
      <4>1. rows'[q] = [Run(rows[q], Now) EXCEPT !.claim = Nobody] /\ Run(rows[q], Now) \in RowType
        BY <2>1, <1>r, <3>1, <3>3, RunType
      <4>2. rows'[q].status = InProgress /\ rows'[q].started = Run(rows[q], Now).started
        BY <4>1, <3>1, RunType DEF RowType
      <4>3. Run(rows[q], Now).started = IF rows[q].status = InProgress THEN rows[q].started ELSE Now
        BY DEF Run
      <4> QED  BY <1>n, <3>1, <4>2, <4>3 DEF Now
    <3> QED  BY <3>2, <3>3
  <2>5. LiveRuns'
    <3>1. ASSUME NEW i \in DOMAIN tasks', tasks'[i].state = "live"
          PROVE  /\ rows'[tasks'[i].phase].status = InProgress
                 /\ rows'[tasks'[i].phase].started <= i
      <4>1. CASE i \in DOMAIN tasks
        <5>1. tasks[i] \in Task /\ tasks'[i] = tasks[i]
          BY <1>n, <2>3, <4>1
        <5> QED  BY <2>4, <3>1, <4>1, <5>1 DEF LiveRuns, Task
      <4>2. CASE i = Now
        <5>1. tasks'[i].phase = j.to
          BY <2>2, <2>3, <4>2
        <5> QED  BY <2>1, <2>4, <4>2, <5>1 DEF Now
      <4> QED  BY <2>3, <4>1, <4>2
    <3> QED  BY <3>1 DEF LiveRuns
  <2>6. Started'
    <3>1. ASSUME NEW q \in Phases PROVE rows'[q].started <= Len(tasks) + 2
      <4>1. rows'[q].started <= Len(tasks) + 1
        BY <2>4
      <4>2. rows'[q].started \in Nat
        BY <1>9, <1>j, StepShape DEF Step, Shape, TypeOK
      <4> QED  BY <1>n, <4>1, <4>2
    <3> QED  BY <1>n, <2>3, <3>1 DEF Started
  <2>7. job'["sweep"].at \notin {"evaluate", "close"}
    BY <1>9, Whereabouts DEF Insert
  <2> QED  BY <2>5, <2>6, <2>7 DEF Evaluated
<1>10. CASE End("sweep")
  <2>1. \A q \in Phases : Calm(q)
    BY <1>10, <1>r, CalmRows DEF End, RowType
  <2>2. tasks' = tasks /\ job'["sweep"].at = "idle"
    BY <1>10, Whereabouts DEF End
  <2> QED  BY <2>1, <2>2, AloneKept
<1> QED  BY <1>1, <1>2, <1>3, <1>4, <1>5, <1>6, <1>7, <1>8, <1>9, <1>10 DEF Step

LEMMA LastCaseAlone ==
  ASSUME Shape, LiveRuns, Started, CaseInProgressComplete
  PROVE  LiveRuns' /\ Started' /\ Evaluated'
<1>r. rows \in [Phases -> RowType]
  BY DEF Shape, TypeOK, RowType
<1>n. Len(tasks) \in Nat /\ DOMAIN tasks = 1..Len(tasks) /\ \A i \in DOMAIN tasks : tasks[i] \in Task
  BY DEF Shape, TypeOK
<1>q. Quiet # {} => /\ Min(Quiet) \in Phases /\ rows[Min(Quiet)].status = InProgress
                    /\ In("live", Cycle(Min(Quiet))) = {}
  BY PhaseBounds DEF Quiet, With
<1>1. CASE CaseNeverStarted \/ NothingToDo
  <2>1. rows' = rows /\ tasks' = tasks
    BY <1>1 DEF CaseNeverStarted, NothingToDo
  <2>2. job'["sweep"].at \in {"grab", "idle"}
    BY <1>1 DEF CaseNeverStarted, NothingToDo, Grabs, Ends, IdleJob, Shape, Actors
  <2> QED  BY <2>1, <2>2, SameRowsCalm, AloneKept
<1>2. CASE CaseRetry
  <2> DEFINE p == Min(Quiet)
             lost == In("lost", Cycle(p))
  <2>1. rows' = rows /\ job'["sweep"].at = "idle" /\ Quiet # {}
        /\ tasks' = [i \in DOMAIN tasks |-> IF i \in lost THEN [tasks[i] EXCEPT !.state = "live"]
                                           ELSE tasks[i]]
    BY <1>2, Whereabouts DEF CaseRetry
  <2>2. Len(tasks') = Len(tasks)
    <3>1. DOMAIN tasks' = DOMAIN tasks /\ tasks' \in Seq(Task)
      BY <1>2, <2>1, LastCaseShape DEF CaseInProgressComplete
    <3> QED  BY <3>1, <1>n
  <2>3. ASSUME NEW i \in DOMAIN tasks', tasks'[i].state = "live"
        PROVE  /\ rows'[tasks'[i].phase].status = InProgress
               /\ rows'[tasks'[i].phase].started <= i
    <3>1. i \in DOMAIN tasks /\ tasks[i] \in Task
      BY <1>n, <2>1, <2>3
    <3>2. tasks'[i].phase = tasks[i].phase
      BY <2>1, <3>1 DEF Task
    <3>3. CASE i \notin lost
      <4>1. tasks[i].state = "live"
        BY <2>1, <2>3, <3>1, <3>3
      <4> QED  BY <2>1, <3>1, <3>2, <4>1 DEF LiveRuns
    <3>4. CASE i \in lost
      <4>1. tasks[i].phase = p /\ i >= rows[p].started
        BY <3>4 DEF In, Cycle, TasksOf
      <4>2. p \in Phases /\ rows[p].status = InProgress /\ rows[p].started \in Int
        BY <1>q, <1>r, <2>1 DEF RowType
      <4> QED  BY <1>n, <2>1, <3>1, <3>2, <4>1, <4>2
    <3> QED  BY <3>3, <3>4
  <2> QED  BY <2>1, <2>2, <2>3 DEF LiveRuns, Started, Evaluated
<1>3. CASE CaseComplete
  <2>0. PICK p : p = Min(Quiet)
    OBVIOUS
  <2>1. p \in Phases /\ rows[p].status = InProgress /\ In("live", Cycle(p)) = {}
    BY <1>3, <1>q, <2>0 DEF CaseComplete
  <2>2. rows' = [rows EXCEPT ![p].claim = "sweep"] /\ tasks' = tasks
        /\ job'["sweep"].at = "evaluate" /\ job'["sweep"].phase = p
    BY <1>3, <2>0 DEF CaseComplete, Shape, IdleJob, Actors
  <2>3. ~ Alive(p)
    <3> SUFFICES ASSUME NEW i \in TasksOf(p), tasks[i].state = "live" PROVE FALSE
      BY DEF Alive, In
    <3>1. i \in DOMAIN tasks /\ tasks[i].phase = p
      BY DEF TasksOf
    <3>2. rows[p].started <= i /\ rows[p].started \in Int /\ i \in Int
      BY <1>n, <1>r, <2>1, <3>1 DEF LiveRuns, RowType
    <3>3. i \in Cycle(p)
      BY <3>2 DEF Cycle
    <3> QED  BY <2>1, <3>3 DEF In
  <2>4. \A q \in Phases : rows'[q].status = rows[q].status /\ rows'[q].started = rows[q].started
    BY <1>r, <2>1, <2>2 DEF RowType
  <2>5. LiveRuns' /\ Started'
    <3>1. \A q \in Phases : Calm(q)
      BY <2>4, CalmRows
    <3> QED  BY <2>2, <3>1, LiveKept DEF Calm, Started
  <2>6. Evaluated'
    <3>1. ~ Alive(p)'
      BY <2>2, <2>3 DEF Alive, In, TasksOf
    <3> QED  BY <2>1, <2>2, <2>4, <3>1 DEF Evaluated
  <2> QED  BY <2>5, <2>6
<1> QED  BY <1>1, <1>2, <1>3 DEF CaseInProgressComplete

LEMMA SweepAlone ==
  ASSUME Shape, LiveRuns, Started, SweepHeal \/ SweepRelease \/ SweepLook \/ SweepGrab \/ SweepLast
  PROVE  LiveRuns' /\ Started' /\ Evaluated'
<1>r. rows \in [Phases -> RowType]
  BY DEF Shape, TypeOK, RowType
<1>n. Len(tasks) \in Nat /\ DOMAIN tasks = 1..Len(tasks) /\ \A i \in DOMAIN tasks : tasks[i] \in Task
  BY DEF Shape, TypeOK
<1>1. CASE SweepHeal
  <2>1. tasks' = tasks /\ job'["sweep"].at = "healed"
    BY <1>1, Whereabouts DEF SweepHeal
  <2>2. ASSUME NEW q \in Phases PROVE Calm(q)
    <3>1. rows'[q] = rows[q] \/ rows'[q] = Healed(q)
      BY <1>1 DEF SweepHeal
    <3> QED  BY <3>1, CalmRows, HealedCalm DEF Calm
  <2> QED  BY <2>1, <2>2, AloneKept
<1>2. CASE SweepRelease
  <2> DEFINE done == In("done", DOMAIN tasks)
             i == Max(done)
             p == tasks[i].phase
  <2>1. tasks' = tasks /\ job'["sweep"].at = "look"
    BY <1>2, Whereabouts DEF SweepRelease
  <2>2. ASSUME NEW q \in Phases PROVE Calm(q)
    <3>1. CASE rows'[q] = rows[q]
      BY <3>1, CalmRows
    <3>2. CASE rows'[q] # rows[q]
      <4>1. done # {} /\ q = p /\ rows[q].status = Pending
            /\ rows'[q] = Run(rows[q], IF rows[q].started = 0 THEN i ELSE rows[q].started)
        BY <1>2, <1>r, <3>2 DEF SweepRelease
      <4>2. i \in DOMAIN tasks
        BY <4>1, TaskBounds DEF In
      <4>3. CASE rows[q].started = 0
        <5>1. rows'[q] = Run(rows[q], i)
          BY <4>1, <4>3
        <5> QED  BY <4>2, <5>1, CalmRows
      <4>4. CASE rows[q].started # 0
        <5>1. rows'[q].started = rows[q].started /\ rows[q].status # InProgress
          BY <4>1, <4>4 DEF Run, Pending, InProgress
        <5> QED  BY <5>1, CalmRows
      <4> QED  BY <4>3, <4>4
    <3> QED  BY <3>1, <3>2
  <2> QED  BY <2>1, <2>2, AloneKept
<1>3. CASE SweepLook
  <2>1. CASE CaseStartFirst \/ CaseInProgressNoTasks
    <3>1. rows' = rows /\ tasks' = tasks
      BY <2>1 DEF CaseStartFirst, CaseInProgressNoTasks
    <3>2. job'["sweep"].at \in {"grab", "try", "idle"}
      BY <2>1 DEF CaseStartFirst, CaseInProgressNoTasks, Grabs, Ends, IdleJob, Shape, Actors
    <3> QED  BY <3>1, <3>2, SameRowsCalm, AloneKept
  <2>2. CASE CaseCompletedWithSuccessor
    <3>1. rows' = SkipOver(LastClosing, Successor) /\ tasks' = tasks
      BY <2>2, SuccessorIsPending
    <3>2. job'["sweep"].at \in {"grab", "idle"}
      BY <2>2, SuccessorIsPending DEF Grabs, Ends, IdleJob, Shape, Actors
    <3>3. ASSUME NEW q \in Phases PROVE Calm(q)
      <4>1. rows'[q] = rows[q] \/ (rows[q].status = Pending /\ rows'[q] = [rows[q] EXCEPT !.status = Skipped])
        BY <3>1 DEF SkipOver
      <4>2. rows[q] \in RowType
        BY <1>r
      <4>3. Pending # InProgress
        BY DEF Pending, InProgress
      <4> QED  BY <4>1, <4>2, <4>3, CalmRows DEF RowType
    <3> QED  BY <3>1, <3>2, <3>3, AloneKept
  <2>3. CASE CaseInProgressComplete
    BY <2>3, LastCaseAlone
  <2> QED  BY <1>3, <2>1, <2>2, <2>3 DEF SweepLook
<1>4. CASE SweepGrab
  <2> DEFINE p == job["sweep"].to
  <2>1. p \in Phases /\ tasks' = tasks
    BY <1>4 DEF SweepGrab, Shape, Placed, Actors
  <2>2. job'["sweep"].at \in {"last", "idle", "check"}
    BY <1>4, Whereabouts DEF SweepGrab
  <2>3. ASSUME NEW q \in Phases PROVE Calm(q)
    <3>1. CASE rows'[q] = rows[q]
      BY <3>1, CalmRows
    <3>2. CASE rows'[q] # rows[q] /\ TasksOf(p) # {}
               /\ rows' = [rows EXCEPT ![p] = [Run(@, Min(TasksOf(p))) EXCEPT !.claim = Nobody]]
      <4>1. Min(TasksOf(p)) \in DOMAIN tasks
        BY <3>2, TaskBounds DEF TasksOf
      <4>2. q = p /\ rows'[q] = [Run(rows[q], Min(TasksOf(p))) EXCEPT !.claim = Nobody]
        BY <1>r, <2>1, <3>2
      <4> QED  BY <4>1, <4>2, CalmRows
    <3>3. CASE rows' = [rows EXCEPT ![p].claim = "sweep"]
      BY <1>r, <2>1, <3>3, CalmRows DEF RowType
    <3> QED  BY <1>4, <3>1, <3>2, <3>3 DEF SweepGrab
  <2> QED  BY <2>1, <2>2, <2>3, AloneKept
<1>5. CASE SweepLast
  BY <1>5, LastCaseAlone DEF SweepLast
<1> QED  BY <1>1, <1>2, <1>3, <1>4, <1>5

LEMMA NextAlone == Shape /\ Alone /\ [Next]_vars => Alone'
<1> SUFFICES ASSUME Shape, Alone, [Next]_vars, gates' = 0
             PROVE  job'["gate"] = IdleJob /\ LiveRuns' /\ Started' /\ Evaluated'
  BY DEF Alone
<1>a. /\ job'["gate"] = IdleJob /\ LiveRuns /\ Started /\ Evaluated
      /\ \/ Sweep \/ Poll \/ Crash \/ UNCHANGED vars
         \/ \E i \in DOMAIN tasks : Finish(i, FALSE)
  BY AloneSteps
<1>n. Len(tasks) \in Nat /\ DOMAIN tasks = 1..Len(tasks) /\ \A i \in DOMAIN tasks : tasks[i] \in Task
  BY DEF Shape, TypeOK
<1>1. CASE Sweep
  BY <1>a, <1>1, SweepAlone, StepAlone DEF Sweep
<1>2. CASE Poll \/ UNCHANGED vars
  <2>1. rows' = rows /\ tasks' = tasks /\ job' = job
    BY <1>2 DEF Poll, vars
  <2> QED  BY <1>a, <2>1 DEF LiveRuns, Started, Evaluated, Alive, In, TasksOf
<1>3. CASE Crash
  <2>1. rows' = rows /\ tasks' = tasks /\ job'["sweep"].at = "idle"
    BY <1>3 DEF Crash, IdleJob, Actors
  <2> QED  BY <1>a, <2>1 DEF LiveRuns, Started, Evaluated
<1>4. ASSUME NEW i \in DOMAIN tasks, Finish(i, FALSE)
      PROVE  LiveRuns' /\ Started' /\ Evaluated'
  <2>1. rows' = rows /\ job' = job /\ tasks' = [tasks EXCEPT ![i].state = "done"]
    BY <1>4 DEF Finish
  <2>2. DOMAIN tasks' = DOMAIN tasks
        /\ \A k \in DOMAIN tasks : /\ tasks'[k].phase = tasks[k].phase
                                   /\ tasks'[k].state = "live" => tasks[k].state = "live"
    BY <1>n, <2>1 DEF Task
  <2>3. Len(tasks') = Len(tasks)
    <3>1. tasks' \in Seq(Task)
      BY NextShape DEF Shape, TypeOK
    <3> QED  BY <2>2, <3>1, <1>n
  <2>4. LiveRuns' /\ Started'
    BY <1>a, <2>1, <2>2, <2>3 DEF LiveRuns, Started
  <2>5. \A p \in Phases : ~ Alive(p) => ~ Alive(p)'
    BY <2>2 DEF Alive, In, TasksOf
  <2>6. Evaluated'
    <3>1. job["sweep"].at \in {"evaluate", "close"} => job["sweep"].phase \in Phases
      BY DEF Shape, Placed, Actors
    <3> QED  BY <1>a, <2>1, <2>5, <3>1 DEF Evaluated
  <2> QED  BY <2>4, <2>6
<1> QED  BY <1>a, <1>1, <1>2, <1>3, <1>4

-----------------------------------------------------------------------------
(* What the sweep charges to a retry budget. *)

Count(p) == Cardinality(In("done", TasksOf(p)))

\* The latest task of p, if there is one, has not reported.
LatestOpen(p) ==
  \A i \in TasksOf(p) : (\A k \in TasksOf(p) : k <= i) => tasks[i].state # "done"

\* The sweep has charged a retry of p and has yet to create its task; nobody
\* else can take the claim.
MidRetry(p) ==
  LET j == job["sweep"] IN
  /\ j.at \in {"close", "tag", "dispatch", "claim", "check", "insert"}
  /\ j.act = "retry" /\ j.phase = p /\ j.to = p /\ ~ Alive(p)
  /\ j.at \in {"tag", "dispatch", "claim"} => rows[p].claim = Nobody

\* As many retries as results: then the next one is on its way or at work.
Charged(p) ==
  /\ retries[p] <= Count(p) + crashes
  /\ retries[p] = Count(p) + crashes => MidRetry(p) \/ LatestOpen(p)

Judges ==
  LET p == job["sweep"].phase IN
  job["sweep"].at = "evaluate" => retries[p] < Count(p) + crashes

Paid == gates = 0 => Judges /\ \A p \in Phases : Charged(p)

LEMMA Numbers ==
  ASSUME Shape, NEW p \in Phases
  PROVE  Count(p) \in Nat /\ retries[p] \in Nat /\ crashes \in Nat
<1>1. IsFiniteSet(In("done", TasksOf(p)))
  BY TaskBounds DEF In, TasksOf
<1> QED  BY <1>1, FS_CardinalityType, Budgets, Bounds DEF Count, Shape, TypeOK

\* What a step of the sweep does to the tasks: it changes neither a task's phase
\* nor whether it has reported, and a task it creates is live.
Unreported ==
  /\ DOMAIN tasks \subseteq DOMAIN tasks'
  /\ \A i \in DOMAIN tasks : /\ tasks'[i].phase = tasks[i].phase
                             /\ tasks'[i].state = "done" <=> tasks[i].state = "done"
  /\ \A i \in DOMAIN tasks' \ DOMAIN tasks :
       tasks'[i].state = "live" /\ \A k \in DOMAIN tasks : ~ (i <= k)

LEMMA SweepUnreported == ASSUME Shape, Sweep PROVE Unreported
<1>n. Len(tasks) \in Nat /\ DOMAIN tasks = 1..Len(tasks) /\ \A i \in DOMAIN tasks : tasks[i] \in Task
  BY DEF Shape, TypeOK
<1>s. "sweep" \in Actors /\ job["sweep"] \in Job /\ Placed(job["sweep"])
  BY DEF Shape, Actors
<1>1. ASSUME tasks' = tasks PROVE Unreported
  BY <1>1 DEF Unreported
<1>2. ASSUME DOMAIN tasks' = DOMAIN tasks,
             \A i \in DOMAIN tasks :
               \/ tasks'[i] = tasks[i]
               \/ tasks'[i] = [tasks[i] EXCEPT !.state = "lost"] /\ tasks[i].state = "live"
               \/ tasks'[i] = [tasks[i] EXCEPT !.state = "live"] /\ tasks[i].state = "lost"
               \/ \E t : tasks'[i] = [tasks[i] EXCEPT !.tag = t]
      PROVE  Unreported
  <2>1. ASSUME NEW i \in DOMAIN tasks
        PROVE  /\ tasks'[i].phase = tasks[i].phase
               /\ tasks'[i].state = "done" <=> tasks[i].state = "done"
    <3>1. tasks[i] \in Task
      BY <1>n
    <3> QED  BY <1>2, <3>1 DEF Task
  <2> QED  BY <1>2, <2>1 DEF Unreported
<1>3. CASE SweepHeal \/ SweepRelease \/ SweepGrab
  BY <1>1, <1>3 DEF SweepHeal, SweepRelease, SweepGrab
<1>4. CASE CaseInProgressComplete
  <2>1. CASE CaseRetry
    BY <1>2, <2>1 DEF CaseRetry, In
  <2>2. CASE ~ CaseRetry
    BY <1>1, <1>4, <2>2 DEF CaseInProgressComplete, CaseNeverStarted, CaseComplete, NothingToDo
  <2> QED  BY <2>1, <2>2
<1>5. CASE SweepLook \/ SweepLast
  BY <1>1, <1>4, <1>5 DEF SweepLook, SweepLast, CaseStartFirst, CaseInProgressNoTasks,
     CaseCompletedWithSuccessor
<1>6. CASE Step("sweep")
  <2>1. CASE Reset("sweep") \/ Rewind("sweep")
    BY <1>2, <2>1 DEF Reset, Rewind, ResetTo
  <2>2. CASE Tag("sweep")
    <3> DEFINE S == In("done", TasksOf(job["sweep"].phase))
               m == Max(S)
    <3>1. S # {} => m \in DOMAIN tasks
      BY TaskBounds DEF In, TasksOf
    <3>2. tasks' = IF S = {} THEN tasks ELSE [tasks EXCEPT ![m] = [tasks[m] EXCEPT !.tag = job["sweep"].to]]
      BY <2>2 DEF Tag
    <3> HIDE DEF S, m
    <3>3. \A i \in DOMAIN tasks : \/ tasks'[i] = tasks[i]
                                  \/ tasks'[i] = [tasks[i] EXCEPT !.tag = job["sweep"].to]
      BY <3>1, <3>2
    <3>4. DOMAIN tasks' = DOMAIN tasks
      BY <3>2
    <3> QED  BY <1>2, <3>3, <3>4
  <2>3. CASE Insert("sweep")
    <3> DEFINE j == job["sweep"]
               new == [phase |-> j.to, state |-> "live",
                       tag |-> IF j.act \in {"goto", "retry"} THEN j.phase ELSE 0]
    <3>1. tasks' = Append(tasks, new) /\ tasks \in Seq(Task)
      BY <2>3 DEF Insert, Shape, TypeOK
    <3>2. new.state = "live"
      OBVIOUS
    <3> HIDE DEF new
    <3>3. /\ DOMAIN tasks' = DOMAIN tasks \cup {Now} /\ tasks'[Now] = new
          /\ \A i \in DOMAIN tasks : tasks'[i] = tasks[i]
      BY <1>n, <3>1 DEF Now
    <3>4. \A k \in DOMAIN tasks : ~ (Now <= k)
      BY <1>n DEF Now
    <3> QED  BY <3>2, <3>3, <3>4 DEF Unreported
  <2>4. CASE ~ (Reset("sweep") \/ Rewind("sweep") \/ Tag("sweep") \/ Insert("sweep"))
    BY <1>1, <1>6, <2>4 DEF Step, Evaluate, Close, Next_, Start, Dispatch, Claim, Check, End
  <2> QED  BY <2>1, <2>2, <2>3, <2>4
<1> QED  BY <1>3, <1>5, <1>6, SweepShape DEF Sweep

LEMMA UnreportedKeeps ==
  ASSUME Shape, Unreported, NEW p \in Phases
  PROVE  /\ Count(p)' = Count(p)
         /\ LatestOpen(p) => LatestOpen(p)'
<1>1. In("done", TasksOf(p))' = In("done", TasksOf(p))
  BY DEF Unreported, In, TasksOf
<1>2. ASSUME LatestOpen(p), NEW i \in TasksOf(p)', \A k \in TasksOf(p)' : k <= i
      PROVE  tasks'[i].state # "done"
  <2>1. TasksOf(p) \subseteq TasksOf(p)'
    BY DEF Unreported, TasksOf
  <2>2. CASE i \in DOMAIN tasks
    <3>1. i \in TasksOf(p) /\ \A k \in TasksOf(p) : k <= i
      BY <1>2, <2>1, <2>2 DEF Unreported, TasksOf
    <3> QED  BY <1>2, <2>2, <3>1 DEF LatestOpen, Unreported
  <2>3. CASE i \notin DOMAIN tasks
    BY <1>2, <2>3 DEF Unreported, TasksOf
  <2> QED  BY <2>2, <2>3
<1>3. LatestOpen(p) => LatestOpen(p)'
  BY <1>2 DEF LatestOpen
<1> QED  BY <1>1, <1>3 DEF Count

\* A step of the sweep that charges nothing.
LEMMA ChargedKept ==
  ASSUME Shape, Unreported, NEW p \in Phases, Charged(p),
         retries'[p] = retries[p], crashes' = crashes,
         MidRetry(p) => MidRetry(p)' \/ LatestOpen(p)'
  PROVE  Charged(p)'
BY UnreportedKeeps DEF Charged

LEMMA InitPaid == Init => Paid
<1> SUFFICES ASSUME Init PROVE Paid
  OBVIOUS
<1>1. \A p \in Phases : TasksOf(p) = {} /\ Count(p) = 0
  BY FS_EmptySet DEF Init, TasksOf, In, Count
<1>2. \A p \in Phases : Charged(p)
  BY <1>1 DEF Init, Charged, LatestOpen
<1>3. Judges
  BY DEF Init, Judges, IdleJob, Actors
<1> QED  BY <1>2, <1>3 DEF Paid

LEMMA StepPaid ==
  ASSUME Shape, Evaluated, Judges, \A p \in Phases : Charged(p), Step("sweep")
  PROVE  Judges' /\ \A p \in Phases : Charged(p)'
<1> DEFINE j == job["sweep"]
<1>j. "sweep" \in Actors /\ j \in Job /\ Placed(j) /\ job \in [Actors -> Job]
  BY DEF Shape, Actors
<1>r. rows \in [Phases -> RowType]
  BY DEF Shape, TypeOK, RowType
<1>c. crashes' = crashes
  BY DEF Step, Evaluate, Close, Next_, Start, Reset, Tag, Dispatch, Rewind, Claim, Check, Insert, End
<1>u. Unreported
  BY SweepUnreported DEF Sweep
<1>k. ASSUME retries' = retries, \A p \in Phases : MidRetry(p) => MidRetry(p)' \/ LatestOpen(p)'
      PROVE  \A p \in Phases : Charged(p)'
  BY <1>c, <1>u, <1>k, ChargedKept
<1>m. ASSUME j.at \notin {"close", "tag", "dispatch", "claim", "check", "insert"}
      PROVE  \A p \in Phases : MidRetry(p) => MidRetry(p)' \/ LatestOpen(p)'
  BY <1>m DEF MidRetry
<1>g. ASSUME NEW at, Goes("sweep", at), at # "evaluate"
      PROVE  /\ job'["sweep"].at = at /\ job'["sweep"].act = j.act
             /\ job'["sweep"].phase = j.phase /\ job'["sweep"].to = j.to
             /\ Judges'
  <2>1. job' = [job EXCEPT !["sweep"] = [j EXCEPT !.at = at]]
    BY <1>g DEF Goes
  <2>2. job'["sweep"] = [j EXCEPT !.at = at]
    BY <1>j, <2>1
  <2> QED  BY <1>g, <1>j, <2>2 DEF Job, Judges
<1>1. CASE Evaluate("sweep")
  <2>p. j.phase \in Phases
    BY <1>1, <1>j DEF Evaluate, Placed
  <2>1. CASE Goes("sweep", "dispatch") /\ retries' = retries
    BY <1>1, <1>g, <1>k, <1>m, <2>1 DEF Evaluate
  <2>2. CASE ~ (Goes("sweep", "dispatch") /\ retries' = retries)
    <3>1. PICK v \in Verdicts(j.phase) :
            LET act == IF v.act = "goto" /\ gotos >= MaxGotos THEN "continue" ELSE v.act IN
            /\ job' = [job EXCEPT !["sweep"].at = "close", !["sweep"].act = act,
                                  !["sweep"].to = IF act = "continue" THEN 0 ELSE v.to]
            /\ retries' = [retries EXCEPT ![j.phase] = @ + IF v.act = "retry" THEN 1 ELSE 0]
      BY <1>1, <2>2 DEF Evaluate
    <3>2. rows' = rows /\ tasks' = tasks
      BY <1>1 DEF Evaluate
    <3>3. job'["sweep"].at = "close" /\ job'["sweep"].phase = j.phase
      BY <1>j, <3>1 DEF Job
    <3>4. Judges'
      BY <3>3 DEF Judges
    <3>5. ASSUME NEW p \in Phases PROVE Charged(p)'
      <4>r. retries \in [Phases -> 0..MaxRetries]
        BY DEF Shape, TypeOK
      <4>1. CASE p # j.phase \/ v.act # "retry"
        <5>1. retries'[p] = retries[p]
          <6>1. CASE p # j.phase
            BY <3>1, <4>r, <6>1
          <6>2. CASE p = j.phase
            <7>1. retries'[p] = retries[p] + 0
              BY <3>1, <4>1, <4>r, <6>2
            <7> QED  BY <7>1, Numbers
          <6> QED  BY <6>1, <6>2
        <5> QED  BY <1>1, <1>c, <1>m, <1>u, <5>1, ChargedKept DEF Evaluate
      <4>2. CASE p = j.phase /\ v.act = "retry"
        <5>1. retries'[p] = retries[p] + 1
          BY <3>1, <4>2, <4>r
        <5>2. retries[p] < Count(p) + crashes
          BY <1>1, <4>2 DEF Judges, Evaluate
        <5>3. retries'[p] <= Count(p) + crashes
          BY <5>1, <5>2, Numbers
        <5>4. MidRetry(p)'
          <6>1. v.to = p
            BY <4>2 DEF Verdicts
          <6>2. job'["sweep"].act = "retry" /\ job'["sweep"].to = p
            BY <1>j, <3>1, <4>2, <6>1 DEF Job
          <6>3. ~ Alive(p)'
            BY <1>1, <3>2, <4>2 DEF Evaluate, Evaluated, Alive, In, TasksOf
          <6> QED  BY <3>3, <4>2, <6>2, <6>3 DEF MidRetry
        <5>5. Count(p)' = Count(p)
          BY <1>u, UnreportedKeeps
        <5> QED  BY <1>c, <5>3, <5>4, <5>5 DEF Charged
      <4> QED  BY <4>1, <4>2
    <3> QED  BY <3>4, <3>5
  <2> QED  BY <2>1, <2>2
<1>2. CASE Close("sweep")
  <2>1. retries' = retries /\ tasks' = tasks
    BY <1>2 DEF Close
  <2>2. ASSUME NEW p \in Phases, MidRetry(p) PROVE MidRetry(p)'
    <3>1. j.act = "retry" /\ j.phase = p /\ j.to = p /\ ~ Alive(p)
      BY <2>2 DEF MidRetry
    <3>2. rows[p].status = InProgress
      BY <1>2, <3>1 DEF Close, Evaluated
    <3>3. CanMove(rows[p].status, Pending)
      BY <3>2 DEF CanMove, ValidTransitions, PhaseStatus, InProgress, Pending, Completed, Failed, Skipped
    <3>4. Goes("sweep", "tag") /\ rows'[p].claim = Nobody
      BY <1>2, <1>r, <3>1, <3>3 DEF Close, Pending, Completed
    <3>5. ~ Alive(p)'
      BY <2>1, <3>1 DEF Alive, In, TasksOf
    <3> QED  BY <1>g, <3>1, <3>4, <3>5 DEF MidRetry
  <2>3. Judges'
    <3>1. j.act \in {"continue", "goto", "retry"}
      BY <1>2, <1>j DEF Close, Placed, Job
    <3> QED  BY <1>2, <1>g, <3>1 DEF Close
  <2> QED  BY <1>k, <2>1, <2>2, <2>3
<1>3. CASE Next_("sweep") \/ Start("sweep") \/ Reset("sweep") \/ Rewind("sweep") \/ End("sweep")
  <2>1. retries' = retries /\ j.at \notin {"close", "tag", "dispatch", "claim", "check", "insert"}
    BY <1>3 DEF Next_, Start, Reset, Rewind, End
  <2>2. job'["sweep"].at # "evaluate"
    <3>1. CASE Next_("sweep")
      BY <1>j, <3>1 DEF Next_, Job
    <3>2. CASE ~ Next_("sweep")
      BY <1>3, <3>2, Whereabouts DEF Start, Reset, Rewind, End
    <3> QED  BY <3>1, <3>2
  <2> QED  BY <1>k, <1>m, <2>1, <2>2 DEF Judges
<1>4. CASE Tag("sweep") \/ Dispatch("sweep") \/ Check("sweep")
  <2>1. retries' = retries /\ rows' = rows
    BY <1>4 DEF Tag, Dispatch, Check
  <2>2. ASSUME NEW p \in Phases, MidRetry(p) PROVE MidRetry(p)'
    <3>1. j.act = "retry" /\ j.phase = p /\ j.to = p /\ ~ Alive(p) /\ j.to # 0
          /\ (j.at \in {"tag", "dispatch", "claim"} => rows[p].claim = Nobody)
      BY <2>2, PhaseNumbers DEF MidRetry
    <3>2. ~ Alive(p)'
      <4>1. CASE tasks' = tasks
        BY <3>1, <4>1 DEF Alive, In, TasksOf
      <4>2. CASE tasks' # tasks
        <5> DEFINE S == In("done", TasksOf(j.phase))
        <5>0. S # {} /\ tasks' = [tasks EXCEPT ![Max(S)] = [tasks[Max(S)] EXCEPT !.tag = j.to]]
          BY <1>4, <4>2 DEF Tag, Dispatch, Check
        <5>1. Max(S) \in DOMAIN tasks
          BY <5>0, TaskBounds DEF In, TasksOf
        <5> HIDE DEF S
        <5>2. tasks[Max(S)] \in Task
          BY <5>1 DEF Shape, TypeOK
        <5>3. DOMAIN tasks' = DOMAIN tasks
              /\ \A i \in DOMAIN tasks : tasks'[i].phase = tasks[i].phase /\ tasks'[i].state = tasks[i].state
          BY <5>0, <5>1, <5>2 DEF Task
        <5> QED  BY <3>1, <5>3 DEF Alive, In, TasksOf
      <4> QED  BY <4>1, <4>2
    <3>3. CASE Tag("sweep")
      BY <1>g, <2>1, <3>1, <3>2, <3>3 DEF MidRetry, Tag
    <3>4. CASE Dispatch("sweep")
      <4>1. Goes("sweep", "claim")
        BY <3>1, <3>4 DEF Dispatch
      <4> QED  BY <1>g, <2>1, <3>1, <3>2, <3>4, <4>1 DEF MidRetry, Dispatch
    <3>5. CASE Check("sweep")
      <4>1. Goes("sweep", "insert")
        BY <3>1, <3>5 DEF Check, Alive
      <4> QED  BY <1>g, <2>1, <3>1, <3>2, <4>1 DEF MidRetry
    <3> QED  BY <1>4, <3>3, <3>4, <3>5
  <2>3. Judges'
    <3>1. job'["sweep"].at # "evaluate"
      BY <1>4, Whereabouts DEF Tag, Dispatch, Check
    <3> QED  BY <3>1 DEF Judges
  <2> QED  BY <1>k, <2>1, <2>2, <2>3
<1>5. CASE Claim("sweep")
  <2>1. retries' = retries /\ tasks' = tasks
    BY <1>5 DEF Claim
  <2>2. ASSUME NEW p \in Phases, MidRetry(p) PROVE MidRetry(p)'
    <3>1. j.act = "retry" /\ j.phase = p /\ j.to = p /\ ~ Alive(p) /\ rows[p].claim = Nobody
      BY <1>5, <2>2 DEF MidRetry, Claim
    <3>2. Goes("sweep", "check")
      BY <1>5, <3>1 DEF Claim
    <3>3. ~ Alive(p)'
      BY <2>1, <3>1 DEF Alive, In, TasksOf
    <3> QED  BY <1>g, <3>1, <3>2, <3>3 DEF MidRetry
  <2>3. Judges'
    <3>1. job'["sweep"].at # "evaluate"
      BY <1>5, <1>j, Whereabouts DEF Claim, Job
    <3> QED  BY <3>1 DEF Judges
  <2> QED  BY <1>k, <2>1, <2>2, <2>3
<1>6. CASE Insert("sweep")
  <2>1. retries' = retries
    BY <1>6 DEF Insert
  <2>2. ASSUME NEW p \in Phases, MidRetry(p) PROVE LatestOpen(p)'
    <3>1. j.to = p
      BY <2>2 DEF MidRetry
    <3>2. tasks' = Append(tasks, [phase |-> p, state |-> "live",
                                  tag |-> IF j.act \in {"goto", "retry"} THEN j.phase ELSE 0])
          /\ tasks \in Seq(Task)
      BY <1>6, <3>1 DEF Insert, Shape, TypeOK
    <3>3. Now \in TasksOf(p)' /\ tasks'[Now].state = "live"
      BY <3>2 DEF Now, TasksOf
    <3>4. Now \notin DOMAIN tasks
      BY <3>2 DEF Now
    <3>5. ASSUME NEW i \in TasksOf(p)', \A k \in TasksOf(p)' : k <= i PROVE tasks'[i].state # "done"
      <4>1. Now <= i
        BY <3>3, <3>5
      <4>2. i \notin DOMAIN tasks
        BY <1>u, <3>2, <4>1 DEF Now
      <4>3. i = Now
        BY <3>2, <4>2 DEF Now, TasksOf
      <4> QED  BY <3>3, <4>3
    <3> QED  BY <3>5 DEF LatestOpen
  <2>3. Judges'
    <3>1. job'["sweep"].at # "evaluate"
      BY <1>6, Whereabouts DEF Insert
    <3> QED  BY <3>1 DEF Judges
  <2> QED  BY <1>k, <2>1, <2>2, <2>3
<1> QED  BY <1>1, <1>2, <1>3, <1>4, <1>5, <1>6 DEF Step

\* An evaluation starts only from a result that has not been charged.
LEMMA SweepPaid ==
  ASSUME Shape, LiveRuns, Judges, \A p \in Phases : Charged(p),
         SweepHeal \/ SweepRelease \/ SweepLook \/ SweepGrab \/ SweepLast
  PROVE  Judges' /\ \A p \in Phases : Charged(p)'
<1>1. retries' = retries /\ crashes' = crashes
  BY DEF SweepHeal, SweepRelease, SweepLook, SweepGrab, SweepLast
<1>2. Unreported
  BY SweepUnreported DEF Sweep
<1>3. job["sweep"].at \in {"idle", "healed", "look", "grab", "try", "last"}
  BY DEF SweepHeal, SweepRelease, SweepLook, SweepGrab, SweepLast, IdleJob
<1>4. \A p \in Phases : Charged(p)'
  BY <1>1, <1>2, <1>3, ChargedKept DEF MidRetry
<1>5. CASE job'["sweep"].at # "evaluate"
  BY <1>4, <1>5 DEF Judges
<1>6. CASE job'["sweep"].at = "evaluate"
  <2>1. CaseComplete
    BY <1>6, Whereabouts DEF SweepHeal, SweepRelease, SweepLook, SweepGrab, SweepLast, CaseStartFirst,
       CaseInProgressNoTasks, CaseCompletedWithSuccessor, CaseInProgressComplete, CaseNeverStarted,
       CaseRetry, NothingToDo, Grabs, Shape, Actors
  <2>2. PICK p : p = Min(Quiet)
    OBVIOUS
  <2>3. /\ p \in Phases /\ rows[p].status = InProgress /\ In("live", Cycle(p)) = {}
        /\ Cycle(p) # {} /\ In("lost", Cycle(p)) = {}
    BY <2>1, <2>2, PhaseBounds DEF CaseComplete, Quiet, With
  <2>4. job'["sweep"].phase = p
    BY <2>1, <2>2 DEF CaseComplete, Shape, Actors, IdleJob
  <2>5. ~ LatestOpen(p)
    <3> DEFINE m == Max(TasksOf(p))
    <3>1. m \in TasksOf(p) /\ \A k \in TasksOf(p) : m >= k
      BY <2>3, TaskBounds DEF Cycle, TasksOf
    <3>2. m \in DOMAIN tasks /\ \A k \in TasksOf(p) : k \in Nat
      BY <3>1, TaskBounds DEF TasksOf
    <3> HIDE DEF m
    <3>3. PICK k \in Cycle(p) : TRUE
      BY <2>3
    <3>4. rows[p].started \in Nat
      BY <2>3 DEF Shape, TypeOK
    <3>5. m >= rows[p].started
      BY <3>1, <3>2, <3>3, <3>4 DEF Cycle
    <3>6. m \in Cycle(p) /\ tasks[m] \in Task
      BY <3>1, <3>2, <3>5 DEF Cycle, Shape, TypeOK
    <3>7. tasks[m].state = "done"
      BY <2>3, <3>6 DEF In, Task
    <3>8. \A k1 \in TasksOf(p) : k1 <= m
      BY <3>1, <3>2
    <3> QED  BY <3>1, <3>7, <3>8 DEF LatestOpen
  <2>6. ~ MidRetry(p)
    BY <1>3 DEF MidRetry
  <2>7. retries[p] < Count(p) + crashes
    <3>1. retries[p] <= Count(p) + crashes /\ retries[p] # Count(p) + crashes
      BY <2>3, <2>5, <2>6 DEF Charged
    <3> QED  BY <2>3, <3>1, Numbers
  <2>8. Count(p)' = Count(p)
    BY <1>2, <2>3, UnreportedKeeps
  <2> QED  BY <1>1, <1>4, <2>4, <2>7, <2>8 DEF Judges
<1> QED  BY <1>5, <1>6

LEMMA NextPaid == Shape /\ Alone /\ Paid /\ [Next]_vars => Paid'
<1> SUFFICES ASSUME Shape, Alone, Paid, [Next]_vars, gates' = 0
             PROVE  Judges' /\ \A p \in Phases : Charged(p)'
  BY DEF Paid
<1>a. /\ gates = 0 /\ LiveRuns /\ Evaluated
      /\ \/ Sweep \/ Poll \/ Crash \/ UNCHANGED vars
         \/ \E i \in DOMAIN tasks : Finish(i, FALSE)
  BY AloneSteps
<1>p. Judges /\ \A p \in Phases : Charged(p)
  BY <1>a DEF Paid
<1>1. CASE Sweep
  BY <1>1, <1>a, <1>p, SweepPaid, StepPaid DEF Sweep
<1>2. CASE Poll \/ UNCHANGED vars
  <2>1. rows' = rows /\ tasks' = tasks /\ job' = job /\ retries' = retries /\ crashes' = crashes
    BY <1>2 DEF Poll, vars
  <2>2. Judges'
    BY <1>p, <2>1 DEF Judges, Count, In, TasksOf
  <2>3. \A p \in Phases : Charged(p)'
    BY <1>p, <2>1 DEF Charged, MidRetry, LatestOpen, Alive, Count, In, TasksOf
  <2> QED  BY <2>2, <2>3
<1>3. CASE Crash
  <2>1. tasks' = tasks /\ retries' = retries /\ crashes' = crashes + 1
        /\ job'["sweep"].at = "idle"
    BY <1>3 DEF Crash, IdleJob, Actors
  <2>2. ASSUME NEW p \in Phases PROVE Charged(p)'
    <3>1. Count(p)' = Count(p)
      BY <2>1 DEF Count, In, TasksOf
    <3>2. retries[p] <= Count(p) + crashes
      BY <1>p DEF Charged
    <3>3. retries'[p] < Count(p)' + crashes'
      BY <2>1, <3>1, <3>2, Numbers
    <3> QED  BY <2>1, <3>1, <3>3, Numbers DEF Charged
  <2> QED  BY <2>1, <2>2 DEF Judges
<1>4. ASSUME NEW i \in DOMAIN tasks, Finish(i, FALSE)
      PROVE  Judges' /\ \A p \in Phases : Charged(p)'
  <2>1. /\ rows' = rows /\ job' = job /\ retries' = retries /\ crashes' = crashes
        /\ tasks' = [tasks EXCEPT ![i].state = "done"] /\ tasks[i].state = "live"
    BY <1>4 DEF Finish
  <2>t. \A k \in DOMAIN tasks : tasks[k] \in Task
    BY DEF Shape, TypeOK
  <2>2. DOMAIN tasks' = DOMAIN tasks
        /\ \A k \in DOMAIN tasks : /\ tasks'[k].phase = tasks[k].phase
                                   /\ tasks'[k].state = IF k = i THEN "done" ELSE tasks[k].state
    BY <2>1, <2>t DEF Task
  <2>3. ASSUME NEW p \in Phases, p # tasks[i].phase
        PROVE  /\ Count(p)' = Count(p) /\ LatestOpen(p)' = LatestOpen(p) /\ MidRetry(p)' = MidRetry(p)
    <3>1. TasksOf(p)' = TasksOf(p) /\ \A k \in TasksOf(p) : tasks'[k].state = tasks[k].state
      BY <2>2, <2>3 DEF TasksOf
    <3>2. Count(p)' = Count(p)
      BY <3>1 DEF Count, In
    <3>3. LatestOpen(p)' = LatestOpen(p)
      BY <3>1 DEF LatestOpen
    <3>4. Alive(p)' = Alive(p)
      BY <3>1 DEF Alive, In
    <3> QED  BY <2>1, <3>2, <3>3, <3>4 DEF MidRetry
  <2>4. ASSUME NEW p \in Phases, p = tasks[i].phase
        PROVE  Count(p)' = Count(p) + 1
    <3>1. In("done", TasksOf(p))' = In("done", TasksOf(p)) \cup {i}
      BY <2>2, <2>4 DEF In, TasksOf
    <3>2. i \notin In("done", TasksOf(p)) /\ IsFiniteSet(In("done", TasksOf(p)))
      BY <2>1, TaskBounds DEF In, TasksOf
    <3> QED  BY <3>1, <3>2, FS_AddElement DEF Count
  <2>5. ASSUME NEW p \in Phases PROVE Charged(p)'
    <3>1. CASE p # tasks[i].phase
      BY <1>p, <2>1, <2>3, <3>1 DEF Charged
    <3>2. CASE p = tasks[i].phase
      <4>1. retries[p] <= Count(p) + crashes
        BY <1>p DEF Charged
      <4>2. retries'[p] < Count(p)' + crashes'
        BY <2>1, <2>4, <3>2, <4>1, Numbers
      <4> QED  BY <2>1, <2>4, <3>2, <4>2, Numbers DEF Charged
    <3> QED  BY <3>1, <3>2
  <2>6. Judges'
    <3> SUFFICES ASSUME job["sweep"].at = "evaluate"
                 PROVE  retries[job["sweep"].phase] < Count(job["sweep"].phase)' + crashes
      BY <2>1 DEF Judges, Count
    <3>0. PICK p \in Phases : p = job["sweep"].phase
      BY DEF Shape, Placed, Actors
    <3>1. retries[p] < Count(p) + crashes
      BY <1>p, <3>0 DEF Judges
    <3>2. retries[p] < Count(p)' + crashes
      <4>1. Count(p)' = Count(p) \/ Count(p)' = Count(p) + 1
        BY <2>3, <2>4
      <4> QED  BY <3>1, <4>1, Numbers
    <3>3. Count(p)' = Count(job["sweep"].phase)'
      BY <2>1, <3>0 DEF Count
    <3> QED  BY <3>0, <3>2, <2>1
  <2> QED  BY <2>5, <2>6
<1> QED  BY <1>a, <1>1, <1>2, <1>3, <1>4

\* RetriesPaidFor: as long as the sweep is alone, it charges a retry to a phase's
\* budget only for a result that has not been charged before, but once for each
\* restart between the charge and the close.
THEOREM EveryRetryIsPaid == Spec => []RetriesPaidFor
<1>1. Paid => RetriesPaidFor
  BY DEF Paid, Charged, Count, RetriesPaidFor
<1> QED  BY <1>1, InitShape, NextShape, InitAlone, NextAlone, InitPaid, NextPaid, PTL DEF Spec

-----------------------------------------------------------------------------
(* What the sweep reports. *)

\* After the report the call has nothing left but to give its claims back.
Reported ==
  gates = 0 /\ ~ Polled /\ wf = "completed" =>
    LET j == job["sweep"] IN
    AllClosed /\ (j.at \in {"end", "idle"} \/ (j.at = "dispatch" /\ j.to = 0))

LEMMA NextReported == Shape /\ Alone /\ Reported /\ [Next]_vars => Reported'
<1> SUFFICES ASSUME Shape, Alone, Reported, [Next]_vars, gates' = 0, ~ Polled, wf' = "completed"
             PROVE  LET j == job'["sweep"] IN
                    AllClosed' /\ (j.at \in {"end", "idle"} \/ (j.at = "dispatch" /\ j.to = 0))
  BY DEF Reported
<1> DEFINE j == job["sweep"]
<1>j. "sweep" \in Actors /\ j \in Job /\ Placed(j) /\ job \in [Actors -> Job]
  BY DEF Shape, Actors
<1>a. /\ gates = 0
      /\ \/ Sweep \/ Poll \/ Crash \/ UNCHANGED vars
         \/ \E i \in DOMAIN tasks : Finish(i, FALSE)
  BY AloneSteps
<1>b. wf = "completed" =>
        AllClosed /\ (j.at \in {"end", "idle"} \/ (j.at = "dispatch" /\ j.to = 0))
  BY <1>a DEF Reported
<1>k. ASSUME \A p \in Phases : rows'[p].status = rows[p].status
      PROVE  AllClosed' <=> AllClosed
  BY <1>k DEF AllClosed, With
<1>1. CASE Sweep
  <2>1. CASE wf' # wf
    <3>1. Next_("sweep")
      BY <1>1, <2>1 DEF Sweep, SweepHeal, SweepRelease, SweepLook, SweepGrab, SweepLast, Step,
         Evaluate, Close, Start, Reset, Tag, Dispatch, Rewind, Claim, Check, Insert, End
    <3>2. /\ job' = [job EXCEPT !["sweep"].at = "dispatch", !["sweep"].to = 0]
          /\ rows' = SkipOver(j.phase, 0) /\ AllClosed
      BY <2>1, <3>1 DEF Next_
    <3>3. \A p \in Phases : rows'[p] = rows[p]
      <4>1. \A p \in Phases : ~ (p < 0)
        BY SomePhases DEF Phases
      <4> QED  BY <3>2, <4>1 DEF SkipOver
    <3>4. job'["sweep"].at = "dispatch" /\ job'["sweep"].to = 0
      BY <1>j, <3>2 DEF Job
    <3> QED  BY <1>k, <3>2, <3>3, <3>4
  <2>2. CASE wf' = wf
    <3>1. CASE Dispatch("sweep")
      <4>1. Goes("sweep", "end") /\ rows' = rows
        BY <1>b, <2>2, <3>1 DEF Dispatch
      <4> QED  BY <1>b, <1>k, <2>2, <4>1, Whereabouts
    <3>2. CASE End("sweep")
      <4>1. job'["sweep"].at = "idle"
        BY <3>2, Whereabouts DEF End
      <4>2. \A p \in Phases : rows[p] \in RowType
        BY DEF Shape, TypeOK, RowType
      <4>3. \A p \in Phases : rows'[p].status = rows[p].status
        BY <3>2, <4>2 DEF End, RowType
      <4> QED  BY <1>b, <1>k, <2>2, <4>1, <4>3
    <3>3. CASE ~ (Dispatch("sweep") \/ End("sweep"))
      BY <1>1, <1>b, <2>2, <3>3 DEF Sweep, SweepHeal, SweepRelease, SweepLook, SweepGrab, SweepLast,
         Step, Evaluate, Close, Next_, Start, Reset, Tag, Rewind, Claim, Check, Insert
    <3> QED  BY <3>1, <3>2, <3>3
  <2> QED  BY <2>1, <2>2
<1>2. CASE Poll
  BY <1>2 DEF Poll
<1>3. CASE Crash
  <2>1. rows' = rows /\ wf' = wf /\ job'["sweep"].at = "idle"
    BY <1>3 DEF Crash, IdleJob, Actors
  <2> QED  BY <1>b, <1>k, <2>1
<1>4. CASE UNCHANGED vars \/ \E i \in DOMAIN tasks : Finish(i, FALSE)
  <2>1. rows' = rows /\ wf' = wf /\ job' = job
    BY <1>4 DEF Finish, vars
  <2> QED  BY <1>b, <1>k, <2>1
<1> QED  BY <1>a, <1>1, <1>2, <1>3, <1>4

\* CompletedIsOver: when the sweep has reported the workflow complete, every
\* phase is closed and no agent is still at work.
THEOREM ReportedMeansOver == Spec => []CompletedIsOver
<1>1. Init => Reported
  BY DEF Init, Reported
<1>2. Shape /\ Alone /\ Reported => CompletedIsOver
  <2> SUFFICES ASSUME Shape, Alone, Reported, gates = 0, ~ Polled, wf = "completed",
                      NEW i \in DOMAIN tasks, tasks[i].state = "live"
               PROVE  FALSE
    BY DEF CompletedIsOver, Reported, In
  <2>1. tasks[i] \in Task
    BY DEF Shape, TypeOK
  <2>2. rows[tasks[i].phase].status = InProgress /\ tasks[i].phase \in Phases
    BY <2>1 DEF Alone, LiveRuns, Task
  <2>3. tasks[i].phase \in With(Completed) \cup With(Skipped)
    BY <2>2 DEF Reported, AllClosed
  <2> QED  BY <2>2, <2>3 DEF With, InProgress, Completed, Skipped
<1> QED  BY <1>1, <1>2, InitShape, NextShape, InitAlone, NextAlone, NextReported, PTL DEF Spec

-----------------------------------------------------------------------------
(* One phase at a time: the sweep, alone and not restarted. *)

Unclaimed == {"idle", "healed", "look", "grab", "try", "last"}
Working == {"grab", "try", "evaluate", "close", "next", "reset", "tag", "start", "dispatch",
            "rewind", "claim", "check", "insert"}

\* What may run: at most one phase, and the one the call is about; none between
\* the close of one and the start of the next.
Confined ==
  LET j == job["sweep"] IN
  /\ \E p \in Phases : With(InProgress) \subseteq {p}
  /\ j.at \in {"evaluate", "close"} => With(InProgress) \subseteq {j.phase}
  /\ j.at \in {"next", "reset", "tag", "start"} => With(InProgress) = {}
  /\ j.at \in {"grab", "try", "dispatch", "rewind", "claim", "check", "insert"} =>
       With(InProgress) \subseteq {j.to}

\* Every claim is one the call relies on, so none is ever healed.
Held ==
  LET j == job["sweep"] IN
  /\ j.at \in Unclaimed => ~ j.own
  /\ \A p \in Phases : rows[p].claim # Nobody => rows[p].claim = "sweep" /\ Holds("sweep", p)

\* From the case that acts to the task it creates nobody works, so that the
\* creation is never refused.
AtRest == job["sweep"].at \in Working => \A i \in DOMAIN tasks : tasks[i].state # "live"

Single == crashes = 0 /\ gates = 0 => Confined /\ Held /\ AtRest

LEMMA InitSingle == Init => Single
<1> SUFFICES ASSUME Init PROVE Confined /\ Held /\ AtRest
  BY DEF Single
<1>1. With(InProgress) = {} /\ 1 \in Phases
  BY SomePhases DEF Init, With, Pending, InProgress, Phases
<1> QED  BY <1>1 DEF Init, Confined, Held, AtRest, IdleJob, Actors, Working

LEMMA WhatIsHeld ==
  ASSUME Shape, Held
  PROVE  /\ \A p \in Phases : ~ Stale(p)
         /\ job["sweep"].at \in Unclaimed => \A p \in Phases : rows[p].claim = Nobody
         /\ job["sweep"].at \notin {"check", "insert", "end"} =>
              \A p \in Phases : rows[p].claim # Nobody => job["sweep"].own /\ job["sweep"].phase = p
<1> QED  BY DEF Held, Stale, Holds, Unclaimed

\* The call goes on, with the claims it has or fewer.
LEMMA HeldGoes ==
  ASSUME Shape, Held, NEW at, at \notin Unclaimed,
         job'["sweep"].at = at, job'["sweep"].own = job["sweep"].own,
         job'["sweep"].phase = job["sweep"].phase,
         \/ job["sweep"].at \notin {"check", "insert", "end"}
         \/ at \in {"insert", "end"} /\ job'["sweep"].to = job["sweep"].to,
         \A p \in Phases : rows'[p].claim \in {Nobody, rows[p].claim}
  PROVE  Held'
<1> SUFFICES ASSUME NEW p \in Phases, rows'[p].claim # Nobody
             PROVE  rows'[p].claim = "sweep" /\ Holds("sweep", p)'
  BY DEF Held
<1>1. rows[p].claim = "sweep" /\ Holds("sweep", p) /\ rows'[p].claim = rows[p].claim
  BY DEF Held
<1>2. at # "idle"
  BY DEF Unclaimed
<1> QED  BY <1>1, <1>2 DEF Holds

LEMMA HeldNothing ==
  ASSUME ~ job'["sweep"].own, \A p \in Phases : rows'[p].claim = Nobody
  PROVE  Held'
BY DEF Held

\* A live task runs in its phase's cycle, so where nothing runs, or only a phase
\* whose cycle has no live task, nobody works.
LEMMA NobodyWorks ==
  ASSUME Shape, LiveRuns, NEW p, With(InProgress) \subseteq {p},
         p \in Phases => In("live", Cycle(p)) = {}
  PROVE  \A i \in DOMAIN tasks : tasks[i].state # "live"
<1> SUFFICES ASSUME NEW i \in DOMAIN tasks, tasks[i].state = "live" PROVE FALSE
  OBVIOUS
<1>1. tasks[i] \in Task /\ Len(tasks) \in Nat /\ DOMAIN tasks = 1..Len(tasks)
  BY DEF Shape, TypeOK
<1>2. tasks[i].phase \in Phases /\ rows[tasks[i].phase].status = InProgress
      /\ rows[tasks[i].phase].started <= i
  BY <1>1 DEF Task, LiveRuns
<1>3. p = tasks[i].phase
  BY <1>2 DEF With
<1>4. rows[p].started \in Nat
  BY <1>2, <1>3 DEF Shape, TypeOK
<1>5. i \in Cycle(p)
  BY <1>1, <1>2, <1>3, <1>4 DEF Cycle, TasksOf
<1> QED  BY <1>2, <1>3, <1>5 DEF In

\* Nothing starts to run, nobody starts to work.
LEMMA Calmer ==
  ASSUME \A p \in Phases : rows'[p].status = InProgress => rows[p].status = InProgress
  PROVE  With(InProgress)' \subseteq With(InProgress)
BY DEF With

LEMMA RestKept ==
  ASSUME Shape, AtRest, job["sweep"].at \in Working,
         \/ tasks' = tasks
         \/ /\ DOMAIN tasks' = DOMAIN tasks
            /\ \A i \in DOMAIN tasks : tasks'[i].state = "live" => tasks[i].state = "live"
  PROVE  AtRest'
BY DEF AtRest

LEMMA StepSingle ==
  ASSUME Shape, LiveRuns, Evaluated, Confined, Held, AtRest, Step("sweep")
  PROVE  Confined' /\ Held' /\ AtRest'
<1> DEFINE j == job["sweep"]
<1>j. "sweep" \in Actors /\ j \in Job /\ Placed(j) /\ job \in [Actors -> Job]
  BY DEF Shape, Actors
<1>r. rows \in [Phases -> RowType]
  BY DEF Shape, TypeOK, RowType
<1>g. ASSUME NEW at, Goes("sweep", at)
      PROVE  /\ job'["sweep"].at = at /\ job'["sweep"].own = j.own
             /\ job'["sweep"].phase = j.phase /\ job'["sweep"].to = j.to
  <2>1. job' = [job EXCEPT !["sweep"] = [j EXCEPT !.at = at]]
    BY <1>g DEF Goes
  <2>2. job'["sweep"] = [j EXCEPT !.at = at]
    BY <1>j, <2>1
  <2> QED  BY <1>j, <2>2 DEF Job
<1>e. Ends("sweep") => job'["sweep"].at = "idle" /\ ~ job'["sweep"].own
  BY <1>j DEF Ends, IdleJob
<1>1. CASE Evaluate("sweep")
  <2>1. j.phase \in Phases /\ rows[j.phase].status # Completed
    BY <1>1, <1>j DEF Evaluate, Placed, Evaluated, InProgress, Completed
  <2>2. PICK act, to : job' = [job EXCEPT !["sweep"].at = "close", !["sweep"].act = act,
                                          !["sweep"].to = to]
    <3>1. PICK v \in Verdicts(j.phase) :
            LET act == IF v.act = "goto" /\ gotos >= MaxGotos THEN "continue" ELSE v.act IN
            job' = [job EXCEPT !["sweep"].at = "close", !["sweep"].act = act,
                               !["sweep"].to = IF act = "continue" THEN 0 ELSE v.to]
      BY <1>1, <2>1 DEF Evaluate
    <3> QED  BY <3>1
  <2>3. job'["sweep"].at = "close" /\ job'["sweep"].phase = j.phase /\ job'["sweep"].own = j.own
    BY <1>j, <2>2 DEF Job
  <2>4. rows' = rows /\ tasks' = tasks /\ j.at = "evaluate"
    BY <1>1 DEF Evaluate
  <2>5. Held'
    BY <2>3, <2>4, HeldGoes DEF Unclaimed
  <2>6. Confined'
    BY <2>3, <2>4 DEF Confined, With
  <2>7. AtRest'
    BY <2>4, RestKept DEF Working
  <2> QED  BY <2>5, <2>6, <2>7
<1>2. CASE Close("sweep")
  <2>1. j.phase \in Phases /\ rows[j.phase].status = InProgress /\ With(InProgress) \subseteq {j.phase}
        /\ tasks' = tasks /\ j.at = "close"
    BY <1>2, <1>j DEF Close, Placed, Evaluated, Confined
  <2>2. CanMove(rows[j.phase].status, Pending) /\ CanMove(rows[j.phase].status, Completed)
    BY <2>1 DEF CanMove, ValidTransitions, PhaseStatus, InProgress, Pending, Completed, Failed, Skipped
  <2>3. /\ \A p \in Phases : rows'[p].claim \in {Nobody, rows[p].claim}
        /\ \A p \in Phases : p # j.phase => rows'[p] = rows[p]
        /\ rows'[j.phase].status # InProgress
    <3>1. rows' = [rows EXCEPT ![j.phase].status = Completed]
          \/ rows' = [rows EXCEPT ![j.phase] = [status |-> Pending, started |-> 0, claim |-> Nobody]]
      BY <1>2, <2>2 DEF Close
    <3> QED  BY <1>r, <2>1, <3>1 DEF RowType, Pending, Completed, InProgress
  <2>4. PICK at \in {"next", "reset", "tag"} : Goes("sweep", at)
    <3>1. j.act \in {"continue", "goto", "retry"}
      BY <1>2, <1>j DEF Close, Placed, Job
    <3> QED  BY <1>2, <3>1 DEF Close
  <2>5. With(InProgress)' = {}
    BY <2>1, <2>3 DEF With
  <2>6. Held'
    BY <1>g, <2>1, <2>3, <2>4, HeldGoes DEF Unclaimed
  <2>7. Confined'
    BY <1>g, <2>1, <2>4, <2>5 DEF Confined
  <2>8. AtRest'
    BY <2>1, RestKept DEF Working
  <2> QED  BY <2>6, <2>7, <2>8
<1>3. CASE Next_("sweep")
  <2>1. PICK to : /\ rows' = SkipOver(j.phase, to)
                  /\ job' = [job EXCEPT !["sweep"].at = IF to = 0 THEN "dispatch" ELSE "start",
                                        !["sweep"].to = to]
    BY <1>3 DEF Next_
  <2>2. tasks' = tasks /\ j.at = "next" /\ With(InProgress) = {}
    BY <1>3 DEF Next_, Confined
  <2>3. /\ job'["sweep"].at \in {"dispatch", "start"} /\ job'["sweep"].own = j.own
        /\ job'["sweep"].phase = j.phase
    BY <1>j, <2>1 DEF Job
  <2>4. ASSUME NEW p \in Phases
        PROVE  /\ rows'[p].claim = rows[p].claim
               /\ rows'[p].status = InProgress => rows[p].status = InProgress
    BY <1>r, <2>1 DEF SkipOver, RowType, Skipped, InProgress
  <2>5. With(InProgress)' = {}
    BY <2>2, <2>4, Calmer
  <2>6. Held'
    BY <2>2, <2>3, <2>4, HeldGoes DEF Unclaimed
  <2>7. Confined'
    BY <2>3, <2>5, SomePhases DEF Confined, Phases
  <2>8. AtRest'
    BY <2>2, RestKept DEF Working
  <2> QED  BY <2>6, <2>7, <2>8
<1>4. CASE Start("sweep")
  <2>1. /\ j.to \in Phases /\ rows' = [rows EXCEPT ![j.to] = Run(@, Now)] /\ tasks' = tasks
        /\ j.at = "start" /\ Goes("sweep", "dispatch") /\ With(InProgress) = {}
    BY <1>4, <1>j DEF Start, Placed, Confined
  <2>2. Run(rows[j.to], Now).claim \in {Nobody, rows[j.to].claim}
    BY DEF Run
  <2>3. Held'
    BY <1>g, <1>r, <2>1, <2>2, HeldGoes DEF Unclaimed
  <2>4. With(InProgress)' \subseteq {j.to}
    BY <1>r, <2>1 DEF With
  <2>5. Confined'
    BY <1>g, <2>1, <2>4 DEF Confined
  <2>6. AtRest'
    BY <2>1, RestKept DEF Working
  <2> QED  BY <2>3, <2>5, <2>6
<1>5. CASE Reset("sweep") \/ Rewind("sweep")
  <2>1. /\ ResetTo(j.to, j.phase) /\ j.to \in Phases
        /\ \/ Goes("sweep", "tag") /\ j.at = "reset"
           \/ Goes("sweep", "claim") /\ j.at = "rewind"
    BY <1>5, <1>j DEF Reset, Rewind, Placed
  <2>2. ASSUME NEW p \in Phases
        PROVE  /\ rows'[p].claim \in {Nobody, rows[p].claim}
               /\ rows'[p].status = InProgress => rows[p].status = InProgress
    <3>1. rows'[p] = rows[p] \/ rows'[p] = [status |-> Pending, started |-> 0, claim |-> Nobody]
      BY <2>1 DEF ResetTo
    <3> QED  BY <3>1 DEF Pending, InProgress
  <2>3. Held'
    <3>1. job'["sweep"].at \in {"tag", "claim"} /\ job'["sweep"].own = j.own
          /\ job'["sweep"].phase = j.phase
      BY <1>g, <2>1
    <3> QED  BY <2>1, <2>2, <3>1, HeldGoes DEF Unclaimed
  <2>4. With(InProgress)' \subseteq With(InProgress)
    BY <2>2, Calmer
  <2>5. Confined'
    <3>1. CASE Goes("sweep", "tag") /\ j.at = "reset"
      BY <1>g, <2>1, <2>4, <3>1 DEF Confined
    <3>2. CASE Goes("sweep", "claim") /\ j.at = "rewind"
      BY <1>g, <2>1, <2>4, <3>2 DEF Confined
    <3> QED  BY <2>1, <3>1, <3>2
  <2>6. AtRest'
    <3>1. \A i \in DOMAIN tasks : tasks[i] \in Task
      BY DEF Shape, TypeOK
    <3>2. DOMAIN tasks' = DOMAIN tasks
          /\ \A i \in DOMAIN tasks : tasks'[i] = tasks[i] \/ tasks'[i] = [tasks[i] EXCEPT !.state = "lost"]
      BY <2>1 DEF ResetTo
    <3>3. \A i \in DOMAIN tasks : tasks'[i].state = "live" => tasks[i].state = "live"
      <4> SUFFICES ASSUME NEW i \in DOMAIN tasks, tasks'[i].state = "live"
                   PROVE  tasks[i].state = "live"
        OBVIOUS
      <4>1. tasks[i] \in Task
        BY <3>1
      <4> QED  BY <3>2, <4>1 DEF Task
    <3> QED  BY <2>1, <3>2, <3>3, RestKept DEF Working
  <2> QED  BY <2>3, <2>5, <2>6
<1>6. CASE Tag("sweep") \/ Dispatch("sweep") \/ Check("sweep")
  <2>1. rows' = rows /\ j.at \in Working
    BY <1>6 DEF Tag, Dispatch, Check, Working
  <2>2. AtRest'
    <3>1. CASE tasks' = tasks
      BY <2>1, <3>1, RestKept
    <3>2. CASE tasks' # tasks
      <4> DEFINE S == In("done", TasksOf(j.phase))
      <4>0. S # {} /\ tasks' = [tasks EXCEPT ![Max(S)] = [tasks[Max(S)] EXCEPT !.tag = j.to]]
        BY <1>6, <3>2 DEF Tag, Dispatch, Check
      <4>1. Max(S) \in DOMAIN tasks
        BY <4>0, TaskBounds DEF In, TasksOf
      <4> HIDE DEF S
      <4>2. tasks[Max(S)] \in Task
        BY <4>1 DEF Shape, TypeOK
      <4>3. DOMAIN tasks' = DOMAIN tasks
            /\ \A i \in DOMAIN tasks : tasks'[i].state = tasks[i].state
        BY <4>0, <4>1, <4>2 DEF Task
      <4> QED  BY <2>1, <4>3, RestKept
    <3> QED  BY <3>1, <3>2
  <2>3. /\ \/ Tag("sweep") /\ Goes("sweep", "dispatch") /\ j.at = "tag"
           \/ Dispatch("sweep") /\ Goes("sweep", "end") /\ j.at = "dispatch"
           \/ Dispatch("sweep") /\ Goes("sweep", "claim") /\ j.at = "dispatch"
           \/ Check("sweep") /\ Goes("sweep", "insert") /\ j.at = "check"
    <3>1. CASE Tag("sweep")
      BY <3>1 DEF Tag
    <3>2. CASE Dispatch("sweep")
      BY <3>2 DEF Dispatch
    <3>3. CASE Check("sweep")
      <4>1. In("live", TasksOf(j.to)) = {}
        BY <3>3 DEF Check, AtRest, Working, In, TasksOf
      <4> QED  BY <3>3, <4>1 DEF Check
    <3> QED  BY <1>6, <3>1, <3>2, <3>3
  <2>4. PICK at \in {"dispatch", "end", "claim", "insert"} :
          Goes("sweep", at) /\ j.at \in {"tag", "dispatch", "check"} /\ (j.at = "check" => at = "insert")
                            /\ (at \in {"dispatch", "claim", "insert"} => With(InProgress) \subseteq {j.to})
    BY <2>3 DEF Confined
  <2>5. Held'
    <3>1. \A p \in Phases : rows'[p].claim \in {Nobody, rows[p].claim}
      BY <2>1
    <3>2. /\ job'["sweep"].at = at /\ job'["sweep"].own = j.own
          /\ job'["sweep"].phase = j.phase /\ job'["sweep"].to = j.to
      BY <1>g, <2>4
    <3>3. at \notin Unclaimed
      BY <2>4 DEF Unclaimed
    <3> QED  BY <2>4, <3>1, <3>2, <3>3, HeldGoes
  <2>6. Confined'
    <3>1. With(InProgress)' = With(InProgress)
      BY <2>1 DEF With
    <3> QED  BY <1>g, <2>4, <3>1 DEF Confined
  <2> QED  BY <2>2, <2>5, <2>6
<1>7. CASE Claim("sweep")
  <2>1. j.to \in Phases /\ tasks' = tasks /\ j.at = "claim" /\ ~ Stale(j.to)
        /\ With(InProgress) \subseteq {j.to}
    BY <1>7, <1>j, WhatIsHeld DEF Claim, Placed, Confined
  <2>2. AtRest'
    BY <2>1, RestKept DEF Working
  <2>3. CASE rows[j.to].claim # Nobody
    <3>1. rows' = rows /\ job' = [job EXCEPT !["sweep"].at = "end", !["sweep"].to = 0]
      BY <1>7, <2>1, <2>3 DEF Claim
    <3>2. job'["sweep"].at = "end" /\ job'["sweep"].own = j.own /\ job'["sweep"].phase = j.phase
      BY <1>j, <3>1 DEF Job
    <3>3. Held'
      BY <2>1, <3>1, <3>2, HeldGoes DEF Unclaimed
    <3>4. Confined'
      BY <3>1, <3>2 DEF Confined, With
    <3> QED  BY <2>2, <3>3, <3>4
  <2>4. CASE rows[j.to].claim = Nobody
    <3>1. rows' = [rows EXCEPT ![j.to] = [rows[j.to] EXCEPT !.claim = "sweep"]]
          /\ Goes("sweep", "check")
      BY <1>7, <2>1, <2>4 DEF Claim
    <3>2. /\ \A p \in Phases : rows'[p].status = rows[p].status
          /\ \A p \in Phases : p # j.to => rows'[p] = rows[p]
          /\ rows'[j.to].claim = "sweep"
      BY <1>r, <2>1, <3>1 DEF RowType
    <3>3. ASSUME NEW p \in Phases, rows'[p].claim # Nobody
          PROVE  rows'[p].claim = "sweep" /\ Holds("sweep", p)'
      <4>1. CASE p = j.to
        BY <1>g, <3>1, <3>2, <4>1 DEF Holds
      <4>2. CASE p # j.to
        <5>1. rows[p].claim = "sweep" /\ j.own /\ j.phase = p
          BY <2>1, <3>2, <3>3, <4>2, WhatIsHeld DEF Held
        <5>2. job'["sweep"].at = "check" /\ job'["sweep"].own = j.own /\ job'["sweep"].phase = j.phase
          BY <1>g, <3>1
        <5>3. rows'[p].claim = "sweep"
          BY <3>2, <4>2, <5>1
        <5> QED  BY <5>1, <5>2, <5>3 DEF Holds
      <4> QED  BY <4>1, <4>2
    <3>4. Held'
      <4>1. job'["sweep"].at \notin Unclaimed
        BY <1>g, <3>1 DEF Unclaimed
      <4> QED  BY <3>3, <4>1 DEF Held
    <3>5. With(InProgress)' \subseteq With(InProgress)
      BY <3>2, Calmer
    <3>6. Confined'
      BY <1>g, <2>1, <3>1, <3>5 DEF Confined
    <3> QED  BY <2>2, <3>4, <3>6
  <2> QED  BY <2>3, <2>4
<1>8. CASE Insert("sweep")
  <2>1. /\ j.to \in Phases /\ rows' = [rows EXCEPT ![j.to] = [Run(@, Now) EXCEPT !.claim = Nobody]]
        /\ j.at = "insert" /\ With(InProgress) \subseteq {j.to}
        /\ IF j.own THEN Goes("sweep", "end") ELSE Ends("sweep")
    BY <1>8, <1>j DEF Insert, Placed, Confined
  <2>2. rows'[j.to].claim = Nobody /\ \A p \in Phases : p # j.to => rows'[p] = rows[p]
    <3>1. Now \in Nat
      BY DEF Now, Shape, TypeOK
    <3>2. Run(rows[j.to], Now) \in RowType
      BY <1>r, <2>1, <3>1, RunType
    <3> QED  BY <1>r, <2>1, <3>2 DEF RowType
  <2>3. With(InProgress)' \subseteq {j.to}
    BY <2>1, <2>2 DEF With
  <2>4. job'["sweep"].at \in {"end", "idle"}
    BY <1>g, <1>e, <2>1
  <2>5. AtRest'
    BY <2>4 DEF AtRest, Working
  <2>6. Confined'
    BY <2>1, <2>3, <2>4 DEF Confined
  <2>7. Held'
    <3>1. CASE j.own
      BY <1>g, <2>1, <2>2, <3>1, HeldGoes DEF Unclaimed
    <3>2. CASE ~ j.own
      <4>1. \A p \in Phases : rows'[p].claim = Nobody
        BY <2>1, <2>2, <3>2 DEF Held, Holds
      <4> QED  BY <1>e, <2>1, <3>2, <4>1, HeldNothing
    <3> QED  BY <3>1, <3>2
  <2> QED  BY <2>5, <2>6, <2>7
<1>9. CASE End("sweep")
  <2>1. job'["sweep"].at = "idle" /\ ~ job'["sweep"].own /\ j.at = "end"
    BY <1>9, <1>e DEF End
  <2>2. ASSUME NEW p \in Phases
        PROVE  rows'[p].claim = Nobody /\ rows'[p].status = rows[p].status
    <3>1. CASE p = j.to \/ p = j.phase
      BY <1>9, <1>r, <3>1 DEF End, RowType
    <3>2. CASE ~ (p = j.to \/ p = j.phase)
      <4>1. rows[p].claim = Nobody
        BY <3>2 DEF Held, Holds
      <4> QED  BY <1>9, <3>2, <4>1 DEF End
    <3> QED  BY <3>1, <3>2
  <2>3. With(InProgress)' \subseteq With(InProgress)
    BY <2>2, Calmer
  <2>4. Confined'
    BY <2>1, <2>3 DEF Confined
  <2> QED  BY <2>1, <2>2, <2>4, HeldNothing DEF AtRest, Working
<1> QED  BY <1>1, <1>2, <1>3, <1>4, <1>5, <1>6, <1>7, <1>8, <1>9 DEF Step

LEMMA LastCaseSingle ==
  ASSUME Shape, LiveRuns, Confined, Held, CaseInProgressComplete, job["sweep"].at \in Unclaimed
  PROVE  Confined' /\ Held' /\ AtRest'
<1>r. rows \in [Phases -> RowType] /\ job \in [Actors -> Job] /\ "sweep" \in Actors
  BY DEF Shape, TypeOK, RowType, Actors
<1>h. \A p \in Phases : rows[p].claim = Nobody
  BY WhatIsHeld
<1>w. ASSUME With(InProgress)' = With(InProgress), job'["sweep"].at = "idle"
      PROVE  Confined' /\ AtRest'
  BY <1>w DEF Confined, AtRest, Working
<1>1. CASE CaseRetry \/ NothingToDo
  <2>1. rows' = rows /\ job'["sweep"].at = "idle" /\ ~ job'["sweep"].own
    BY <1>1, <1>r DEF CaseRetry, NothingToDo, Ends, IdleJob
  <2>2. With(InProgress)' = With(InProgress)
    BY <2>1 DEF With
  <2> QED  BY <1>h, <1>w, <2>1, <2>2, HeldNothing
<1>2. CASE CaseNeverStarted \/ CaseComplete
  <2>0. PICK p : p = Min(Quiet)
    OBVIOUS
  <2>1. p \in Phases /\ rows[p].status = InProgress /\ In("live", Cycle(p)) = {} /\ tasks' = tasks
    BY <1>2, <2>0, PhaseBounds DEF CaseNeverStarted, CaseComplete, Quiet, With
  <2>2. With(InProgress) \subseteq {p}
    BY <2>1 DEF Confined, With
  <2>3. AtRest'
    BY <2>1, <2>2, NobodyWorks DEF AtRest
  <2>4. CASE CaseNeverStarted
    <3>1. rows' = rows /\ job'["sweep"].at = "grab" /\ job'["sweep"].to = p /\ ~ job'["sweep"].own
      BY <1>r, <2>0, <2>4 DEF CaseNeverStarted, Grabs
    <3>2. Confined'
      BY <2>1, <2>2, <3>1 DEF Confined, With
    <3> QED  BY <1>h, <2>3, <3>1, <3>2, HeldNothing
  <2>5. CASE CaseComplete
    <3>1. /\ rows' = [rows EXCEPT ![p].claim = "sweep"] /\ job'["sweep"].at = "evaluate"
          /\ job'["sweep"].phase = p /\ job'["sweep"].own
      BY <1>r, <2>0, <2>5 DEF CaseComplete, IdleJob
    <3>2. /\ \A q \in Phases : rows'[q].status = rows[q].status
          /\ \A q \in Phases : q # p => rows'[q] = rows[q]
          /\ rows'[p].claim = "sweep"
      BY <1>r, <2>1, <3>1 DEF RowType
    <3>3. Held'
      BY <1>h, <3>1, <3>2 DEF Held, Holds, Unclaimed
    <3>4. Confined'
      <4>1. With(InProgress)' = With(InProgress)
        BY <3>2 DEF With
      <4> QED  BY <2>1, <2>2, <3>1, <4>1 DEF Confined
    <3> QED  BY <2>3, <3>3, <3>4
  <2> QED  BY <1>2, <2>4, <2>5
<1> QED  BY <1>1, <1>2 DEF CaseInProgressComplete

LEMMA SweepSingle ==
  ASSUME Shape, LiveRuns, Confined, Held, AtRest,
         SweepHeal \/ SweepRelease \/ SweepLook \/ SweepGrab \/ SweepLast
  PROVE  Confined' /\ Held' /\ AtRest'
<1> DEFINE j == job["sweep"]
<1>r. /\ rows \in [Phases -> RowType] /\ job \in [Actors -> Job] /\ "sweep" \in Actors
      /\ j \in Job /\ Placed(j)
  BY DEF Shape, TypeOK, RowType, Actors
<1>u. j.at \in Unclaimed
  BY DEF SweepHeal, SweepRelease, SweepLook, SweepGrab, SweepLast, Unclaimed, IdleJob
<1>h. /\ \A p \in Phases : rows[p].claim = Nobody /\ ~ Stale(p)
      /\ ~ j.own
  BY <1>u, WhatIsHeld DEF Held
<1>g. ASSUME NEW at, Goes("sweep", at)
      PROVE  job'["sweep"].at = at /\ ~ job'["sweep"].own /\ job'["sweep"].to = j.to
  <2>1. job' = [job EXCEPT !["sweep"] = [j EXCEPT !.at = at]]
    BY <1>g DEF Goes
  <2>2. job'["sweep"] = [j EXCEPT !.at = at]
    BY <1>r, <2>1
  <2> QED  BY <1>h, <1>r, <2>2 DEF Job
<1>e. Ends("sweep") => job'["sweep"].at = "idle" /\ ~ job'["sweep"].own
  BY <1>r DEF Ends, IdleJob
<1>1. CASE SweepHeal
  <2>1. \A p \in Phases : rows'[p] = rows[p]
    BY <1>1, <1>h DEF SweepHeal
  <2>2. job'["sweep"].at = "healed" /\ ~ job'["sweep"].own
    BY <1>1, <1>g DEF SweepHeal
  <2>3. With(InProgress)' = With(InProgress)
    BY <2>1 DEF With
  <2> QED  BY <1>h, <2>1, <2>2, <2>3, HeldNothing DEF Confined, AtRest, Working
<1>2. CASE SweepRelease
  <2>1. job'["sweep"].at = "look" /\ ~ job'["sweep"].own
    BY <1>2, <1>g DEF SweepRelease
  <2>2. CASE rows' = rows
    <3>1. With(InProgress)' = With(InProgress)
      BY <2>2 DEF With
    <3> QED  BY <1>h, <2>1, <2>2, <3>1, HeldNothing DEF Confined, AtRest, Working
  <2>3. CASE rows' # rows
    <3> DEFINE done == In("done", DOMAIN tasks)
    <3>1. PICK p, k : /\ rows' = [rows EXCEPT ![p] = Run(rows[p], k)] /\ With(InProgress) = {}
                      /\ p = tasks[Max(done)].phase /\ done # {}
      BY <1>2, <2>3 DEF SweepRelease
    <3>2. p \in Phases
      <4>1. Max(done) \in DOMAIN tasks
        BY <3>1, TaskBounds DEF In
      <4>2. tasks[Max(done)] \in Task
        BY <4>1 DEF Shape, TypeOK
      <4> QED  BY <3>1, <4>2 DEF Task
    <3>3. \A q \in Phases : rows'[q].claim = Nobody
      BY <1>h, <1>r, <3>1, <3>2 DEF Run
    <3>4. With(InProgress)' \subseteq {p}
      BY <1>r, <3>1, <3>2 DEF With
    <3> QED  BY <2>1, <3>2, <3>3, <3>4, HeldNothing DEF Confined, AtRest, Working
  <2> QED  BY <2>2, <2>3
<1>3. CASE SweepLook
  <2>1. CASE CaseStartFirst
    <3>1. /\ rows' = rows /\ tasks' = tasks /\ With(InProgress) = {}
          /\ job'["sweep"].at \in {"grab", "idle"} /\ ~ job'["sweep"].own
      BY <1>e, <1>r, <2>1 DEF CaseStartFirst, Grabs
    <3>2. With(InProgress)' = {} /\ 1 \in Phases
      BY <3>1, SomePhases DEF With, Phases
    <3>3. AtRest'
      <4>1. 0 \notin Phases
        BY SomePhases DEF Phases
      <4> QED  BY <3>1, <4>1, NobodyWorks DEF AtRest
    <3> QED  BY <1>h, <3>1, <3>2, <3>3, HeldNothing DEF Confined
  <2>2. CASE CaseInProgressNoTasks
    <3>0. PICK p : p = Min(With(InProgress))
      OBVIOUS
    <3>1. /\ rows' = rows /\ tasks' = tasks /\ Cycle(p) = {} /\ p \in With(InProgress)
          /\ job'["sweep"].at = "try" /\ ~ job'["sweep"].own /\ job'["sweep"].to = p
      <4>1. p \in With(InProgress)
        BY <2>2, <3>0, PhaseBounds DEF CaseInProgressNoTasks, With
      <4> QED  BY <1>r, <2>2, <3>0, <4>1 DEF CaseInProgressNoTasks, Grabs
    <3>2. With(InProgress) \subseteq {p} /\ With(InProgress)' = With(InProgress) /\ p \in Phases
      BY <3>1 DEF Confined, With
    <3>3. AtRest'
      BY <3>1, <3>2, NobodyWorks DEF AtRest, In
    <3> QED  BY <1>h, <3>1, <3>2, <3>3, HeldNothing DEF Confined
  <2>3. CASE CaseCompletedWithSuccessor
    <3>1. /\ rows' = SkipOver(LastClosing, Successor) /\ tasks' = tasks /\ With(InProgress) = {}
      BY <2>3, SuccessorIsPending DEF CaseCompletedWithSuccessor
    <3>2. job'["sweep"].at \in {"grab", "idle"} /\ ~ job'["sweep"].own
      BY <1>e, <1>r, <2>3, SuccessorIsPending DEF Grabs
    <3>3. ASSUME NEW p \in Phases
          PROVE  rows'[p].claim = Nobody /\ (rows'[p].status = InProgress => rows[p].status = InProgress)
      BY <1>h, <1>r, <3>1 DEF SkipOver, RowType, Skipped, InProgress
    <3>4. With(InProgress)' = {} /\ 1 \in Phases
      BY <3>1, <3>3, Calmer, SomePhases DEF Phases
    <3>5. AtRest'
      <4>1. 0 \notin Phases
        BY SomePhases DEF Phases
      <4> QED  BY <3>1, <4>1, NobodyWorks DEF AtRest
    <3> QED  BY <3>2, <3>3, <3>4, <3>5, HeldNothing DEF Confined
  <2>4. CASE CaseInProgressComplete
    BY <1>u, <2>4, LastCaseSingle
  <2> QED  BY <1>3, <2>1, <2>2, <2>3, <2>4 DEF SweepLook
<1>4. CASE SweepGrab
  <2>1. /\ j.to \in Phases /\ tasks' = tasks /\ j.at \in {"grab", "try"}
        /\ With(InProgress) \subseteq {j.to} /\ rows[j.to].claim = Nobody
    BY <1>4, <1>r, <1>h DEF SweepGrab, Placed, Confined
  <2>2. AtRest'
    BY <2>1, RestKept DEF Working
  <2>3. CASE \E i \in TasksOf(j.to) : i > j.since
    <3>1. /\ rows' = [rows EXCEPT ![j.to] = [Run(@, Min(TasksOf(j.to))) EXCEPT !.claim = Nobody]]
          /\ Goes("sweep", "last") \/ Ends("sweep")
      BY <1>4, <2>1, <2>3 DEF SweepGrab
    <3>2. job'["sweep"].at \in {"last", "idle"} /\ ~ job'["sweep"].own
      BY <1>e, <1>g, <3>1
    <3>3. \A p \in Phases : p # j.to => rows'[p] = rows[p]
      BY <1>r, <3>1
    <3>4. rows'[j.to].claim = Nobody
      <4>1. Min(TasksOf(j.to)) \in Nat
        BY <2>3, TaskBounds DEF TasksOf
      <4>2. Run(rows[j.to], Min(TasksOf(j.to))) \in RowType
        BY <1>r, <2>1, <4>1, RunType
      <4> QED  BY <1>r, <2>1, <3>1, <4>2 DEF RowType
    <3>5. With(InProgress)' \subseteq {j.to}
      BY <2>1, <3>3 DEF With
    <3>6. Held'
      BY <1>h, <3>2, <3>3, <3>4, HeldNothing
    <3>7. Confined'
      BY <2>1, <3>2, <3>5 DEF Confined
    <3> QED  BY <2>2, <3>6, <3>7
  <2>4. CASE ~ \E i \in TasksOf(j.to) : i > j.since
    <3>1. rows' = [rows EXCEPT ![j.to].claim = "sweep"] /\ Goes("sweep", "check")
      BY <1>4, <2>1, <2>4 DEF SweepGrab
    <3>2. /\ \A p \in Phases : rows'[p].status = rows[p].status
          /\ \A p \in Phases : p # j.to => rows'[p] = rows[p]
          /\ rows'[j.to].claim = "sweep"
      BY <1>r, <2>1, <3>1 DEF RowType
    <3>3. job'["sweep"].at = "check" /\ job'["sweep"].to = j.to
      BY <1>g, <3>1
    <3>4. Held'
      BY <1>h, <3>2, <3>3 DEF Held, Holds, Unclaimed
    <3>5. Confined'
      <4>1. With(InProgress)' = With(InProgress)
        BY <3>2 DEF With
      <4> QED  BY <2>1, <3>3, <4>1 DEF Confined
    <3> QED  BY <2>2, <3>4, <3>5
  <2> QED  BY <2>3, <2>4
<1>5. CASE SweepLast
  BY <1>5, <1>u, LastCaseSingle DEF SweepLast
<1> QED  BY <1>1, <1>2, <1>3, <1>4, <1>5

LEMMA NextSingle == Shape /\ Alone /\ Single /\ [Next]_vars => Single'
<1> SUFFICES ASSUME Shape, Alone, Single, [Next]_vars, gates' = 0, crashes' = 0
             PROVE  Confined' /\ Held' /\ AtRest'
  BY DEF Single
<1>a. /\ gates = 0 /\ LiveRuns /\ Evaluated /\ job["gate"] = IdleJob
      /\ \/ Sweep \/ Poll \/ Crash \/ UNCHANGED vars
         \/ \E i \in DOMAIN tasks : Finish(i, FALSE)
  BY AloneSteps
<1>c. crashes = 0 /\ ~ Crash
  <2>1. crashes \in Nat
    BY Bounds DEF Shape, TypeOK
  <2>2. Crash => crashes' = crashes + 1
    BY DEF Crash
  <2>3. ~ Crash
    BY <2>1, <2>2
  <2>4. crashes' = crashes
    BY <1>a, <2>3 DEF Sweep, SweepHeal, SweepRelease, SweepLook, SweepGrab, SweepLast, Step, Evaluate,
       Close, Next_, Start, Reset, Tag, Dispatch, Rewind, Claim, Check, Insert, End, Poll, Finish, vars
  <2> QED  BY <2>3, <2>4
<1>s. Confined /\ Held /\ AtRest
  BY <1>a, <1>c DEF Single
<1>1. CASE Sweep
  BY <1>1, <1>a, <1>s, SweepSingle, StepSingle DEF Sweep
<1>2. CASE Poll \/ UNCHANGED vars
  <2>1. rows' = rows /\ tasks' = tasks /\ job' = job
    BY <1>2 DEF Poll, vars
  <2> QED  BY <1>s, <2>1 DEF Confined, Held, Holds, AtRest, With
<1>3. ASSUME NEW i \in DOMAIN tasks, Finish(i, FALSE)
      PROVE  Confined' /\ Held' /\ AtRest'
  <2>1. rows' = rows /\ job' = job /\ tasks' = [tasks EXCEPT ![i].state = "done"]
    BY <1>3 DEF Finish
  <2>2. DOMAIN tasks' = DOMAIN tasks
        /\ \A k \in DOMAIN tasks : tasks'[k].state = "live" => tasks[k].state = "live"
    <3>1. \A k \in DOMAIN tasks : tasks[k] \in Task
      BY DEF Shape, TypeOK
    <3> QED  BY <2>1, <3>1 DEF Task
  <2> QED  BY <1>s, <2>1, <2>2 DEF Confined, Held, Holds, AtRest, With
<1> QED  BY <1>a, <1>c, <1>1, <1>2, <1>3

\* OneRunningPhase: as long as the backend is not restarted, the sweep alone never
\* lets two phases run at once, through whatever retries and gotos.
THEOREM OnePhaseRuns == Spec => []OneRunningPhase
<1>1. Shape /\ Single => OneRunningPhase
  <2> SUFFICES ASSUME Shape, Single, crashes = 0, gates = 0
               PROVE  Cardinality(With(InProgress)) <= 1
    BY DEF OneRunningPhase
  <2>1. PICK p \in Phases : With(InProgress) \subseteq {p}
    BY DEF Single, Confined
  <2>2. With(InProgress) = {} \/ With(InProgress) = {p}
    BY <2>1
  <2> QED  BY <2>2, FS_EmptySet, FS_Singleton
<1> QED  BY <1>1, InitShape, NextShape, InitAlone, NextAlone, InitSingle, NextSingle, PTL DEF Spec
=============================================================================
