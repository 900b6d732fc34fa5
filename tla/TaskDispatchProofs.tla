------------------------- MODULE TaskDispatchProofs -------------------------
(***************************************************************************)
(* For any number of tasks, agents and passes over the queue, and any      *)
(* clicks, faults and crashes: the type invariant, that the limited model  *)
(* never has more sessions than it has room for, that a task which was     *)
(* never taken up again has one agent with its prompt, and that what an    *)
(* agent has reported is not undone by its own launch.                     *)
(*                                                                         *)
(* None of them is inductive.  A dispatch keeps the identifier of a row    *)
(* across a minute in which the row may be cleared, so the invariant says  *)
(* which slots are backed by a reservation (Backed), that all that refers  *)
(* to a row means the same task and one launch (Agreed), that who has been *)
(* told to go has nothing left to do (Leaving), that a launch of a task    *)
(* under way has a live row (Single), and which sessions the count of rows *)
(* does not see yet (Counted, Room).                                       *)
(***************************************************************************)
EXTENDS TaskDispatch, FiniteSetTheorems, WellFoundedInduction, TLAPS

-----------------------------------------------------------------------------
(* The rows and the dispatches. *)

Launching == {"launch", "check"}
Slotted == {d \in Workers : work[d].slot}

\* What a dispatch has in its hands at each point.
Handed ==
  \A d \in Workers :
    /\ work[d].at = "idle" => work[d] = Idle
    /\ work[d].at # "idle" => work[d].task \in Tasks
    /\ work[d].at \in Launching \union {"mark"} <=> work[d].agent # Nobody
    /\ work[d].slot <=> work[d].task \in Limited /\ work[d].at \in {"selected", "prep"} \union Launching

\* A row is one of an agent at its task, or nothing is left of it.
Rows ==
  \A a \in Agents : agent[a] = Gone \/ (agent[a].status # "terminated" /\ agent[a].task \in Tasks)

\* Whoever has reserved a slot can give it back.
Backed == Cardinality(Slotted) <= reserved

Shape == TypeOK /\ Handed /\ Rows /\ Backed

\* All that refers to a row agrees on its task, and one dispatch launches it.
RowOfDispatch ==
  \A d \in Workers : work[d].agent # Nobody =>
    agent[work[d].agent] = Gone \/ agent[work[d].agent].task = work[d].task
RowOfTask ==
  \A t \in Tasks : task[t].agent # Nobody =>
    agent[task[t].agent] = Gone \/ agent[task[t].agent].task = t
DispatchesAgree ==
  \A d, e \in Workers : work[d].agent # Nobody /\ work[d].agent = work[e].agent =>
    work[d].task = work[e].task
TaskOfDispatch ==
  \A d \in Workers, t \in Tasks : work[d].agent # Nobody /\ work[d].agent = task[t].agent =>
    work[d].task = t
OneTask ==
  \A t, u \in Tasks : task[t].agent # Nobody /\ task[t].agent = task[u].agent => t = u
OneLaunch ==
  \A d, e \in Workers : /\ work[d].at \in Launching /\ work[e].at \in Launching
                       /\ work[d].agent = work[e].agent => d = e

Agreed == RowOfDispatch /\ RowOfTask /\ DispatchesAgree /\ TaskOfDispatch /\ OneTask /\ OneLaunch

\* Who is told to go has nothing left to do.
Leaving ==
  \A a \in Agents : agent[a].leaving =>
    agent[a].task \in opened \/ Settled(task[agent[a].task])

\* One row at most, and every launch is of that row.
Single ==
  \A t \in Tasks \ opened : ~Settled(task[t]) =>
    /\ \A a, b \in LiveOn(t) : a = b
    /\ \A d \in Workers : work[d].task = t /\ work[d].at \in Launching => work[d].agent \in LiveOn(t)

\* Those on the model that no dispatch counts.
Counted == {a \in OnModel : \A d \in Workers : ~(work[d].at = "check" /\ work[d].agent = a)}

Known == spent.crashes = 0 => \A a \in Agents : agent[a].session => agent[a].model
Room  == spent.crashes = 0 => Cardinality(Counted) + reserved <= Limit

Placed == Shape /\ Agreed
One    == Placed /\ Leaving /\ Single
Slots  == Placed /\ Known /\ Room

TaskRow == [status : Taken \union Terminal \union {None, "queued", "blocked"},
            agent : Agents \union {Nobody}, started : BOOLEAN, old : BOOLEAN]
AgentRow == [status : {"idle", "working", "terminated"}, task : Tasks \union {None},
             model : BOOLEAN, session : BOOLEAN, leaving : BOOLEAN]
Dispatch == [at : {"idle", "selected", "enrich", "prep", "launch", "check", "mark"},
             task : Tasks \union {None}, agent : Agents \union {Nobody},
             kind : {None, "create", "restart"} \union Passes, slot : BOOLEAN]
Lines == {l \in [Tasks -> 0..Cardinality(Tasks)] :
            \A t, u \in Tasks : l[t] = l[u] => l[t] = 0 \/ t = u}
Spent == [clicks : 0..MaxClicks, faults : 0..MaxFaults, crashes : 0..MaxCrashes]

LEMMA Types ==
  TypeOK <=> /\ task \in [Tasks -> TaskRow] /\ line \in Lines
             /\ agent \in [Agents -> AgentRow] /\ work \in [Workers -> Dispatch]
             /\ called \in BOOLEAN /\ reserved \in 0..Limit
             /\ spent \in Spent /\ opened \subseteq Tasks
BY DEF TypeOK, TaskRow, AgentRow, Dispatch, Lines, Spent

LEMMA Truth ==
  ASSUME NEW x, NEW S
  PROVE  \E b \in BOOLEAN : b = (x \in S)
<1>1. (x \in S) \in BOOLEAN
  OBVIOUS
<1> QED  BY <1>1

LEMMA Blank == Gone \in AgentRow /\ Idle \in Dispatch
BY DEF Gone, Idle, AgentRow, Dispatch, Passes, Nobody, None

\* What the dispatches hold is finite, and can be counted.
LEMMA SlottedFinite == IsFiniteSet(Slotted) /\ Cardinality(Slotted) \in Nat
<1>1. Slotted \in SUBSET Workers
  BY DEF Slotted
<1> QED  BY <1>1, FS_Subset, FS_CardinalityType, DispatchAssumption

LEMMA InitShape == Init => Shape
<1> SUFFICES ASSUME Init PROVE Shape
  OBVIOUS
<1>1. task \in [Tasks -> TaskRow]
  BY DEF Init, TaskRow, Nobody
<1>2. Cardinality(Tasks) \in Nat
  BY FS_CardinalityType, DispatchAssumption
<1>3. line \in Lines
  BY <1>2 DEF Init, Lines
<1>4. agent \in [Agents -> AgentRow] /\ work \in [Workers -> Dispatch]
  BY Blank DEF Init
<1>5. spent \in Spent /\ reserved \in 0..Limit
  BY DispatchAssumption DEF Init, Spent
<1>6. TypeOK
  BY <1>1, <1>3, <1>4, <1>5, Types DEF Init
<1>7. Handed
  BY DEF Init, Handed, Idle, Launching
<1>8. Rows
  BY DEF Init, Rows
<1>9. Slotted = {}
  BY DEF Init, Slotted, Idle
<1> QED  BY <1>6, <1>7, <1>8, <1>9, FS_EmptySet DEF Shape, Backed, Init

\* A dispatch that changes a slot of its own changes the count by it.
LEMMA Recount ==
  ASSUME Shape, NEW d \in Workers, NEW w \in Dispatch, work' = [work EXCEPT ![d] = w]
  PROVE  Cardinality(Slotted') = IF w.slot THEN IF work[d].slot THEN Cardinality(Slotted)
                                                ELSE Cardinality(Slotted) + 1
                                 ELSE IF work[d].slot THEN Cardinality(Slotted) - 1
                                      ELSE Cardinality(Slotted)
<1>1. \A e \in Workers : work'[e] = IF e = d THEN w ELSE work[e]
  BY Types DEF Shape
<1>2. CASE w.slot
  <2>1. Slotted' = Slotted \union {d}
    BY <1>1, <1>2 DEF Slotted
  <2> QED  BY <1>2, <2>1, FS_AddElement, SlottedFinite DEF Slotted
<1>3. CASE ~w.slot
  <2>1. Slotted' = Slotted \ {d}
    BY <1>1, <1>3 DEF Slotted
  <2> QED  BY <1>3, <2>1, FS_RemoveElement, SlottedFinite DEF Slotted
<1> QED  BY <1>2, <1>3

LEMMA SameCount ==
  ASSUME Shape, UNCHANGED <<work, reserved>>
  PROVE  Handed' /\ Backed'
BY DEF Shape, Handed, Backed, Slotted

\* What has been reserved can be given back.
LEMMA Released ==
  ASSUME Shape, NEW d \in Workers, NEW w \in Dispatch, ~w.slot,
         work' = [work EXCEPT ![d] = w], reserved' = Release(d)
  PROVE  reserved' \in 0..Limit /\ Backed'
<1>1. reserved \in 0..Limit /\ Limit \in Nat /\ Cardinality(Slotted) =< reserved
  BY Types, DispatchAssumption DEF Shape, Backed
<1>2. CASE work[d].slot
  <2>1. Cardinality(Slotted') = Cardinality(Slotted) - 1 /\ reserved' = reserved - 1
    BY <1>2, Recount DEF Release
  <2>2. d \in Slotted
    BY <1>2 DEF Slotted
  <2>3. Cardinality(Slotted) # 0
    BY <2>2, FS_EmptySet, SlottedFinite
  <2> QED  BY <1>1, <2>1, <2>3, SlottedFinite DEF Backed
<1>3. CASE ~work[d].slot
  <2>1. Cardinality(Slotted') = Cardinality(Slotted) /\ reserved' = reserved
    BY <1>3, Recount DEF Release
  <2> QED  BY <1>1, <2>1 DEF Backed
<1> QED  BY <1>2, <1>3

\* A slot is there for what is not saturated.
LEMMA Reserved ==
  ASSUME Shape, NEW d \in Workers, NEW t \in Tasks, NEW w \in Dispatch, ~Saturated(t),
         ~work[d].slot, w.slot <=> t \in Limited,
         work' = [work EXCEPT ![d] = w], reserved' = Reserve(t)
  PROVE  reserved' \in 0..Limit /\ Backed'
<1>1. reserved \in 0..Limit /\ Limit \in Nat /\ Cardinality(Slotted) =< reserved
  BY Types, DispatchAssumption DEF Shape, Backed
<1>2. CASE t \in Limited
  <2>1. Cardinality(Slotted') = Cardinality(Slotted) + 1 /\ reserved' = reserved + 1
    BY <1>2, Recount DEF Reserve
  <2>2. OnModel \in SUBSET Agents
    BY DEF OnModel, Live
  <2>3. Cardinality(OnModel) \in Nat
    BY <2>2, FS_Subset, FS_CardinalityType, DispatchAssumption
  <2>4. Cardinality(OnModel) + reserved < Limit
    BY <1>1, <1>2, <2>3 DEF Saturated
  <2>5. reserved + 1 =< Limit
    BY <1>1, <2>3, <2>4
  <2> QED  BY <1>1, <2>1, <2>5, SlottedFinite DEF Backed
<1>3. CASE t \notin Limited
  <2>1. Cardinality(Slotted') = Cardinality(Slotted) /\ reserved' = reserved
    BY <1>3, Recount DEF Reserve
  <2> QED  BY <1>1, <2>1 DEF Backed
<1> QED  BY <1>2, <1>3

-----------------------------------------------------------------------------
(* What the pieces of a step leave behind. *)

LEMMA ToEndLines ==
  ASSUME line \in Lines, NEW t \in Tasks
  PROVE  ToEnd(t) \in Lines
<1> DEFINE n == Cardinality(Tasks)
<1>1. n \in Nat
  BY FS_CardinalityType, DispatchAssumption
<1>2. n # 0
  BY FS_EmptySet, DispatchAssumption
<1> HIDE DEF n
<1>3. \A u \in Tasks : line[u] \in 0..n
  BY DEF Lines, n
<1>4. ToEnd(t) = [u \in Tasks |-> IF u = t THEN n ELSE IF line[u] > line[t] THEN line[u] - 1 ELSE line[u]]
  BY DEF ToEnd, n
<1>5. ToEnd(t) \in [Tasks -> 0..n]
  BY <1>1, <1>3, <1>4
<1>6. ASSUME NEW u \in Tasks, NEW v \in Tasks, ToEnd(t)[u] = ToEnd(t)[v], ToEnd(t)[u] # 0
      PROVE  u = v
  <2>1. \A x, y \in Tasks : line[x] = line[y] => line[x] = 0 \/ x = y
    BY DEF Lines
  <2>2. \A x \in Tasks \ {t} : ToEnd(t)[x] = n => line[x] = n /\ line[t] = n
    BY <1>1, <1>2, <1>3, <1>4
  <2>3. ToEnd(t)[t] = n
    BY <1>4
  <2>4. CASE u = t \/ v = t
    BY <1>1, <1>2, <1>3, <1>6, <2>1, <2>2, <2>3, <2>4
  <2>5. CASE u # t /\ v # t
    BY <1>1, <1>3, <1>4, <1>6, <2>1, <2>5
  <2> QED  BY <2>4, <2>5
<1> QED  BY <1>5, <1>6 DEF Lines, n

LEMMA EnqueuedRows ==
  ASSUME NEW rows \in [Tasks -> TaskRow], NEW t \in Tasks
  PROVE  Enqueued(rows, t) \in [Tasks -> TaskRow]
BY DEF Enqueued, TaskRow

LEMMA StrayedRows ==
  ASSUME NEW rows \in [Tasks -> TaskRow], NEW a
  PROVE  Strayed(rows, a) \in [Tasks -> TaskRow]
<1>1. \A t \in Tasks : [rows[t] EXCEPT !.status = "pending", !.agent = Nobody] \in TaskRow
  BY DEF TaskRow, Taken
<1> QED  BY <1>1 DEF Strayed

\* A dispatch that has what it should.
Holds(w) ==
  /\ w.at = "idle" => w = Idle
  /\ w.at # "idle" => w.task \in Tasks
  /\ w.at \in Launching \union {"mark"} <=> w.agent # Nobody
  /\ w.slot <=> w.task \in Limited /\ w.at \in {"selected", "prep"} \union Launching

LEMMA IdleHolds == Holds(Idle)
BY DEF Holds, Idle, Launching

LEMMA Hands ==
  ASSUME Shape, NEW d \in Workers
  PROVE  Holds(work[d]) /\ work[d] \in Dispatch
BY Types DEF Shape, Handed, Holds

LEMMA StillHanded ==
  ASSUME Shape, NEW d \in Workers, NEW w \in Dispatch, Holds(w), work' = [work EXCEPT ![d] = w]
  PROVE  work' \in [Workers -> Dispatch] /\ Handed'
<1>1. \A e \in Workers : work'[e] = IF e = d THEN w ELSE work[e]
  BY Types DEF Shape
<1>2. \A e \in Workers : Holds(work'[e])
  BY <1>1, Hands
<1> QED  BY <1>1, <1>2, Types DEF Handed, Holds, Shape

\* An attempt that ends lets go of everything.
LEMMA RetreatShape ==
  ASSUME Shape, NEW d \in Workers, work[d].at # "idle", NEW rows \in [Tasks -> TaskRow],
         Retreat(d, rows)
  PROVE  /\ task' \in [Tasks -> TaskRow] /\ line' \in Lines /\ work' \in [Workers -> Dispatch]
         /\ reserved' \in 0..Limit /\ Handed' /\ Backed'
<1>1. work[d].task \in Tasks /\ line \in Lines
  BY Hands, Types DEF Holds, Shape
<1>2. work' = [work EXCEPT ![d] = Idle] /\ reserved' = Release(d)
  BY DEF Retreat
<1>3. task' \in [Tasks -> TaskRow] /\ line' \in Lines
  BY <1>1, EnqueuedRows, ToEndLines DEF Retreat
<1>4. work' \in [Workers -> Dispatch] /\ Handed'
  BY <1>2, Blank, IdleHolds, StillHanded
<1>5. ~Idle.slot
  BY DEF Idle
<1>6. reserved' \in 0..Limit /\ Backed'
  BY <1>2, <1>5, Blank, Released
<1> QED  BY <1>3, <1>4, <1>6

\* A row that is cleared, or written with a task.
LEMMA RowWritten ==
  ASSUME Shape, NEW a, NEW r, a \in Agents => r \in AgentRow /\ (r = Gone \/ (r.status # "terminated" /\ r.task \in Tasks)),
         agent' = [agent EXCEPT ![a] = r]
  PROVE  agent' \in [Agents -> AgentRow] /\ Rows'
<1>1. agent \in [Agents -> AgentRow]
  BY Types DEF Shape
<1>2. \A b \in Agents : agent'[b] = IF b = a THEN r ELSE agent[b]
  BY <1>1
<1>3. agent' \in [Agents -> AgentRow]
  BY <1>1, <1>2
<1> QED  BY <1>2, <1>3 DEF Rows, Shape

LEMMA SpendTyped ==
  ASSUME spent \in Spent, NEW what \in {"clicks", "faults", "crashes"}, Spend(what),
         what = "clicks" => spent.clicks < MaxClicks,
         what = "faults" => spent.faults < MaxFaults,
         what = "crashes" => spent.crashes < MaxCrashes
  PROVE  spent' \in Spent
<1>1. /\ spent.clicks \in 0..MaxClicks /\ spent.faults \in 0..MaxFaults
      /\ spent.crashes \in 0..MaxCrashes
  BY DEF Spent
<1>2. MaxClicks \in Nat /\ MaxFaults \in Nat /\ MaxCrashes \in Nat
  BY DispatchAssumption
<1>3. spent' = [spent EXCEPT ![what] = spent[what] + 1]
  BY DEF Spend
<1>4. CASE what = "clicks"
  BY <1>1, <1>2, <1>3, <1>4 DEF Spent
<1>5. CASE what = "faults"
  BY <1>1, <1>2, <1>3, <1>5 DEF Spent
<1>6. CASE what = "crashes"
  BY <1>1, <1>2, <1>3, <1>6 DEF Spent
<1> QED  BY <1>4, <1>5, <1>6

\* The first row nothing refers to is one that nothing refers to: otherwise
\* the rows before each of them were ever smaller sets.
LEMMA FirstUnused ==
  ASSUME Unused # {}
  PROVE  (CHOOSE a \in Unused : \A b \in Unused : a <= b) \in Unused
<1> DEFINE S == Unused
           before(x) == {y \in S : y < x}
           T == {before(x) : x \in S}
<1>0. Agents \subseteq Int
  BY DispatchAssumption
<1>1. S \subseteq Int /\ S \in SUBSET Agents
  BY <1>0 DEF Unused
<1>2. IsFiniteSet(S)
  BY <1>1, FS_Subset, DispatchAssumption
<1> HIDE DEF S
<1>3. T \subseteq FiniteSubsetsOf(S)
  BY <1>2, FS_FiniteSubsetsOfFinite
<1>4. IsWellFoundedOn(StrictSubsetOrdering(S), FiniteSubsetsOf(S))
  BY FS_StrictSubsetOrderingWellFounded
<1>5. T # {}
  BY DEF S
<1> HIDE DEF T
<1>6. PICK U \in T : \A V \in T : ~ (<<V, U>> \in StrictSubsetOrdering(S))
  BY <1>3, <1>4, <1>5, WFMin
<1> USE DEF T
<1>7. PICK m \in S : U = before(m)
  OBVIOUS
<1>8. ASSUME NEW y \in S, y < m PROVE FALSE
  <2>1. \A z \in S : z < y => z < m
    BY <1>1, <1>8
  <2>2. before(y) \subseteq before(m)
    BY <2>1
  <2>3. y \in before(m) /\ ~ (y < y)
    BY <1>1, <1>8
  <2>4. <<before(y), before(m)>> \in StrictSubsetOrdering(S)
    BY <2>2, <2>3 DEF StrictSubsetOrdering
  <2> QED  BY <1>6, <1>7, <2>4
<1>9. \A y \in S : m <= y
  BY <1>1, <1>8
<1> QED  BY <1>9 DEF S

-----------------------------------------------------------------------------
(* One lemma for each step: it keeps the shape of what the program has. *)

Formed ==
  /\ task \in [Tasks -> TaskRow] /\ line \in Lines /\ agent \in [Agents -> AgentRow]
  /\ work \in [Workers -> Dispatch] /\ called \in BOOLEAN /\ reserved \in 0..Limit
  /\ spent \in Spent /\ Handed /\ Rows /\ Backed

LEMMA ShapeIsFormed == Shape <=> Formed /\ opened \subseteq Tasks
BY Types DEF Shape, Formed

\* Only the rows of the tasks change.
LEMMA TasksOnly ==
  ASSUME Shape, task' \in [Tasks -> TaskRow], UNCHANGED <<line, agent, work, called, reserved, spent>>
  PROVE  Formed'
<1>1. Handed' /\ Backed'
  BY SameCount
<1> QED  BY <1>1, Types DEF Shape, Formed, Rows

LEMMA SubmitShape ==
  ASSUME Shape, NEW d \in Workers, NEW t \in Tasks, Submit(d, t)
  PROVE  Formed'
<1> DEFINE w == [Idle EXCEPT !.at = "enrich", !.task = t, !.kind = "create"]
<1>1. work' = [work EXCEPT ![d] = w] /\ reserved' = reserved
  BY DEF Submit
<1>2. w \in Dispatch /\ Holds(w) /\ ~w.slot
  BY DEF Dispatch, Holds, Idle, Launching, Nobody
<1> HIDE DEF w
<1>3. work' \in [Workers -> Dispatch] /\ Handed'
  BY <1>1, <1>2, StillHanded
<1>4. work[d] = Idle
  BY Hands DEF Submit, Free, Holds
<1>5. reserved' = Release(d)
  BY <1>1, <1>4 DEF Release, Idle
<1>6. reserved' \in 0..Limit /\ Backed'
  BY <1>1, <1>2, <1>5, Released
<1>7. task' \in [Tasks -> TaskRow]
  BY Types DEF Submit, Shape, TaskRow, Taken
<1>8. Rows' /\ line' \in Lines /\ agent' \in [Agents -> AgentRow] /\ called' \in BOOLEAN /\ spent' \in Spent
  BY Types DEF Submit, Shape, Rows
<1> QED  BY <1>3, <1>6, <1>7, <1>8 DEF Formed

LEMMA EnterShape ==
  ASSUME Shape, NEW d \in Workers, Enter(d)
  PROVE  Formed'
<1> DEFINE t == work[d].task
           w == [work[d] EXCEPT !.at = "prep", !.slot = t \in Limited]
<1>1. Holds(work[d]) /\ work[d] \in Dispatch /\ work[d].at = "enrich" /\ t \in Tasks /\ ~work[d].slot
  BY Hands DEF Enter, Holds, Launching
<1>2. CASE /\ task' = Enqueued(task, t) /\ line' = ToEnd(t)
           /\ work' = [work EXCEPT ![d] = Idle]
           /\ UNCHANGED <<agent, called, reserved, spent>>
  <2>1. task' \in [Tasks -> TaskRow] /\ line' \in Lines
    BY <1>1, <1>2, Types, EnqueuedRows, ToEndLines DEF Shape
  <2>2. work' \in [Workers -> Dispatch] /\ Handed'
    BY <1>2, Blank, IdleHolds, StillHanded
  <2>3. reserved' = Release(d) /\ ~Idle.slot
    BY <1>1, <1>2 DEF Release, Idle
  <2>4. reserved' \in 0..Limit /\ Backed'
    BY <1>2, <2>3, Blank, Released
  <2> QED  BY <1>2, <2>1, <2>2, <2>4, Types DEF Formed, Shape, Rows
<1>3. CASE /\ ~Saturated(t)
           /\ work' = [work EXCEPT ![d].at = "prep", ![d].slot = t \in Limited]
           /\ reserved' = Reserve(t)
           /\ UNCHANGED <<task, line, agent, called, spent>>
  <2>1. work' = [work EXCEPT ![d] = w]
    BY <1>3, Types DEF Shape
  <2>0. /\ w.at = "prep" /\ w.task = t /\ w.agent = work[d].agent
        /\ w.slot = (t \in Limited)
    BY <1>1 DEF Dispatch
  <2>9. PICK b \in BOOLEAN : b = (t \in Limited)
    BY Truth
  <2>8. w = [work[d] EXCEPT !.at = "prep", !.slot = b]
    BY <2>9
  <2>2. w \in Dispatch
    BY <1>1, <2>8 DEF Dispatch
  <2>3. Holds(w) /\ (w.slot <=> t \in Limited)
    BY <1>1, <2>0 DEF Holds, Launching
  <2> HIDE DEF w
  <2>4. work' \in [Workers -> Dispatch] /\ Handed'
    BY <2>1, <2>2, <2>3, StillHanded
  <2>5. reserved' \in 0..Limit /\ Backed'
    BY <1>1, <1>3, <2>1, <2>2, <2>3, Reserved
  <2> QED  BY <1>3, <2>4, <2>5, Types DEF Formed, Shape, Rows
<1> QED  BY <1>2, <1>3 DEF Enter

LEMMA SelectShape ==
  ASSUME Shape, NEW d \in Workers, Select(d)
  PROVE  Formed'
<1>1. PICK kind \in Passes :
        /\ called' = (called /\ kind # "call")
        /\ \/ UNCHANGED <<work, reserved>>
           \/ \E t \in NextQueued :
                /\ work' = [work EXCEPT ![d] = [Idle EXCEPT !.at = "selected", !.task = t,
                                                !.kind = kind, !.slot = t \in Limited]]
                /\ reserved' = Reserve(t)
  BY DEF Select
<1>2. UNCHANGED <<task, line, agent, spent>> /\ work[d] = Idle
  BY Hands DEF Select, Free, Holds
<1>3. task' \in [Tasks -> TaskRow] /\ line' \in Lines /\ agent' \in [Agents -> AgentRow]
      /\ spent' \in Spent /\ called' \in BOOLEAN /\ Rows'
  BY <1>1, <1>2, Types DEF Shape, Rows
<1>4. CASE UNCHANGED <<work, reserved>>
  BY <1>3, <1>4, SameCount, Types DEF Formed, Shape
<1>5. ASSUME NEW t \in NextQueued, NEW w,
             w = [Idle EXCEPT !.at = "selected", !.task = t, !.kind = kind, !.slot = t \in Limited],
             work' = [work EXCEPT ![d] = w], reserved' = Reserve(t)
      PROVE  Formed'
  <2>1. t \in Tasks /\ ~Saturated(t)
    BY DEF NextQueued
  <2>0. /\ w.at = "selected" /\ w.task = t /\ w.agent = Nobody
        /\ w.kind = kind /\ w.slot = (t \in Limited)
    BY <1>5 DEF Idle
  <2>9. PICK b \in BOOLEAN : b = (t \in Limited)
    BY Truth
  <2>8. w = [Idle EXCEPT !.at = "selected", !.task = t, !.kind = kind, !.slot = b]
    BY <1>5, <2>9
  <2>2. w \in Dispatch
    BY <2>1, <2>8 DEF Dispatch, Idle
  <2>6. Holds(w) /\ (w.slot <=> t \in Limited)
    BY <2>0, <2>1 DEF Holds, Launching
  <2>3. work' \in [Workers -> Dispatch] /\ Handed'
    BY <1>5, <2>2, <2>6, StillHanded
  <2>4. ~work[d].slot
    BY <1>2 DEF Idle
  <2>5. reserved' \in 0..Limit /\ Backed'
    BY <1>5, <2>1, <2>2, <2>4, <2>6, Reserved
  <2> QED  BY <1>3, <2>3, <2>5 DEF Formed
<1> QED  BY <1>1, <1>4, <1>5

LEMMA DequeueShape ==
  ASSUME Shape, NEW d \in Workers, Dequeue(d)
  PROVE  Formed'
<1> DEFINE t == work[d].task
           w == [work[d] EXCEPT !.at = "prep"]
<1>1. Holds(work[d]) /\ work[d] \in Dispatch /\ work[d].at = "selected" /\ t \in Tasks
  BY Hands DEF Dequeue, Holds
<1>2. UNCHANGED <<line, agent, called, reserved, spent>>
  BY DEF Dequeue
<1>3. reserved' \in 0..Limit /\ line' \in Lines /\ agent' \in [Agents -> AgentRow]
      /\ spent' \in Spent /\ called' \in BOOLEAN /\ Rows'
  BY <1>2, Types DEF Shape, Rows
<1>4. CASE /\ task' = [task EXCEPT ![t].status = "assigned"]
           /\ work' = [work EXCEPT ![d].at = "prep"]
  <2>1. work' = [work EXCEPT ![d] = w]
    BY <1>4, Types DEF Shape
  <2>2. w \in Dispatch /\ Holds(w) /\ (w.slot <=> work[d].slot)
    BY <1>1 DEF Dispatch, Holds, Launching
  <2> HIDE DEF w
  <2>3. work' \in [Workers -> Dispatch] /\ Handed'
    BY <2>1, <2>2, StillHanded
  <2>4. Cardinality(Slotted') = Cardinality(Slotted)
    BY <2>1, <2>2, Recount
  <2>5. task' \in [Tasks -> TaskRow]
    <3>1. task[t] \in TaskRow
      BY <1>1, Types DEF Shape
    <3>2. [task[t] EXCEPT !.status = "assigned"] \in TaskRow
      BY <3>1 DEF TaskRow, Taken
    <3> QED  BY <1>1, <1>4, <3>2, Types DEF Shape
  <2> QED  BY <1>2, <1>3, <2>3, <2>4, <2>5 DEF Formed, Backed, Shape
<1>5. CASE work' = [work EXCEPT ![d] = Idle] /\ UNCHANGED task
  <2>1. work' \in [Workers -> Dispatch] /\ Handed'
    BY <1>5, Blank, IdleHolds, StillHanded
  <2>2. Cardinality(Slotted') =< Cardinality(Slotted)
    <3>1. ~Idle.slot /\ Idle \in Dispatch
      BY Blank DEF Idle
    <3>2. Cardinality(Slotted') = IF work[d].slot THEN Cardinality(Slotted) - 1 ELSE Cardinality(Slotted)
      BY <1>5, <3>1, Recount
    <3> QED  BY <3>2, SlottedFinite
  <2>3. reserved \in Int /\ Cardinality(Slotted) =< reserved /\ reserved' = reserved
    BY <1>2, Types DEF Shape, Backed
  <2>4. Slotted' \in SUBSET Workers
    BY DEF Slotted
  <2>5. Cardinality(Slotted') \in Nat
    BY <2>4, FS_Subset, FS_CardinalityType, DispatchAssumption
  <2>6. Backed'
    BY <2>2, <2>3, <2>5, SlottedFinite DEF Backed
  <2> QED  BY <1>3, <1>5, <2>1, <2>6, Types DEF Formed, Shape
<1> QED  BY <1>4, <1>5 DEF Dequeue

LEMMA PrepFailsShape ==
  ASSUME Shape, NEW d \in Workers, PrepFails(d)
  PROVE  Formed'
<1> DEFINE t == work[d].task
           rows == IF work[d].kind = "create" THEN [task EXCEPT ![t].status = "failed"] ELSE task
<1>1. work[d].at # "idle" /\ Retreat(d, rows)
  BY DEF PrepFails
<1>0. task[t] \in TaskRow
  BY <1>1, Hands, Types DEF Shape, Holds
<1>6. [task[t] EXCEPT !.status = "failed"] \in TaskRow
  BY <1>0 DEF TaskRow, Terminal
<1>2. rows \in [Tasks -> TaskRow]
  BY <1>6, Types DEF Shape
<1> HIDE DEF rows
<1>3. /\ task' \in [Tasks -> TaskRow] /\ line' \in Lines /\ work' \in [Workers -> Dispatch]
      /\ reserved' \in 0..Limit /\ Handed' /\ Backed'
  BY <1>1, <1>2, RetreatShape
<1>4. UNCHANGED <<agent, called>> /\ spent.faults < MaxFaults /\ Spend("faults")
  BY DEF PrepFails
<1>5. spent' \in Spent
  BY <1>4, SpendTyped, Types DEF Shape
<1> QED  BY <1>3, <1>4, <1>5, Types DEF Formed, Shape, Rows

LEMMA PreparedShape ==
  ASSUME Shape, NEW d \in Workers, Prepared(d)
  PROVE  Formed'
<1> DEFINE t == work[d].task
<1>1. Holds(work[d]) /\ work[d] \in Dispatch /\ work[d].at = "prep" /\ t \in Tasks
  BY Hands DEF Prepared, Holds
<1>2. UNCHANGED <<called, spent>>
  BY DEF Prepared
<1>3. ASSUME NEW a \in LiveOn(t),
             work' = [work EXCEPT ![d].at = "mark", ![d].agent = a, ![d].slot = FALSE],
             reserved' = Release(d), UNCHANGED <<task, line, agent>>
      PROVE  Formed'
  <2> DEFINE w == [work[d] EXCEPT !.at = "mark", !.agent = a, !.slot = FALSE]
  <2>1. work' = [work EXCEPT ![d] = w]
    BY <1>3, Types DEF Shape
  <2>2. a \in Agents /\ a # Nobody
    BY DispatchAssumption DEF LiveOn, Live, Nobody
  <2>3. w \in Dispatch /\ Holds(w) /\ ~w.slot
    BY <1>1, <2>2 DEF Dispatch, Holds, Launching
  <2> HIDE DEF w
  <2>4. work' \in [Workers -> Dispatch] /\ Handed'
    BY <2>1, <2>3, StillHanded
  <2>5. reserved' \in 0..Limit /\ Backed'
    BY <1>3, <2>1, <2>3, Released
  <2> QED  BY <1>2, <1>3, <2>4, <2>5, Types DEF Formed, Shape, Rows
<1>4. CASE Retreat(d, task) /\ UNCHANGED agent
  <2>1. /\ task' \in [Tasks -> TaskRow] /\ line' \in Lines /\ work' \in [Workers -> Dispatch]
        /\ reserved' \in 0..Limit /\ Handed' /\ Backed'
    BY <1>1, <1>4, RetreatShape, Types DEF Shape
  <2> QED  BY <1>2, <1>4, <2>1, Types DEF Formed, Shape, Rows
<1>5. ASSUME NEW a \in Unused,
             agent' = [agent EXCEPT ![a] = [Gone EXCEPT !.status = "idle", !.task = t]],
             work' = [work EXCEPT ![d].at = "launch", ![d].agent = a],
             UNCHANGED <<task, line, reserved>>
      PROVE  Formed'
  <2> DEFINE w == [work[d] EXCEPT !.at = "launch", !.agent = a]
             r == [Gone EXCEPT !.status = "idle", !.task = t]
  <2>1. work' = [work EXCEPT ![d] = w]
    BY <1>5, Types DEF Shape
  <2>2. a \in Agents /\ a # Nobody
    BY DispatchAssumption DEF Unused, Nobody
  <2>3. w \in Dispatch /\ Holds(w) /\ (w.slot <=> work[d].slot)
    BY <1>1, <2>2 DEF Dispatch, Holds, Launching
  <2> HIDE DEF w
  <2>4. work' \in [Workers -> Dispatch] /\ Handed'
    BY <2>1, <2>3, StillHanded
  <2>5. Cardinality(Slotted') = Cardinality(Slotted)
    BY <2>1, <2>3, Recount
  <2>6. r \in AgentRow /\ r.status # "terminated" /\ r.task \in Tasks
    BY <1>1 DEF AgentRow, Gone
  <2> HIDE DEF r
  <2>7. agent' = [agent EXCEPT ![a] = r]
    BY <1>5 DEF r
  <2>8. agent' \in [Agents -> AgentRow] /\ Rows'
    BY <2>6, <2>7, RowWritten
  <2> QED  BY <1>2, <1>5, <2>4, <2>5, <2>8, Types DEF Formed, Shape, Backed
<1> QED  BY <1>3, <1>4, <1>5, FirstUnused DEF Prepared

LEMMA LaunchedShape ==
  ASSUME Shape, NEW d \in Workers, Launched(d)
  PROVE  Formed'
<1> DEFINE t == work[d].task
           a == work[d].agent
           w == [work[d] EXCEPT !.at = "check"]
           r == [agent[a] EXCEPT !.status = "working", !.task = t, !.model = TRUE, !.session = TRUE]
<1>1. Holds(work[d]) /\ work[d] \in Dispatch /\ work[d].at = "launch" /\ t \in Tasks
  BY Hands DEF Launched, Holds
<1>2. UNCHANGED <<task, line, called, reserved, spent>>
  BY DEF Launched
<1>3. work' = [work EXCEPT ![d] = w] /\ agent' = [agent EXCEPT ![a] = r]
  BY Types DEF Shape, Launched
<1>4. w \in Dispatch /\ Holds(w) /\ (w.slot <=> work[d].slot)
  BY <1>1 DEF Dispatch, Holds, Launching
<1>5. a \in Agents
  BY <1>1 DEF Holds, Launching, Dispatch
<1>6. agent[a] \in AgentRow
  BY <1>5, Types DEF Shape
<1>7. r \in AgentRow /\ r.status # "terminated" /\ r.task \in Tasks
  BY <1>1, <1>6 DEF AgentRow
<1> HIDE DEF w, r
<1>8. work' \in [Workers -> Dispatch] /\ Handed'
  BY <1>3, <1>4, StillHanded
<1>9. Cardinality(Slotted') = Cardinality(Slotted)
  BY <1>3, <1>4, Recount
<1>10. agent' \in [Agents -> AgentRow] /\ Rows'
  BY <1>3, <1>7, RowWritten
<1> QED  BY <1>2, <1>8, <1>9, <1>10, Types DEF Formed, Shape, Backed

LEMMA LaunchFailsShape ==
  ASSUME Shape, NEW d \in Workers, LaunchFails(d)
  PROVE  Formed'
<1> DEFINE t == work[d].task
           a == work[d].agent
           rows == [Strayed(task, a) EXCEPT ![t].status = "failed"]
<1>1. work[d].at # "idle" /\ Retreat(d, rows)
  BY DEF LaunchFails
<1>2. Strayed(task, a) \in [Tasks -> TaskRow]
  BY StrayedRows, Types DEF Shape
<1>3. rows \in [Tasks -> TaskRow]
  BY <1>2 DEF TaskRow, Terminal
<1> HIDE DEF rows
<1>4. /\ task' \in [Tasks -> TaskRow] /\ line' \in Lines /\ work' \in [Workers -> Dispatch]
      /\ reserved' \in 0..Limit /\ Handed' /\ Backed'
  BY <1>1, <1>3, RetreatShape
<1>5. /\ agent' = [agent EXCEPT ![a] = Gone] /\ UNCHANGED called
      /\ spent.faults < MaxFaults /\ Spend("faults")
  BY DEF LaunchFails
<1>6. spent' \in Spent
  BY <1>5, SpendTyped, Types DEF Shape
<1>7. agent' \in [Agents -> AgentRow] /\ Rows'
  BY <1>5, Blank, RowWritten
<1> QED  BY <1>4, <1>5, <1>6, <1>7, Types DEF Formed, Shape

LEMMA CheckShape ==
  ASSUME Shape, NEW d \in Workers, Check(d)
  PROVE  Formed'
<1> DEFINE a == work[d].agent
           w == [work[d] EXCEPT !.at = "mark", !.slot = FALSE]
           r == [agent[a] EXCEPT !.session = FALSE]
<1>1. Holds(work[d]) /\ work[d] \in Dispatch /\ work[d].at = "check" /\ work[d].task \in Tasks
  BY Hands DEF Check, Holds
<1>2. UNCHANGED <<task, line, called, spent>> /\ reserved' = Release(d)
  BY DEF Check
<1>3. work' = [work EXCEPT ![d] = w]
  BY Types DEF Shape, Check
<1>4. agent' = agent \/ agent' = [agent EXCEPT ![a] = r]
  BY DEF Check
<1>5. w \in Dispatch /\ Holds(w) /\ ~w.slot
  BY <1>1 DEF Dispatch, Holds, Launching
<1>6. a \in Agents
  BY <1>1 DEF Holds, Launching, Dispatch
<1>7. agent[a] \in AgentRow /\ (agent[a] = Gone \/ (agent[a].status # "terminated" /\ agent[a].task \in Tasks))
  BY <1>6, Types DEF Shape, Rows
<1>8. r \in AgentRow
  BY <1>7 DEF AgentRow
<1>9. r = Gone \/ (r.status # "terminated" /\ r.task \in Tasks)
  <2>1. CASE agent[a] = Gone
    <3>1. PICK no \in BOOLEAN : no = FALSE
      OBVIOUS
    <3>2. Gone = [status |-> "terminated", task |-> None, model |-> no, session |-> no, leaving |-> no]
      BY <3>1 DEF Gone
    <3>3. [Gone EXCEPT !.session = no] = Gone
      BY <3>2
    <3> QED  BY <2>1, <3>1, <3>3
  <2>2. CASE agent[a].status # "terminated" /\ agent[a].task \in Tasks
    BY <1>7, <2>2 DEF AgentRow
  <2> QED  BY <1>7, <2>1, <2>2
<1> HIDE DEF w, r
<1>10. work' \in [Workers -> Dispatch] /\ Handed'
  BY <1>3, <1>5, StillHanded
<1>11. reserved' \in 0..Limit /\ Backed'
  BY <1>2, <1>3, <1>5, Released
<1>12. agent' \in [Agents -> AgentRow] /\ Rows'
  <2>1. CASE agent' = agent
    BY <2>1, Types DEF Shape, Rows
  <2>2. CASE agent' = [agent EXCEPT ![a] = r]
    BY <2>2, <1>8, <1>9, RowWritten
  <2> QED  BY <1>4, <2>1, <2>2
<1> QED  BY <1>2, <1>10, <1>11, <1>12, Types DEF Formed, Shape

LEMMA MarkShape ==
  ASSUME Shape, NEW d \in Workers, Mark(d)
  PROVE  Formed'
<1> DEFINE t == work[d].task
<1>1. Holds(work[d]) /\ work[d] \in Dispatch /\ work[d].at = "mark" /\ t \in Tasks
  BY Hands DEF Mark, Holds
<1>2. work' = [work EXCEPT ![d] = Idle] /\ UNCHANGED <<line, agent, called, reserved, spent>>
  BY DEF Mark
<1>3. work' \in [Workers -> Dispatch] /\ Handed'
  BY <1>2, Blank, IdleHolds, StillHanded
<1>4. reserved' = Release(d) /\ ~Idle.slot
  BY <1>1, <1>2 DEF Release, Holds, Launching, Idle
<1>5. reserved' \in 0..Limit /\ Backed'
  BY <1>2, <1>4, Blank, Released
<1>6. Marked(task[t], work[d].agent, work[d].kind) \in TaskRow
  <2>1. task[t] \in TaskRow /\ work[d].agent \in Agents \union {Nobody}
    BY <1>1, Types DEF Shape, Dispatch
  <2> QED  BY <2>1 DEF Marked, TaskRow, Taken
<1>7. task' \in [Tasks -> TaskRow]
  BY <1>1, <1>6, Types DEF Shape, Mark
<1> QED  BY <1>2, <1>3, <1>5, <1>7, Types DEF Formed, Shape, Rows

LEMMA ReportShape ==
  ASSUME Shape, NEW a \in Agents, Report(a)
  PROVE  Formed'
<1> DEFINE r == [agent[a] EXCEPT !.leaving = TRUE]
<1>1. agent[a] \in AgentRow /\ agent[a] # Gone /\ agent[a].status # "terminated" /\ agent[a].task \in Tasks
  BY Types DEF Shape, Rows, Report, Prompted, Gone
<1>2. agent' = [agent EXCEPT ![a] = r] /\ UNCHANGED <<line, work, called, reserved, spent>>
  BY Types DEF Shape, Report
<1>3. r \in AgentRow /\ r.status # "terminated" /\ r.task \in Tasks
  BY <1>1 DEF AgentRow
<1> HIDE DEF r
<1>4. agent' \in [Agents -> AgentRow] /\ Rows'
  BY <1>2, <1>3, RowWritten
<1>5. task' \in [Tasks -> TaskRow]
  <2>1. PICK outcome \in Terminal : task' = [task EXCEPT ![agent[a].task].status = outcome]
    BY DEF Report
  <2>2. task[agent[a].task] \in TaskRow
    BY <1>1, Types DEF Shape
  <2> QED  BY <2>1, <2>2, Types DEF Shape, TaskRow
<1>6. Handed' /\ Backed'
  BY <1>2, SameCount
<1> QED  BY <1>2, <1>4, <1>5, <1>6, Types DEF Formed, Shape

LEMMA LeaveShape ==
  ASSUME Shape, NEW a \in Agents, Leave(a)
  PROVE  Formed'
<1>1. /\ agent' = [agent EXCEPT ![a] = Gone] /\ task' = Strayed(task, a)
      /\ called' = (called \/ agent[a].leaving) /\ UNCHANGED <<line, work, reserved, spent>>
  BY DEF Leave
<1>2. agent' \in [Agents -> AgentRow] /\ Rows'
  BY <1>1, Blank, RowWritten
<1>3. task' \in [Tasks -> TaskRow]
  BY <1>1, StrayedRows, Types DEF Shape
<1>4. Handed' /\ Backed'
  BY <1>1, SameCount
<1>5. called' \in BOOLEAN
  BY <1>1
<1> QED  BY <1>1, <1>2, <1>3, <1>4, <1>5, Types DEF Formed, Shape

LEMMA NeverStartedShape ==
  ASSUME Shape, NEW a \in Agents, NeverStarted(a)
  PROVE  Formed'
<1> DEFINE t == agent[a].task
           rows == Strayed(task, a)
<1>1. /\ agent' = [agent EXCEPT ![a] = Gone] /\ UNCHANGED <<line, work, called, reserved, spent>>
      /\ task' = IF rows[t].status \in {"assigned", "in_progress"}
                 THEN [rows EXCEPT ![t].status = "pending", ![t].agent = Nobody] ELSE rows
  BY DEF NeverStarted
<1>2. agent' \in [Agents -> AgentRow] /\ Rows'
  BY <1>1, Blank, RowWritten
<1>3. rows \in [Tasks -> TaskRow]
  BY StrayedRows, Types DEF Shape
<1> HIDE DEF rows
<1>4. task' \in [Tasks -> TaskRow]
  <2>1. t \in Tasks
    BY DEF NeverStarted, Shape, Rows, Gone
  <2>2. rows[t] \in TaskRow
    BY <1>3, <2>1
  <2>3. [rows[t] EXCEPT !.status = "pending", !.agent = Nobody] \in TaskRow
    BY <2>2 DEF TaskRow, Taken
  <2>4. CASE rows[t].status \in {"assigned", "in_progress"}
    <3>1. task' = [rows EXCEPT ![t] = [rows[t] EXCEPT !.status = "pending", !.agent = Nobody]]
      BY <1>1, <1>3, <2>1, <2>4
    <3> QED  BY <1>3, <2>3, <3>1
  <2>5. CASE ~(rows[t].status \in {"assigned", "in_progress"})
    BY <1>1, <1>3, <2>5
  <2> QED  BY <2>4, <2>5
<1>5. Handed' /\ Backed'
  BY <1>1, SameCount
<1> QED  BY <1>1, <1>2, <1>4, <1>5, Types DEF Formed, Shape

LEMMA ClickShape ==
  ASSUME Shape, Click
  PROVE  Formed'
<1>1. PICK t \in Tasks : PauseTask(t) \/ CancelTask(t) \/ RestartTask(t)
  BY DEF Click
<1>2. Spend("clicks") /\ spent.clicks < MaxClicks /\ UNCHANGED <<line, called, reserved>>
  BY <1>1 DEF Click, PauseTask, CancelTask, RestartTask
<1>3. spent' \in Spent
  BY <1>2, SpendTyped, Types DEF Shape
<1>4. task[t] \in TaskRow
  BY Types DEF Shape
<1>5. CASE PauseTask(t)
  <2> DEFINE a == task[t].agent
             r == [agent[a] EXCEPT !.leaving = TRUE]
  <2>1. task' \in [Tasks -> TaskRow]
    <3>1. PICK b \in Agents \union {Nobody} :
            task' = [task EXCEPT ![t] = [task[t] EXCEPT !.status = "blocked", !.agent = b]]
      BY <1>4, <1>5, Types DEF Shape, PauseTask, TaskRow
    <3>2. [task[t] EXCEPT !.status = "blocked", !.agent = b] \in TaskRow
      BY <1>4 DEF TaskRow
    <3> QED  BY <3>1, <3>2, Types DEF Shape
  <2>2. agent' = agent \/ (a \in Live /\ agent' = [agent EXCEPT ![a] = r])
    BY <1>5, Types DEF PauseTask, Shape
  <2>3. ASSUME agent' = agent
        PROVE  agent' \in [Agents -> AgentRow] /\ Rows'
    BY <2>3, Types DEF Shape, Rows
  <2>4. ASSUME a \in Live, agent' = [agent EXCEPT ![a] = r]
        PROVE  agent' \in [Agents -> AgentRow] /\ Rows'
    <3>1. agent[a] \in AgentRow /\ agent[a].status # "terminated" /\ agent[a].task \in Tasks
      BY <2>4, Types DEF Shape, Rows, Live, Gone
    <3>2. r \in AgentRow /\ r.status # "terminated" /\ r.task \in Tasks
      BY <3>1 DEF AgentRow
    <3> HIDE DEF r
    <3> QED  BY <2>4, <3>2, RowWritten
  <2>5. UNCHANGED work
    BY <1>5 DEF PauseTask
  <2>6. Handed' /\ Backed'
    BY <1>2, <2>5, SameCount
  <2> QED  BY <1>2, <1>3, <2>1, <2>2, <2>3, <2>4, <2>5, <2>6, Types DEF Formed, Shape, Rows
<1>6. CASE CancelTask(t)
  <2>1. task' \in [Tasks -> TaskRow] /\ UNCHANGED <<agent, work>>
    BY <1>6, Types DEF Shape, CancelTask, TaskRow, Terminal
  <2>2. Handed' /\ Backed'
    BY <1>2, <2>1, SameCount
  <2> QED  BY <1>2, <1>3, <2>1, <2>2, Types DEF Formed, Shape, Rows
<1>7. CASE RestartTask(t)
  <2> DEFINE w == [Idle EXCEPT !.at = "enrich", !.task = t, !.kind = "restart"]
  <2>1. PICK d \in Workers : Free(d) /\ work' = [work EXCEPT ![d] = w]
    BY <1>7 DEF RestartTask
  <2>2. w \in Dispatch /\ Holds(w) /\ ~w.slot
    BY DEF Dispatch, Holds, Idle, Launching, Nobody
  <2> HIDE DEF w
  <2>3. work' \in [Workers -> Dispatch] /\ Handed'
    BY <2>1, <2>2, StillHanded
  <2>4. work[d] = Idle
    BY <2>1, Hands DEF Free, Holds
  <2>5. reserved' = Release(d)
    BY <1>2, <2>4 DEF Release, Idle
  <2>6. reserved' \in 0..Limit /\ Backed'
    BY <2>1, <2>2, <2>5, Released
  <2>7. task' \in [Tasks -> TaskRow] /\ UNCHANGED agent
    BY <1>4, <1>7, Types DEF Shape, RestartTask, TaskRow, Taken
  <2> QED  BY <1>2, <1>3, <2>3, <2>6, <2>7, Types DEF Formed, Shape, Rows
<1> QED  BY <1>1, <1>5, <1>6, <1>7

LEMMA SweepShape ==
  ASSUME Shape, NEW t \in Tasks, Sweep(t) \/ Ages(t)
  PROVE  Formed'
<1>1. UNCHANGED <<line, agent, work, called, reserved, spent>>
  BY DEF Sweep, Ages, Stale, Stranded, GivenUp
<1>2. task' \in [Tasks -> TaskRow]
  <2>1. CASE Stale(t)
    BY <2>1, Types DEF Shape, Stale, TaskRow, Terminal
  <2>2. CASE Stranded(t)
    BY <2>2, Types DEF Shape, Stranded, TaskRow
  <2>3. CASE GivenUp(t)
    BY <2>3, Types DEF Shape, GivenUp, TaskRow, Terminal
  <2>4. CASE Ages(t)
    <3>1. task[t] \in TaskRow
      BY Types DEF Shape
    <3>2. [task[t] EXCEPT !.old = TRUE] \in TaskRow
      BY <3>1 DEF TaskRow
    <3> QED  BY <2>4, <3>2, Types DEF Shape, Ages
  <2> QED  BY <2>1, <2>2, <2>3, <2>4 DEF Sweep
<1> QED  BY <1>1, <1>2, TasksOnly

LEMMA CrashShape ==
  ASSUME Shape, Crash
  PROVE  Formed'
<1>1. /\ work' = [d \in Workers |-> Idle] /\ reserved' = 0 /\ called' = FALSE
      /\ UNCHANGED <<task, line>> /\ spent.crashes < MaxCrashes /\ Spend("crashes")
  BY DEF Crash
<1>2. \A a \in Agents :
        agent'[a] \in AgentRow
        /\ (agent'[a] = Gone \/ (agent'[a].status # "terminated" /\ agent'[a].task \in Tasks))
  <2> SUFFICES ASSUME NEW a \in Agents
               PROVE  agent'[a] \in AgentRow
                      /\ (agent'[a] = Gone \/ (agent'[a].status # "terminated" /\ agent'[a].task \in Tasks))
    OBVIOUS
  <2>1. agent[a] \in AgentRow
        /\ (agent[a] = Gone \/ (agent[a].status # "terminated" /\ agent[a].task \in Tasks))
    BY Types DEF Shape, Rows
  <2>2. \/ agent'[a] = agent[a]
        \/ a \in Live /\ agent'[a] = [agent[a] EXCEPT !.status = "working", !.session = TRUE]
    BY DEF Crash
  <2>3. a \in Live => agent[a] # Gone
    BY DEF Live, Gone
  <2> QED  BY <2>1, <2>2, <2>3 DEF AgentRow
<1>3. agent' \in [Agents -> AgentRow] /\ Rows'
  BY <1>2 DEF Crash, Rows
<1>4. work' \in [Workers -> Dispatch] /\ Handed'
  BY <1>1, Blank, IdleHolds DEF Handed, Holds
<1>5. Slotted' = {}
  BY <1>1 DEF Slotted, Idle
<1>6. reserved' \in 0..Limit /\ Backed'
  BY <1>1, <1>5, FS_EmptySet, DispatchAssumption DEF Backed
<1>7. spent' \in Spent
  BY <1>1, SpendTyped, Types DEF Shape
<1> QED  BY <1>1, <1>3, <1>4, <1>6, <1>7, Types DEF Formed, Shape

LEMMA ActsShape == Shape /\ Acts => Formed'
BY SubmitShape, EnterShape, SelectShape, DequeueShape, PrepFailsShape, PreparedShape,
   LaunchedShape, LaunchFailsShape, CheckShape, MarkShape, ReportShape, LeaveShape,
   NeverStartedShape, ClickShape, SweepShape, CrashShape DEF Acts, Step

LEMMA NextShape == Shape /\ [Next]_vars => Shape'
<1> SUFFICES ASSUME Shape, [Next]_vars PROVE Shape'
  OBVIOUS
<1>1. CASE Next
  <2>1. Formed'
    BY <1>1, ActsShape DEF Next
  <2>2. opened' \subseteq Tasks
    BY <1>1, Types DEF Next, Shape
  <2> QED  BY <2>1, <2>2 DEF Formed, Shape, TypeOK, TaskRow, AgentRow, Dispatch, Lines, Spent
<1>2. CASE UNCHANGED vars
  <2>1. UNCHANGED <<task, line, agent, work, called, reserved, spent, opened>>
    BY <1>2 DEF vars, program
  <2>2. TypeOK'
    BY <2>1 DEF Shape, TypeOK
  <2>3. Handed' /\ Backed'
    BY <2>1, SameCount
  <2> QED  BY <2>1, <2>2, <2>3 DEF Shape, Rows
<1> QED  BY <1>1, <1>2

\* Every row, dispatch and count has its type, for any tasks, agents, slots and
\* faults: a slot that is given back had been reserved
\* (QueueService.release_cli_model_slot).
THEOREM TypeCorrect == Spec => []TypeOK
<1>1. Shape => TypeOK
  BY DEF Shape
<1> QED  BY <1>1, InitShape, NextShape, PTL DEF Spec

-----------------------------------------------------------------------------
(* Who refers to which row, and who is live on a task.  Most steps only      *)
(* take away.                                                                *)

TakesAway ==
  /\ \A t \in Tasks : task'[t].agent \in {task[t].agent, Nobody}
  /\ \A a \in Agents : \/ agent'[a] = Gone
                       \/ /\ agent[a] # Gone /\ agent'[a].status # "terminated"
                          /\ agent'[a].task = agent[a].task
  /\ \A d \in Workers : \/ work'[d].agent = Nobody /\ work'[d].at \notin Launching
                        \/ /\ work'[d].agent = work[d].agent /\ work'[d].task = work[d].task
                           /\ work'[d].at \in Launching => work[d].at \in Launching

\* Nobody is told to go, and a row is lost to its launch only where the task
\* is over or was opened again.
Spares ==
  /\ \A a \in Agents : agent'[a].leaving => agent[a].leaving
  /\ \A d \in Workers : LET a == work[d].agent IN
       work'[d].at \in Launching /\ agent[a] # Gone /\ agent'[a] = Gone =>
         work[d].task \in opened \/ Settled(task[work[d].task])

Remembered == opened' = opened \union {t \in Tasks : Settled(task[t]) /\ ~Settled(task'[t])}

LEMMA Live_ ==
  ASSUME Shape
  PROVE  /\ \A a \in Agents : a \in Live <=> agent[a] # Gone
         /\ \A a \in Agents : agent[a] # Gone => agent[a].status # "terminated" /\ agent[a].task \in Tasks
         /\ \A a \in Agents : agent[a].leaving \/ agent[a].session => agent[a] # Gone
<1>1. \A a \in Agents : agent[a] \in AgentRow
  BY Types DEF Shape
<1>2. \A a \in Agents : agent[a] # Gone => agent[a].status # "terminated" /\ agent[a].task \in Tasks
  BY DEF Shape, Rows
<1>3. Gone.status = "terminated" /\ ~Gone.leaving /\ ~Gone.session
  BY DEF Gone
<1> QED  BY <1>1, <1>2, <1>3 DEF Live, AgentRow

LEMMA Referred ==
  ASSUME Shape, NEW d \in Workers, work[d].agent # Nobody
  PROVE  work[d].agent \in Agents /\ work[d].task \in Tasks /\ work[d].at \in Launching \union {"mark"}
<1>1. Holds(work[d]) /\ work[d] \in Dispatch
  BY Hands
<1> QED  BY <1>1 DEF Holds, Dispatch, Launching

LEMMA LaunchHasRow ==
  ASSUME Shape, NEW d \in Workers, work[d].at \in Launching
  PROVE  work[d].agent \in Agents /\ work[d].agent # Nobody /\ work[d].task \in Tasks
<1>1. Holds(work[d]) /\ work[d] \in Dispatch
  BY Hands
<1> QED  BY <1>1 DEF Holds, Dispatch, Launching

\* The parts, one by one.
LEMMA Agreement ==
  ASSUME Agreed
  PROVE  RowOfDispatch /\ RowOfTask /\ DispatchesAgree /\ TaskOfDispatch /\ OneTask /\ OneLaunch
BY DEF Agreed

LEMMA TakesAwayAgreed ==
  ASSUME Shape, Agreed, TakesAway
  PROVE  Agreed'
<1>1. \A t \in Tasks : task'[t].agent # Nobody => task'[t].agent = task[t].agent /\ task[t].agent \in Agents
  BY Types DEF TakesAway, Shape, TaskRow
<1>2. \A d \in Workers : work'[d].agent # Nobody =>
        work'[d].agent = work[d].agent /\ work[d].agent \in Agents /\ work'[d].task = work[d].task
  BY Referred DEF TakesAway
<1>3. \A d \in Workers : work'[d].at \in Launching =>
        work[d].at \in Launching /\ work'[d].agent = work[d].agent
  BY DEF TakesAway
<1>4. \A a \in Agents : agent'[a] = Gone \/ (agent[a] # Gone /\ agent'[a].task = agent[a].task)
  BY DEF TakesAway
<1>5. \A d \in Workers : work'[d].agent # Nobody =>
        agent'[work'[d].agent] = Gone \/ agent'[work'[d].agent].task = work'[d].task
  BY <1>2, <1>4, Agreement DEF RowOfDispatch
<1>6. \A t \in Tasks : task'[t].agent # Nobody =>
        agent'[task'[t].agent] = Gone \/ agent'[task'[t].agent].task = t
  BY <1>1, <1>4, Agreement DEF RowOfTask
<1>7. \A d, e \in Workers : work'[d].agent # Nobody /\ work'[d].agent = work'[e].agent =>
        work'[d].task = work'[e].task
  BY <1>2, Agreement DEF DispatchesAgree
<1>8. \A d \in Workers, t \in Tasks : work'[d].agent # Nobody /\ work'[d].agent = task'[t].agent =>
        work'[d].task = t
  BY <1>1, <1>2, Agreement DEF TaskOfDispatch
<1>9. \A t, u \in Tasks : task'[t].agent # Nobody /\ task'[t].agent = task'[u].agent => t = u
  BY <1>1, Agreement DEF OneTask
<1>10. ASSUME NEW d \in Workers, NEW e \in Workers, work'[d].at \in Launching,
              work'[e].at \in Launching, work'[d].agent = work'[e].agent
       PROVE  d = e
  <2>1. work[d].at \in Launching /\ work[e].at \in Launching /\ work[d].agent = work[e].agent
    BY <1>3, <1>10
  <2> QED  BY <2>1, Agreement DEF OneLaunch
<1> QED  BY <1>5, <1>6, <1>7, <1>8, <1>9, <1>10
        DEF Agreed, RowOfDispatch, RowOfTask, DispatchesAgree, TaskOfDispatch, OneTask, OneLaunch

LEMMA TakesAwayOne ==
  ASSUME Shape, Agreed, Leaving, Single, TakesAway, Spares, Remembered, Formed'
  PROVE  Leaving' /\ Single'
<1>1. ASSUME NEW a \in Agents, agent'[a].leaving
      PROVE  agent'[a].task \in opened' \/ Settled(task'[agent'[a].task])
  <2>1. agent[a].leaving /\ agent[a] # Gone
    BY <1>1, Live_ DEF Spares
  <2>2. agent'[a] # Gone
    BY <1>1 DEF Gone
  <2>3. agent'[a].task = agent[a].task /\ agent[a].task \in Tasks
    BY <2>1, <2>2, Live_ DEF TakesAway
  <2>4. agent[a].task \in opened \/ Settled(task[agent[a].task])
    BY <2>1 DEF Leaving
  <2> QED  BY <2>3, <2>4 DEF Remembered
<1>2. ASSUME NEW t \in Tasks \ opened', ~Settled(task'[t])
      PROVE  /\ \A a, b \in LiveOn(t)' : a = b
             /\ \A d \in Workers : work'[d].task = t /\ work'[d].at \in Launching => work'[d].agent \in LiveOn(t)'
  <2>1. t \notin opened /\ ~Settled(task[t])
    BY <1>2 DEF Remembered
  <2>2. \A a \in Agents : a \in LiveOn(t)' => a \in LiveOn(t)
    <3>1. ASSUME NEW a \in Agents, a \in LiveOn(t)' PROVE a \in LiveOn(t)
      <4>1. agent'[a].status # "terminated" /\ agent'[a].task = t
        BY <3>1 DEF LiveOn, Live
      <4>3. agent'[a] # Gone
        BY <4>1 DEF Gone
      <4>2. agent[a] # Gone /\ agent[a].task = t
        BY <4>1, <4>3 DEF TakesAway
      <4> QED  BY <4>2, Live_ DEF LiveOn
    <3> QED  BY <3>1
  <2>3. LiveOn(t)' \subseteq Agents
    BY DEF LiveOn, Live
  <2>4. \A a, b \in LiveOn(t)' : a = b
    BY <2>1, <2>2, <2>3 DEF Single
  <2>5. ASSUME NEW d \in Workers, work'[d].task = t, work'[d].at \in Launching
        PROVE  work'[d].agent \in LiveOn(t)'
    <3>1. work'[d].agent = work[d].agent /\ work[d].task = t /\ work[d].at \in Launching
      BY <2>5 DEF TakesAway
    <3> DEFINE a == work[d].agent
    <3>2. a \in LiveOn(t)
      BY <2>1, <3>1 DEF Single
    <3>3. a \in Agents /\ agent[a] # Gone /\ agent[a].task = t
      BY <3>2, Live_ DEF LiveOn, Live
    <3>4. agent'[a] # Gone
      BY <2>1, <2>5, <3>1, <3>3 DEF Spares
    <3>5. agent'[a].status # "terminated" /\ agent'[a].task = t
      BY <3>3, <3>4 DEF TakesAway
    <3>6. agent'[a] \in AgentRow
      BY <3>3 DEF Formed
    <3> QED  BY <3>1, <3>3, <3>5, <3>6 DEF LiveOn, Live, AgentRow
  <2> QED  BY <2>4, <2>5
<1> QED  BY <1>1, <1>2 DEF Leaving, Single, LiveOn, Live

LEMMA LosesAgents ==
  ASSUME NEW rows \in [Tasks -> TaskRow], NEW a
  PROVE  \A t \in Tasks : Strayed(rows, a)[t].agent \in {rows[t].agent, Nobody}
<1>1. \A t \in Tasks : rows[t] \in TaskRow
  OBVIOUS
<1>2. \A t \in Tasks : [rows[t] EXCEPT !.status = "pending", !.agent = Nobody].agent = Nobody
  BY <1>1 DEF TaskRow
<1> QED  BY <1>2 DEF Strayed

LEMMA QueuedAgents ==
  ASSUME NEW rows \in [Tasks -> TaskRow], NEW u \in Tasks
  PROVE  \A t \in Tasks : Enqueued(rows, u)[t].agent = rows[t].agent
BY DEF Enqueued, TaskRow

\* The rows and the dispatches as they are.
LEMMA SameRows ==
  ASSUME Shape, UNCHANGED agent
  PROVE  /\ \A a \in Agents : \/ agent'[a] = Gone
                              \/ /\ agent[a] # Gone /\ agent'[a].status # "terminated"
                                 /\ agent'[a].task = agent[a].task
         /\ Spares
BY Live_ DEF Spares

LEMMA OneIdle ==
  ASSUME Shape, NEW d \in Workers, NEW w \in Dispatch, work' = [work EXCEPT ![d] = w],
         w.agent = Nobody /\ w.at \notin Launching
  PROVE  \A e \in Workers : \/ work'[e].agent = Nobody /\ work'[e].at \notin Launching
                            \/ /\ work'[e].agent = work[e].agent /\ work'[e].task = work[e].task
                               /\ work'[e].at \in Launching => work[e].at \in Launching
<1>1. \A e \in Workers : work'[e] = IF e = d THEN w ELSE work[e]
  BY Types DEF Shape
<1> QED  BY <1>1

LEMMA IdleRefersToNobody ==
  Idle \in Dispatch /\ Idle.agent = Nobody /\ Idle.at \notin Launching
BY Blank DEF Idle, Launching

LEMMA RetreatTakes ==
  ASSUME Shape, NEW d \in Workers, work[d].at # "idle", NEW rows \in [Tasks -> TaskRow],
         Retreat(d, rows)
  PROVE  /\ \A t \in Tasks : task'[t].agent = rows[t].agent
         /\ \A e \in Workers : \/ work'[e].agent = Nobody /\ work'[e].at \notin Launching
                               \/ /\ work'[e].agent = work[e].agent /\ work'[e].task = work[e].task
                                  /\ work'[e].at \in Launching => work[e].at \in Launching
<1>1. work[d].task \in Tasks
  BY Hands DEF Holds
<1>2. work' = [work EXCEPT ![d] = Idle]
  BY DEF Retreat
<1>3. \A t \in Tasks : task'[t].agent = rows[t].agent
  BY <1>1, QueuedAgents DEF Retreat
<1> QED  BY <1>2, <1>3, OneIdle, IdleRefersToNobody

LEMMA SubmitTakes ==
  ASSUME Shape, NEW d \in Workers, NEW t \in Tasks, Submit(d, t)
  PROVE  TakesAway /\ Spares
<1> DEFINE w == [Idle EXCEPT !.at = "enrich", !.task = t, !.kind = "create"]
<1>1. work' = [work EXCEPT ![d] = w] /\ UNCHANGED agent
  BY DEF Submit
<1>2. w \in Dispatch /\ w.agent = Nobody /\ w.at \notin Launching
  BY DEF Dispatch, Idle, Launching, Nobody
<1> HIDE DEF w
<1>3. \A u \in Tasks : task'[u].agent = task[u].agent
  BY Types DEF Submit, Shape, TaskRow
<1> QED  BY <1>1, <1>2, <1>3, OneIdle, SameRows DEF TakesAway

LEMMA EnterTakes ==
  ASSUME Shape, NEW d \in Workers, Enter(d)
  PROVE  TakesAway /\ Spares
<1> DEFINE t == work[d].task
           w == [work[d] EXCEPT !.at = "prep", !.slot = t \in Limited]
<1>1. Holds(work[d]) /\ work[d] \in Dispatch /\ work[d].at = "enrich" /\ t \in Tasks
  BY Hands DEF Enter, Holds
<1>2. UNCHANGED agent
  BY DEF Enter
<1>3. \A u \in Tasks : task'[u].agent = task[u].agent
  BY <1>1, QueuedAgents, Types DEF Enter, Shape
<1>4. PICK v : v \in Dispatch /\ v.agent = Nobody /\ v.at \notin Launching /\ work' = [work EXCEPT ![d] = v]
  <2>1. CASE work' = [work EXCEPT ![d] = Idle]
    BY <2>1, IdleRefersToNobody
  <2>2. CASE work' = [work EXCEPT ![d].at = "prep", ![d].slot = t \in Limited]
    <3>1. work' = [work EXCEPT ![d] = w]
      BY <2>2, Types DEF Shape
    <3>2. PICK b \in BOOLEAN : b = (t \in Limited)
      BY Truth
    <3>3. w = [work[d] EXCEPT !.at = "prep", !.slot = b]
      BY <3>2
    <3>4. w \in Dispatch /\ w.at = "prep" /\ w.agent = work[d].agent
      BY <1>1, <3>3 DEF Dispatch
    <3>5. w.agent = Nobody /\ w.at \notin Launching
      BY <1>1, <3>4 DEF Holds, Launching
    <3> QED  BY <3>1, <3>4, <3>5
  <2> QED  BY <2>1, <2>2 DEF Enter
<1> QED  BY <1>2, <1>3, <1>4, OneIdle, SameRows DEF TakesAway

LEMMA SelectTakes ==
  ASSUME Shape, NEW d \in Workers, Select(d)
  PROVE  TakesAway /\ Spares
<1>1. UNCHANGED <<task, agent>>
  BY DEF Select
<1>2. CASE UNCHANGED work
  <2>1. \A e \in Workers : /\ work'[e].agent = work[e].agent /\ work'[e].task = work[e].task
                           /\ work'[e].at \in Launching => work[e].at \in Launching
    BY <1>2
  <2> QED  BY <1>1, <2>1, SameRows DEF TakesAway
<1>3. ASSUME NEW kind \in Passes, NEW t \in Tasks, NEW w,
             w = [Idle EXCEPT !.at = "selected", !.task = t, !.kind = kind, !.slot = t \in Limited],
             work' = [work EXCEPT ![d] = w]
      PROVE  TakesAway /\ Spares
  <2>1. PICK b \in BOOLEAN : b = (t \in Limited)
    BY Truth
  <2>2. w = [Idle EXCEPT !.at = "selected", !.task = t, !.kind = kind, !.slot = b]
    BY <1>3, <2>1
  <2>3. w \in Dispatch /\ w.agent = Nobody /\ w.at \notin Launching
    BY <2>2 DEF Dispatch, Idle, Launching
  <2> QED  BY <1>1, <1>3, <2>3, OneIdle, SameRows DEF TakesAway
<1> QED  BY <1>2, <1>3 DEF Select, NextQueued

LEMMA DequeueTakes ==
  ASSUME Shape, NEW d \in Workers, Dequeue(d)
  PROVE  TakesAway /\ Spares
<1> DEFINE t == work[d].task
           w == [work[d] EXCEPT !.at = "prep"]
<1>1. Holds(work[d]) /\ work[d] \in Dispatch /\ work[d].at = "selected" /\ t \in Tasks
  BY Hands DEF Dequeue, Holds
<1>2. UNCHANGED agent
  BY DEF Dequeue
<1>3. \A u \in Tasks : task'[u].agent = task[u].agent
  BY Types DEF Dequeue, Shape, TaskRow
<1>4. PICK v : v \in Dispatch /\ v.agent = Nobody /\ v.at \notin Launching /\ work' = [work EXCEPT ![d] = v]
  <2>1. CASE work' = [work EXCEPT ![d] = Idle]
    BY <2>1, IdleRefersToNobody
  <2>2. CASE work' = [work EXCEPT ![d].at = "prep"]
    <3>1. work' = [work EXCEPT ![d] = w]
      BY <2>2, Types DEF Shape
    <3>2. w \in Dispatch /\ w.at = "prep" /\ w.agent = work[d].agent
      BY <1>1 DEF Dispatch
    <3>3. w.agent = Nobody /\ w.at \notin Launching
      BY <1>1, <3>2 DEF Holds, Launching
    <3> QED  BY <3>1, <3>2, <3>3
  <2> QED  BY <2>1, <2>2 DEF Dequeue
<1> QED  BY <1>2, <1>3, <1>4, OneIdle, SameRows DEF TakesAway

LEMMA PrepFailsTakes ==
  ASSUME Shape, NEW d \in Workers, PrepFails(d)
  PROVE  TakesAway /\ Spares
<1> DEFINE t == work[d].task
           rows == IF work[d].kind = "create" THEN [task EXCEPT ![t].status = "failed"] ELSE task
<1>1. work[d].at # "idle" /\ Retreat(d, rows) /\ UNCHANGED agent
  BY DEF PrepFails
<1>2. task[t] \in TaskRow
  BY <1>1, Hands, Types DEF Shape, Holds
<1>3. [task[t] EXCEPT !.status = "failed"] \in TaskRow /\ [task[t] EXCEPT !.status = "failed"].agent = task[t].agent
  BY <1>2 DEF TaskRow, Terminal
<1>4. rows \in [Tasks -> TaskRow] /\ \A u \in Tasks : rows[u].agent = task[u].agent
  BY <1>3, Types DEF Shape
<1> HIDE DEF rows
<1> QED  BY <1>1, <1>4, RetreatTakes, SameRows DEF TakesAway

\* The dispatches as they are.
LEMMA SameDispatches ==
  ASSUME UNCHANGED work
  PROVE  \A d \in Workers : \/ work'[d].agent = Nobody /\ work'[d].at \notin Launching
                            \/ /\ work'[d].agent = work[d].agent /\ work'[d].task = work[d].task
                               /\ work'[d].at \in Launching => work[d].at \in Launching
OBVIOUS

\* A row that is cleared.
LEMMA RowCleared ==
  ASSUME Shape, NEW a, agent' = [agent EXCEPT ![a] = Gone]
  PROVE  /\ \A b \in Agents : \/ agent'[b] = Gone
                              \/ /\ b # a /\ agent'[b] = agent[b] /\ agent[b] # Gone
                                 /\ agent'[b].status # "terminated" /\ agent'[b].task = agent[b].task
         /\ \A b \in Agents : agent'[b].leaving => agent[b].leaving
<1>1. \A b \in Agents : agent'[b] = IF b = a THEN Gone ELSE agent[b]
  BY Types DEF Shape
<1>2. ~Gone.leaving
  BY DEF Gone
<1> QED  BY <1>1, <1>2, Live_

LEMMA LaunchFailsTakes ==
  ASSUME Shape, Agreed, NEW d \in Workers, LaunchFails(d)
  PROVE  TakesAway /\ Spares
<1> DEFINE t == work[d].task
           a == work[d].agent
           rows == [Strayed(task, a) EXCEPT ![t].status = "failed"]
<1>1. work[d].at \in Launching /\ Retreat(d, rows) /\ agent' = [agent EXCEPT ![a] = Gone]
  BY DEF LaunchFails, Launching
<1>2. Strayed(task, a) \in [Tasks -> TaskRow] /\ t \in Tasks /\ a # Nobody
  BY <1>1, StrayedRows, LaunchHasRow, Types DEF Shape
<1>3. Strayed(task, a)[t] \in TaskRow
  BY <1>2
<1>4. /\ [Strayed(task, a)[t] EXCEPT !.status = "failed"] \in TaskRow
      /\ [Strayed(task, a)[t] EXCEPT !.status = "failed"].agent = Strayed(task, a)[t].agent
  BY <1>3 DEF TaskRow, Terminal
<1>5. rows \in [Tasks -> TaskRow] /\ \A u \in Tasks : rows[u].agent = Strayed(task, a)[u].agent
  BY <1>2, <1>4
<1> HIDE DEF rows
<1>6. \A u \in Tasks : Strayed(task, a)[u].agent \in {task[u].agent, Nobody}
  BY LosesAgents, Types DEF Shape
<1>7. work[d].at # "idle"
  BY <1>1 DEF Launching
<1>8. /\ \A u \in Tasks : task'[u].agent = rows[u].agent
      /\ \A e \in Workers : \/ work'[e].agent = Nobody /\ work'[e].at \notin Launching
                            \/ /\ work'[e].agent = work[e].agent /\ work'[e].task = work[e].task
                               /\ work'[e].at \in Launching => work[e].at \in Launching
  BY <1>1, <1>5, <1>7, RetreatTakes
<1>9. TakesAway
  <2>1. \A u \in Tasks : task'[u].agent \in {task[u].agent, Nobody}
    BY <1>5, <1>6, <1>8
  <2>2. \A b \in Agents : \/ agent'[b] = Gone
                         \/ /\ agent[b] # Gone /\ agent'[b].status # "terminated"
                            /\ agent'[b].task = agent[b].task
    BY <1>1, RowCleared
  <2> QED  BY <1>8, <2>1, <2>2 DEF TakesAway
<1>10. ASSUME NEW e \in Workers, work'[e].at \in Launching, agent[work[e].agent] # Gone,
              agent'[work[e].agent] = Gone
       PROVE  FALSE
  <2>1. work' = [work EXCEPT ![d] = Idle]
    BY <1>1 DEF Retreat
  <2>2. e # d
    BY <1>10, <2>1, IdleRefersToNobody, Types DEF Shape
  <2>3. work[e].at \in Launching /\ work'[e] = work[e]
    BY <1>10, <2>1, <2>2, Types DEF Shape
  <2>4. work[e].agent \in Agents
    BY <2>3, LaunchHasRow
  <2>5. work[e].agent = a
    BY <1>1, <1>10, <2>4, RowCleared
  <2> QED  BY <1>1, <2>2, <2>3, <2>5, Agreement DEF OneLaunch
<1> QED  BY <1>1, <1>9, <1>10, RowCleared DEF Spares

LEMMA CheckTakes ==
  ASSUME Shape, NEW d \in Workers, Check(d)
  PROVE  TakesAway /\ Spares
<1> DEFINE a == work[d].agent
           w == [work[d] EXCEPT !.at = "mark", !.slot = FALSE]
           r == [agent[a] EXCEPT !.session = FALSE]
<1>1. Holds(work[d]) /\ work[d] \in Dispatch /\ work[d].at = "check"
  BY Hands DEF Check
<1>2. UNCHANGED task /\ work' = [work EXCEPT ![d] = w]
  BY Types DEF Shape, Check
<1>3. agent' = agent \/ agent' = [agent EXCEPT ![a] = r]
  BY DEF Check
<1>4. w.agent = a /\ w.task = work[d].task /\ w.at \notin Launching
  BY <1>1 DEF Dispatch, Launching
<1> HIDE DEF w
<1>5. \A e \in Workers : /\ work'[e].agent = work[e].agent /\ work'[e].task = work[e].task
                         /\ work'[e].at \in Launching => work[e].at \in Launching
  BY <1>2, <1>4, Types DEF Shape
<1>6. \A b \in Agents : agent[b] \in AgentRow
  BY Types DEF Shape
<1>7. a \in Agents => /\ r.status = agent[a].status /\ r.task = agent[a].task
                      /\ r.leaving = agent[a].leaving
  BY <1>6 DEF AgentRow
<1>8. \A b \in Agents : /\ agent'[b].status = agent[b].status /\ agent'[b].task = agent[b].task
                        /\ agent'[b].leaving = agent[b].leaving
  BY <1>3, <1>7, Types DEF Shape
<1>9. \A b \in Agents : agent'[b] # Gone => agent'[b].status # "terminated"
  BY CheckShape DEF Formed, Rows
<1>10. \A b \in Agents : agent'[b] = Gone => agent[b].status = "terminated"
  BY <1>8 DEF Gone
<1>11. \A b \in Agents : agent[b] = Gone => agent[b].status = "terminated"
  BY DEF Gone
<1>12. TakesAway
  BY <1>2, <1>5, <1>8, <1>9, <1>11 DEF TakesAway
<1>13. \A e \in Workers : work'[e].at \in Launching => work[e].agent \in Agents
  BY <1>5, LaunchHasRow
<1> QED  BY <1>8, <1>10, <1>12, <1>13, Live_ DEF Spares

LEMMA LeaveTakes ==
  ASSUME Shape, Agreed, Leaving, NEW a \in Agents, Leave(a)
  PROVE  TakesAway /\ Spares
<1>1. /\ agent' = [agent EXCEPT ![a] = Gone] /\ task' = Strayed(task, a) /\ UNCHANGED work
      /\ a \in Live /\ (agent[a].leaving \/ task[agent[a].task].status \in Terminal)
  BY DEF Leave
<1>2. TakesAway
  BY <1>1, RowCleared, SameDispatches, LosesAgents, Types DEF TakesAway, Shape
<1>3. agent[a].task \in opened \/ Settled(task[agent[a].task])
  BY <1>1 DEF Leaving, Settled
<1>4. ASSUME NEW d \in Workers, work'[d].at \in Launching, agent[work[d].agent] # Gone,
             agent'[work[d].agent] = Gone
      PROVE  work[d].task \in opened \/ Settled(task[work[d].task])
  <2>1. work[d].agent \in Agents /\ work[d].agent # Nobody
    BY <1>1, <1>4, LaunchHasRow
  <2>2. work[d].agent = a
    BY <1>1, <1>4, <2>1, RowCleared
  <2>3. agent[a].task = work[d].task
    BY <1>4, <2>1, <2>2, Agreement DEF RowOfDispatch
  <2> QED  BY <1>3, <2>3
<1> QED  BY <1>1, <1>2, <1>4, RowCleared DEF Spares

LEMMA NeverStartedTakes ==
  ASSUME Shape, NEW a \in Agents, NeverStarted(a)
  PROVE  TakesAway /\ Spares
<1> DEFINE t == agent[a].task
           rows == Strayed(task, a)
<1>1. /\ agent' = [agent EXCEPT ![a] = Gone] /\ UNCHANGED work
      /\ \A d \in Workers : work[d].agent # a
      /\ task' = IF rows[t].status \in {"assigned", "in_progress"}
                 THEN [rows EXCEPT ![t].status = "pending", ![t].agent = Nobody] ELSE rows
  BY DEF NeverStarted
<1>2. rows \in [Tasks -> TaskRow]
  BY StrayedRows, Types DEF Shape
<1>3. \A u \in Tasks : rows[u].agent \in {task[u].agent, Nobody}
  BY LosesAgents, Types DEF Shape
<1> HIDE DEF rows
<1>4. \A u \in Tasks : task'[u].agent \in {rows[u].agent, Nobody}
  BY <1>1, <1>2 DEF TaskRow
<1>5. TakesAway
  BY <1>1, <1>3, <1>4, RowCleared, SameDispatches DEF TakesAway
<1>6. \A d \in Workers : work'[d].at \in Launching => work[d].agent \in Agents
  BY <1>1, LaunchHasRow
<1>7. \A d \in Workers : work'[d].at \in Launching => agent'[work[d].agent] = agent[work[d].agent]
  BY <1>1, <1>6, Types DEF Shape
<1> QED  BY <1>1, <1>5, <1>7, RowCleared DEF Spares

LEMMA SweepTakes ==
  ASSUME Shape, NEW t \in Tasks, Sweep(t) \/ Ages(t)
  PROVE  TakesAway /\ Spares
<1>1. UNCHANGED <<agent, work>>
  BY DEF Sweep, Ages, Stale, Stranded, GivenUp
<1>2. PICK st, o : task' = [task EXCEPT ![t].status = st] \/ task' = [task EXCEPT ![t].old = o]
  BY DEF Sweep, Ages, Stale, Stranded, GivenUp
<1>3. \A u \in Tasks : task'[u].agent = task[u].agent
  BY <1>2, Types DEF Shape, TaskRow
<1> QED  BY <1>1, <1>3, SameRows, SameDispatches DEF TakesAway

LEMMA CrashTakes ==
  ASSUME Shape, Crash
  PROVE  TakesAway /\ Spares
<1>1. work' = [d \in Workers |-> Idle] /\ UNCHANGED task
  BY DEF Crash
<1>2. \A d \in Workers : work'[d].agent = Nobody /\ work'[d].at \notin Launching
  BY <1>1, IdleRefersToNobody
<1>3. ASSUME NEW a \in Agents
      PROVE  /\ agent'[a] = Gone \/ (agent[a] # Gone /\ agent'[a].status # "terminated"
                                     /\ agent'[a].task = agent[a].task)
             /\ agent'[a].leaving => agent[a].leaving
  <2>1. \/ agent'[a] = agent[a]
        \/ a \in Live /\ agent'[a] = [agent[a] EXCEPT !.status = "working", !.session = TRUE]
    BY DEF Crash
  <2>2. agent[a] \in AgentRow
    BY Types DEF Shape
  <2>3. LET r == [agent[a] EXCEPT !.status = "working", !.session = TRUE]
        IN  r.status = "working" /\ r.task = agent[a].task /\ r.leaving = agent[a].leaving
    BY <2>2 DEF AgentRow
  <2> QED  BY <2>1, <2>3, Live_
<1> QED  BY <1>1, <1>2, <1>3 DEF TakesAway, Spares

-----------------------------------------------------------------------------
(* The steps that add a reference, or tell an agent to go.                   *)

\* The agent that is there is taken for the one that was asked for.
LEMMA AdoptOne ==
  ASSUME Shape, Agreed, Leaving, Single, Remembered, NEW d \in Workers, work[d].at = "prep",
         NEW a \in LiveOn(work[d].task),
         work' = [work EXCEPT ![d].at = "mark", ![d].agent = a, ![d].slot = FALSE],
         UNCHANGED <<task, agent>>
  PROVE  Agreed' /\ Leaving' /\ Single'
<1> DEFINE t == work[d].task
           w == [work[d] EXCEPT !.at = "mark", !.agent = a, !.slot = FALSE]
<1>1. work' = [work EXCEPT ![d] = w] /\ work[d] \in Dispatch
  BY Types DEF Shape
<1>2. w.at \notin Launching /\ w.agent = a /\ w.task = t
  BY <1>1 DEF Dispatch, Launching
<1> HIDE DEF w
<1>3. \A e \in Workers : IF e = d THEN work'[e].at \notin Launching /\ work'[e].agent = a /\ work'[e].task = t
                         ELSE work'[e] = work[e]
  BY <1>1, <1>2, Types DEF Shape
<1>4. a \in Agents /\ agent[a] # Gone /\ agent[a].task = t
  BY Live_ DEF LiveOn, Live
<1>5. \A e \in Workers : work[e].agent = a /\ a # Nobody => work[e].task = t
  BY <1>4, Agreement DEF RowOfDispatch
<1>6. \A u \in Tasks : task[u].agent = a /\ a # Nobody => u = t
  BY <1>4, Agreement DEF RowOfTask
<1>7. a # Nobody
  BY <1>4, DispatchAssumption DEF Nobody
<1>8. Agreed'
  <2>1. \A e \in Workers : work'[e].agent # Nobody =>
          agent[work'[e].agent] = Gone \/ agent[work'[e].agent].task = work'[e].task
    BY <1>3, <1>4, Agreement DEF RowOfDispatch
  <2>2. ASSUME NEW e \in Workers, NEW f \in Workers, work'[e].agent # Nobody,
               work'[e].agent = work'[f].agent
        PROVE  work'[e].task = work'[f].task
    <3>1. CASE e = d \/ f = d
      BY <1>3, <1>5, <1>7, <2>2, <3>1
    <3>2. CASE e # d /\ f # d
      <4>1. work'[e] = work[e] /\ work'[f] = work[f]
        BY <1>3, <3>2
      <4> QED  BY <2>2, <4>1, Agreement DEF DispatchesAgree
    <3> QED  BY <3>1, <3>2
  <2>3. ASSUME NEW e \in Workers, NEW u \in Tasks, work'[e].agent # Nobody,
               work'[e].agent = task[u].agent
        PROVE  work'[e].task = u
    <3>1. CASE e = d
      BY <1>3, <1>6, <1>7, <2>3, <3>1
    <3>2. CASE e # d
      <4>1. work'[e] = work[e]
        BY <1>3, <3>2
      <4> QED  BY <2>3, <4>1, Agreement DEF TaskOfDispatch
    <3> QED  BY <3>1, <3>2
  <2>4. ASSUME NEW e \in Workers, NEW f \in Workers, work'[e].at \in Launching,
               work'[f].at \in Launching, work'[e].agent = work'[f].agent
        PROVE  e = f
    <3>1. e # d /\ f # d
      BY <1>3, <2>4
    <3>2. work'[e] = work[e] /\ work'[f] = work[f]
      BY <1>3, <3>1
    <3> QED  BY <2>4, <3>2, Agreement DEF OneLaunch
  <2>5. /\ \A u, v \in Tasks : task[u].agent # Nobody /\ task[u].agent = task[v].agent => u = v
        /\ \A u \in Tasks : task[u].agent # Nobody =>
             agent[task[u].agent] = Gone \/ agent[task[u].agent].task = u
    BY DEF Agreed, OneTask, RowOfTask
  <2>6. UNCHANGED <<task, agent>>
    OBVIOUS
  <2>7. RowOfDispatch' /\ RowOfTask'
    BY <2>1, <2>5, <2>6 DEF RowOfDispatch, RowOfTask
  <2>8. DispatchesAgree' /\ OneLaunch'
    BY <2>2, <2>4 DEF DispatchesAgree, OneLaunch
  <2>9. TaskOfDispatch'
    BY <2>3, <2>6 DEF TaskOfDispatch
  <2>10. OneTask'
    BY <2>5, <2>6 DEF OneTask
  <2> QED  BY <2>7, <2>8, <2>9, <2>10 DEF Agreed
<1>9. opened' = opened
  BY DEF Remembered
<1>10. Leaving'
  BY <1>9 DEF Leaving, Settled
<1>11. \A u : LiveOn(u)' = LiveOn(u)
  BY DEF LiveOn, Live
<1>12. \A e \in Workers : work'[e].at \in Launching => work'[e] = work[e]
  BY <1>3
<1>13. Single'
  <2>1. ASSUME NEW u \in Tasks \ opened, ~Settled(task[u])
        PROVE  /\ \A b, c \in LiveOn(u)' : b = c
               /\ \A e \in Workers : work'[e].task = u /\ work'[e].at \in Launching => work'[e].agent \in LiveOn(u)'
    <3>1. \A e \in Workers : work'[e].at \in Launching /\ work'[e].task = u => work'[e].agent \in LiveOn(u)
      BY <1>12, <2>1 DEF Single
    <3>2. LiveOn(u)' = LiveOn(u) /\ \A b, c \in LiveOn(u) : b = c
      BY <1>11, <2>1 DEF Single
    <3> QED  BY <3>1, <3>2
  <2> QED  BY <1>9, <2>1 DEF Single, Settled
<1> QED  BY <1>8, <1>10, <1>13

\* A new row, for a task that has none.
LEMMA InsertOne ==
  ASSUME Shape, Agreed, Leaving, Single, Remembered, NEW d \in Workers, work[d].at = "prep",
         LiveOn(work[d].task) = {}, NEW a \in Unused,
         agent' = [agent EXCEPT ![a] = [Gone EXCEPT !.status = "idle", !.task = work[d].task]],
         work' = [work EXCEPT ![d].at = "launch", ![d].agent = a],
         UNCHANGED task
  PROVE  Agreed' /\ Leaving' /\ Single'
<1> DEFINE t == work[d].task
           w == [work[d] EXCEPT !.at = "launch", !.agent = a]
           r == [Gone EXCEPT !.status = "idle", !.task = t]
<1>1. work' = [work EXCEPT ![d] = w] /\ work[d] \in Dispatch
  BY Types DEF Shape
<1>2. w.agent = a /\ w.task = t
  BY <1>1 DEF Dispatch
<1>3. r.task = t /\ ~r.leaving /\ r.status = "idle"
  BY DEF Gone
<1> HIDE DEF w
<1>4. \A e \in Workers : IF e = d THEN work'[e].agent = a /\ work'[e].task = t ELSE work'[e] = work[e]
  BY <1>1, <1>2, Types DEF Shape
<1>5. /\ a \in Agents /\ agent[a].status = "terminated"
      /\ \A u \in Tasks : task[u].agent # a
      /\ \A e \in Workers : work[e].agent # a
  BY DEF Unused
<1>6. \A b \in Agents : agent'[b] = IF b = a THEN r ELSE agent[b]
  BY Types DEF Shape
<1> HIDE DEF r
<1>7. a # Nobody
  BY <1>5, DispatchAssumption DEF Nobody
<1>8. Agreed'
  <2>0. \A e \in Workers : e # d /\ work'[e].agent # Nobody =>
          work'[e] = work[e] /\ work[e].agent \in Agents /\ work[e].agent # a
    BY <1>4, <1>5, Referred
  <2>1. ASSUME NEW e \in Workers, work'[e].agent # Nobody
        PROVE  agent'[work'[e].agent] = Gone \/ agent'[work'[e].agent].task = work'[e].task
    <3>1. CASE e = d
      BY <1>3, <1>4, <1>5, <1>6, <3>1
    <3>2. CASE e # d
      <4>1. work'[e] = work[e] /\ work[e].agent \in Agents /\ work[e].agent # a /\ work[e].agent # Nobody
        BY <2>0, <2>1, <3>2
      <4>2. agent'[work[e].agent] = agent[work[e].agent]
        BY <1>6, <4>1
      <4> QED  BY <4>1, <4>2, Agreement DEF RowOfDispatch
    <3> QED  BY <3>1, <3>2
  <2>2. ASSUME NEW e \in Workers, NEW f \in Workers, work'[e].agent # Nobody,
               work'[e].agent = work'[f].agent
        PROVE  work'[e].task = work'[f].task /\ (e = d <=> f = d)
    <3>1. CASE e = d \/ f = d
      BY <1>4, <1>5, <1>7, <2>2, <3>1
    <3>2. CASE e # d /\ f # d
      <4>1. work'[e] = work[e] /\ work'[f] = work[f]
        BY <1>4, <3>2
      <4> QED  BY <2>2, <3>2, <4>1, Agreement DEF DispatchesAgree
    <3> QED  BY <3>1, <3>2
  <2>3. ASSUME NEW e \in Workers, NEW u \in Tasks, work'[e].agent # Nobody,
               work'[e].agent = task[u].agent
        PROVE  work'[e].task = u
    <3>1. e # d
      BY <1>4, <1>5, <2>3
    <3>2. work'[e] = work[e]
      BY <1>4, <3>1
    <3> QED  BY <2>3, <3>2, Agreement DEF TaskOfDispatch
  <2>4. ASSUME NEW e \in Workers, NEW f \in Workers, work'[e].at \in Launching,
               work'[f].at \in Launching, work'[e].agent = work'[f].agent
        PROVE  e = f
    <3>1. CASE e = d \/ f = d
      BY <1>4, <1>5, <2>4, <3>1
    <3>2. CASE e # d /\ f # d
      <4>1. work'[e] = work[e] /\ work'[f] = work[f]
        BY <1>4, <3>2
      <4> QED  BY <2>4, <4>1, Agreement DEF OneLaunch
    <3> QED  BY <3>1, <3>2
  <2>5. \A u, v \in Tasks : task[u].agent # Nobody /\ task[u].agent = task[v].agent => u = v
    BY Agreement DEF OneTask
  <2>6. \A u \in Tasks : task[u].agent # Nobody => task[u].agent \in Agents /\ task[u].agent # a
    BY <1>5, Types DEF Shape, TaskRow
  <2>7. \A u \in Tasks : task[u].agent # Nobody =>
          agent'[task[u].agent] = Gone \/ agent'[task[u].agent].task = u
    BY <1>6, <2>6, Agreement DEF RowOfTask
  <2>8. UNCHANGED task
    OBVIOUS
  <2>9. RowOfDispatch' /\ RowOfTask'
    BY <2>1, <2>7, <2>8 DEF RowOfDispatch, RowOfTask
  <2>10. DispatchesAgree' /\ OneLaunch'
    BY <2>2, <2>4 DEF DispatchesAgree, OneLaunch
  <2>11. TaskOfDispatch'
    BY <2>3, <2>8 DEF TaskOfDispatch
  <2>12. OneTask'
    BY <2>5, <2>8 DEF OneTask
  <2> QED  BY <2>9, <2>10, <2>11, <2>12 DEF Agreed
<1>9. opened' = opened
  BY DEF Remembered
<1>10. Leaving'
  <2>1. \A b \in Agents : agent'[b].leaving => agent[b].leaving /\ agent'[b].task = agent[b].task
    BY <1>3, <1>6
  <2> QED  BY <1>9, <2>1 DEF Leaving, Settled
<1>11. \A b \in Agents : b \in Live' <=> b \in Live \/ b = a
  BY <1>3, <1>5, <1>6 DEF Live
<1>12. ASSUME NEW u \in Tasks \ opened, ~Settled(task[u])
       PROVE  /\ \A b, c \in LiveOn(u)' : b = c
              /\ \A e \in Workers : work'[e].task = u /\ work'[e].at \in Launching => work'[e].agent \in LiveOn(u)'
  <2>1. CASE u = t
    <3>1. LiveOn(u)' = {a}
      <4>1. \A b \in Live : agent[b].task # t
        BY DEF LiveOn
      <4>2. LiveOn(u)' = {b \in Live' : agent'[b].task = u} /\ Live' \subseteq Agents
        BY DEF LiveOn, Live
      <4>3. \A b \in Live' : agent'[b].task = u <=> b = a
        BY <1>3, <1>6, <1>11, <2>1, <4>1, <4>2
      <4> QED  BY <1>5, <1>11, <4>2, <4>3
    <3>2. ASSUME NEW e \in Workers, work'[e].task = u, work'[e].at \in Launching
          PROVE  e = d
      BY <1>4, <1>12, <2>1, <3>2 DEF Single
    <3> QED  BY <1>4, <3>1, <3>2
  <2>2. CASE u # t
    <3>1. LiveOn(u)' = LiveOn(u)
      BY <1>3, <1>5, <1>6, <1>11, <2>2 DEF LiveOn, Live
    <3>2. ASSUME NEW e \in Workers, work'[e].task = u, work'[e].at \in Launching
          PROVE  work'[e].agent \in LiveOn(u)
      <4>1. work'[e] = work[e]
        BY <1>4, <2>2, <3>2
      <4> QED  BY <1>12, <3>2, <4>1 DEF Single
    <3>3. \A b, c \in LiveOn(u) : b = c
      BY <1>12 DEF Single
    <3> QED  BY <3>1, <3>2, <3>3
  <2> QED  BY <2>1, <2>2
<1>13. Single'
  BY <1>9, <1>12 DEF Single, Settled
<1> QED  BY <1>8, <1>10, <1>13

LEMMA LaunchedOne ==
  ASSUME Shape, Agreed, Leaving, Single, Remembered, NEW d \in Workers, Launched(d)
  PROVE  Agreed' /\ Leaving' /\ Single'
<1> DEFINE t == work[d].task
           a == work[d].agent
           w == [work[d] EXCEPT !.at = "check"]
           r == [agent[a] EXCEPT !.status = "working", !.task = t, !.model = TRUE, !.session = TRUE]
<1>1. work[d].at \in Launching /\ UNCHANGED task
  BY DEF Launched, Launching
<1>2. a \in Agents /\ a # Nobody /\ t \in Tasks
  BY <1>1, LaunchHasRow
<1>3. work' = [work EXCEPT ![d] = w] /\ agent' = [agent EXCEPT ![a] = r] /\ work[d] \in Dispatch /\ agent[a] \in AgentRow
  BY <1>2, Types DEF Shape, Launched
<1>4. w.agent = a /\ w.task = t
  BY <1>3 DEF Dispatch
<1>5. r.task = t /\ r.leaving = agent[a].leaving /\ r.status = "working"
  BY <1>3 DEF AgentRow
<1> HIDE DEF w, r
<1>6. \A e \in Workers : /\ work'[e].agent = work[e].agent /\ work'[e].task = work[e].task
                         /\ work'[e].at \in Launching => work[e].at \in Launching
  BY <1>1, <1>3, <1>4, Types DEF Shape
<1>7. \A b \in Agents : agent'[b] = IF b = a THEN r ELSE agent[b]
  BY <1>3, Types DEF Shape
<1>8. Agreed'
  <2>0. \A e \in Workers : work[e].agent # Nobody =>
          work[e].agent \in Agents /\ (work[e].agent = a => work[e].task = t)
    BY <1>2, Referred, Agreement DEF DispatchesAgree
  <2>1. \A e \in Workers : work[e].agent # Nobody =>
          agent'[work[e].agent] = Gone \/ agent'[work[e].agent].task = work[e].task
    BY <1>5, <1>7, <2>0, Agreement DEF RowOfDispatch
  <2>2. \A u \in Tasks : task[u].agent # Nobody =>
          task[u].agent \in Agents /\ (task[u].agent = a => u = t)
    BY <1>2, Types, Agreement DEF Shape, TaskRow, TaskOfDispatch
  <2>3. \A u \in Tasks : task[u].agent # Nobody =>
          agent'[task[u].agent] = Gone \/ agent'[task[u].agent].task = u
    BY <1>5, <1>7, <2>2, Agreement DEF RowOfTask
  <2>4. DispatchesAgree' /\ OneTask'
    BY <1>1, <1>6 DEF Agreed, DispatchesAgree, OneTask
  <2>5. TaskOfDispatch' /\ OneLaunch'
    BY <1>1, <1>6 DEF Agreed, TaskOfDispatch, OneLaunch
  <2>6. RowOfDispatch' /\ RowOfTask'
    BY <1>1, <1>6, <2>1, <2>3 DEF RowOfDispatch, RowOfTask
  <2> QED  BY <2>4, <2>5, <2>6 DEF Agreed
<1>9. opened' = opened
  BY <1>1 DEF Remembered
<1>10. agent[a] = Gone \/ agent[a].task = t
  BY <1>2, Agreement DEF RowOfDispatch
<1>11. ~Gone.leaving
  BY DEF Gone
<1>12. \A b \in Agents : agent'[b].leaving => agent[b].leaving /\ agent'[b].task = agent[b].task
  BY <1>5, <1>7, <1>10, <1>11
<1>13. Leaving'
  BY <1>1, <1>9, <1>12 DEF Leaving, Settled
<1>14. ASSUME NEW u \in Tasks \ opened, ~Settled(task[u])
       PROVE  LiveOn(u)' = LiveOn(u)
  <2>1. \A b \in Agents : b # a => (b \in LiveOn(u)' <=> b \in LiveOn(u))
    BY <1>7 DEF LiveOn, Live
  <2>2. a \in LiveOn(u)' <=> u = t
    BY <1>2, <1>5, <1>7 DEF LiveOn, Live
  <2>3. u = t => a \in LiveOn(u)
    BY <1>1, <1>14 DEF Single
  <2>4. a \in LiveOn(u) => u = t
    <3>1. a \in LiveOn(u) => agent[a] # Gone /\ agent[a].task = u
      BY <1>2, Live_ DEF LiveOn
    <3> QED  BY <1>10, <3>1
  <2>5. LiveOn(u)' \subseteq Agents /\ LiveOn(u) \subseteq Agents
    BY DEF LiveOn, Live
  <2> QED  BY <2>1, <2>2, <2>3, <2>4, <2>5
<1>15. Single'
  BY <1>1, <1>6, <1>9, <1>14 DEF Single, Settled
<1> QED  BY <1>8, <1>13, <1>15

LEMMA MarkOne ==
  ASSUME Shape, Agreed, Leaving, Single, Remembered, NEW d \in Workers, Mark(d)
  PROVE  Agreed' /\ Leaving' /\ Single'
<1> DEFINE t == work[d].task
           a == work[d].agent
<1>1. work[d].at = "mark" /\ work' = [work EXCEPT ![d] = Idle] /\ UNCHANGED agent
      /\ task' = [task EXCEPT ![t] = Marked(task[t], a, work[d].kind)]
  BY DEF Mark
<1>2. t \in Tasks /\ a # Nobody /\ a \in Agents
  BY <1>1, Hands DEF Holds, Dispatch
<1>3. \A e \in Workers : IF e = d THEN work'[e] = Idle ELSE work'[e] = work[e]
  BY <1>1, Types DEF Shape
<1>4. Marked(task[t], a, work[d].kind).agent \in {task[t].agent, a}
  BY <1>2, Types DEF Marked, Shape, TaskRow
<1>5. \A u \in Tasks : IF u = t THEN task'[u].agent \in {task[u].agent, a} ELSE task'[u] = task[u]
  BY <1>1, <1>4, Types DEF Shape
<1>6. \A u \in Tasks : task'[u].agent # Nobody =>
        task'[u].agent = task[u].agent \/ (u = t /\ task'[u].agent = a)
  BY <1>5
<1>7. \A e \in Workers : work'[e].agent # Nobody => work'[e] = work[e]
  BY <1>3, IdleRefersToNobody
<1>8. \A e \in Workers : work'[e].at \in Launching => work'[e] = work[e]
  BY <1>3, IdleRefersToNobody
<1>9. agent[a] = Gone \/ agent[a].task = t
  BY <1>2, Agreement DEF RowOfDispatch
<1>10. \A u \in Tasks : task[u].agent = a => u = t
  BY <1>2, Agreement DEF TaskOfDispatch
<1>11. \A e \in Workers : work[e].agent = a => work[e].task = t
  BY <1>2, Agreement DEF DispatchesAgree
<1>12. Agreed'
  <2>1. RowOfDispatch'
    BY <1>1, <1>7, Agreement DEF RowOfDispatch
  <2>2. RowOfTask'
    <3>1. ASSUME NEW u \in Tasks, task'[u].agent # Nobody
          PROVE  agent[task'[u].agent] = Gone \/ agent[task'[u].agent].task = u
      <4>1. CASE task'[u].agent = task[u].agent
        BY <3>1, <4>1, Agreement DEF RowOfTask
      <4>2. CASE u = t /\ task'[u].agent = a
        BY <1>9, <4>2
      <4> QED  BY <1>6, <3>1, <4>1, <4>2
    <3> QED  BY <1>1, <3>1 DEF RowOfTask
  <2>3. DispatchesAgree'
    <3>1. ASSUME NEW e \in Workers, NEW f \in Workers, work'[e].agent # Nobody, work'[e].agent = work'[f].agent
          PROVE  work'[e].task = work'[f].task
      <4>1. work'[e] = work[e] /\ work'[f] = work[f]
        BY <1>7, <3>1
      <4> QED  BY <3>1, <4>1, Agreement DEF DispatchesAgree
    <3> QED  BY <3>1 DEF DispatchesAgree
  <2>4. TaskOfDispatch'
    <3>1. ASSUME NEW e \in Workers, NEW u \in Tasks, work'[e].agent # Nobody, work'[e].agent = task'[u].agent
          PROVE  work'[e].task = u
      <4>1. work'[e] = work[e]
        BY <1>7, <3>1
      <4>2. CASE task'[u].agent = task[u].agent
        BY <3>1, <4>1, <4>2, Agreement DEF TaskOfDispatch
      <4>3. CASE u = t /\ task'[u].agent = a
        BY <1>11, <3>1, <4>1, <4>3
      <4> QED  BY <1>6, <3>1, <4>2, <4>3
    <3> QED  BY <3>1 DEF TaskOfDispatch
  <2>5. OneTask'
    <3>1. ASSUME NEW u \in Tasks, NEW v \in Tasks, task'[u].agent # Nobody, task'[u].agent = task'[v].agent
          PROVE  u = v
      <4>1. CASE task'[u].agent = a
        BY <1>6, <1>10, <3>1, <4>1
      <4>2. CASE task'[u].agent = task[u].agent /\ task'[v].agent = task[v].agent
        BY <3>1, <4>2, Agreement DEF OneTask
      <4> QED  BY <1>6, <3>1, <4>1, <4>2
    <3> QED  BY <3>1 DEF OneTask
  <2>6. OneLaunch'
    <3>1. ASSUME NEW e \in Workers, NEW f \in Workers, work'[e].at \in Launching,
                 work'[f].at \in Launching, work'[e].agent = work'[f].agent
          PROVE  e = f
      <4>1. work'[e] = work[e] /\ work'[f] = work[f]
        BY <1>8, <3>1
      <4> QED  BY <3>1, <4>1, Agreement DEF OneLaunch
    <3> QED  BY <3>1 DEF OneLaunch
  <2> QED  BY <2>1, <2>2, <2>3, <2>4, <2>5, <2>6 DEF Agreed
<1>13. \A u \in Tasks : u \notin opened' /\ ~Settled(task'[u]) => u \notin opened /\ ~Settled(task[u])
  BY DEF Remembered
<1>14. Leaving'
  <2>1. ASSUME NEW b \in Agents, agent[b].leaving
        PROVE  agent[b].task \in opened' \/ Settled(task'[agent[b].task])
    <3>1. agent[b].task \in Tasks
      BY <2>1, Live_
    <3>2. agent[b].task \in opened \/ Settled(task[agent[b].task])
      BY <2>1 DEF Leaving
    <3> QED  BY <1>13, <3>1, <3>2
  <2> QED  BY <1>1, <2>1 DEF Leaving, Settled
<1>15. Single'
  <2>1. ASSUME NEW u \in Tasks \ opened', ~Settled(task'[u])
        PROVE  /\ \A b, c \in LiveOn(u)' : b = c
               /\ \A e \in Workers : work'[e].task = u /\ work'[e].at \in Launching => work'[e].agent \in LiveOn(u)'
    <3>1. u \notin opened /\ ~Settled(task[u]) /\ LiveOn(u)' = LiveOn(u)
      BY <1>1, <1>13, <2>1 DEF LiveOn, Live
    <3>2. /\ \A b, c \in LiveOn(u) : b = c
          /\ \A e \in Workers : work[e].task = u /\ work[e].at \in Launching => work[e].agent \in LiveOn(u)
      BY <3>1 DEF Single
    <3> QED  BY <1>8, <3>1, <3>2
  <2> QED  BY <2>1 DEF Single, Settled
<1> QED  BY <1>12, <1>14, <1>15

\* An agent is told to go, and what it was at is over or paused.
LEMMA ToldOne ==
  ASSUME Shape, Agreed, Leaving, Single, Remembered, NEW a \in Agents, agent[a] # Gone,
         agent' = [agent EXCEPT ![a].leaving = TRUE], UNCHANGED work,
         Settled(task'[agent[a].task]),
         \A u \in Tasks : task'[u].agent \in {task[u].agent, Nobody}
  PROVE  Agreed' /\ Leaving' /\ Single'
<1> DEFINE t == agent[a].task
           r == [agent[a] EXCEPT !.leaving = TRUE]
<1>2. agent' = [agent EXCEPT ![a] = r] /\ UNCHANGED work /\ agent[a] \in AgentRow
  BY Types DEF Shape
<1>3. t \in Tasks /\ agent[a] # Gone /\ agent[a].status # "terminated"
  BY Live_
<1>4. r.task = t /\ r.status = agent[a].status
  BY <1>2 DEF AgentRow
<1> HIDE DEF r
<1>5. \A b \in Agents : agent'[b] = IF b = a THEN r ELSE agent[b]
  BY <1>2, Types DEF Shape
<1>6. \A u \in Tasks : task'[u].agent \in {task[u].agent, Nobody}
  OBVIOUS
<1>8. Settled(task'[t])
  OBVIOUS
<1>9. TakesAway
  <2>1. ASSUME NEW b \in Agents
        PROVE  \/ agent'[b] = Gone
               \/ agent[b] # Gone /\ agent'[b].status # "terminated" /\ agent'[b].task = agent[b].task
    <3>1. CASE b = a
      BY <1>3, <1>4, <1>5, <3>1
    <3>2. CASE b # a
      BY <1>5, <3>2, Live_
    <3> QED  BY <3>1, <3>2
  <2> QED  BY <1>2, <1>6, <2>1, SameDispatches DEF TakesAway
<1>10. Agreed'
  BY <1>9, TakesAwayAgreed
<1>11. Leaving'
  <2>1. ASSUME NEW b \in Agents, agent'[b].leaving
        PROVE  agent'[b].task \in opened' \/ Settled(task'[agent'[b].task])
    <3>1. CASE b = a
      BY <1>4, <1>5, <1>8, <3>1
    <3>2. CASE b # a
      <4>1. agent'[b] = agent[b] /\ agent[b].task \in Tasks
        BY <1>5, <2>1, <3>2, Live_
      <4>2. agent[b].task \in opened \/ Settled(task[agent[b].task])
        BY <2>1, <4>1 DEF Leaving
      <4> QED  BY <4>1, <4>2 DEF Remembered
    <3> QED  BY <3>1, <3>2
  <2> QED  BY <2>1 DEF Leaving, Settled
<1>12. Single'
  <2>1. \A b \in Agents : agent'[b].status = agent[b].status /\ agent'[b].task = agent[b].task
    BY <1>4, <1>5
  <2>2. \A u : LiveOn(u)' = LiveOn(u)
    BY <2>1 DEF LiveOn, Live
  <2>3. ASSUME NEW u \in Tasks \ opened', ~Settled(task'[u])
        PROVE  /\ \A b, c \in LiveOn(u)' : b = c
               /\ \A e \in Workers : work'[e].task = u /\ work'[e].at \in Launching => work'[e].agent \in LiveOn(u)'
    <3>1. u \notin opened /\ ~Settled(task[u]) /\ LiveOn(u)' = LiveOn(u)
      BY <2>2, <2>3 DEF Remembered
    <3> QED  BY <1>2, <3>1 DEF Single
  <2> QED  BY <2>3 DEF Single, Settled
<1> QED  BY <1>10, <1>11, <1>12

LEMMA ReportOne ==
  ASSUME Shape, Agreed, Leaving, Single, Remembered, NEW a \in Agents, Report(a)
  PROVE  Agreed' /\ Leaving' /\ Single'
<1> DEFINE t == agent[a].task
<1>1. PICK outcome \in Terminal : task' = [task EXCEPT ![t].status = outcome]
  BY DEF Report
<1>2. agent' = [agent EXCEPT ![a].leaving = TRUE] /\ UNCHANGED work
  BY DEF Report
<1>3. t \in Tasks /\ agent[a] # Gone
  BY Live_ DEF Report, Prompted
<1>4. \A u \in Tasks : task'[u].agent = task[u].agent
  BY <1>1, Types DEF Shape, TaskRow
<1>5. task'[t].status = outcome
  BY <1>1, <1>3, Types DEF Shape, TaskRow
<1>6. Settled(task'[t])
  BY <1>5 DEF Settled
<1> QED  BY <1>2, <1>3, <1>4, <1>6, ToldOne

LEMMA TakesAwayKeeps ==
  ASSUME Shape, Agreed, Leaving, Single, TakesAway, Spares, Remembered, Formed'
  PROVE  Agreed' /\ Leaving' /\ Single'
BY TakesAwayAgreed, TakesAwayOne

LEMMA ClickOne ==
  ASSUME Shape, Agreed, Leaving, Single, Remembered, Formed', Click
  PROVE  Agreed' /\ Leaving' /\ Single'
<1>1. PICK t \in Tasks : PauseTask(t) \/ CancelTask(t) \/ RestartTask(t)
  BY DEF Click
<1>2. task[t] \in TaskRow
  BY Types DEF Shape
<1>3. CASE PauseTask(t)
  <2> DEFINE a == task[t].agent
  <2>1. PICK b \in {task[t].agent, Nobody} :
          task' = [task EXCEPT ![t] = [task[t] EXCEPT !.status = "blocked", !.agent = b]]
    BY <1>2, <1>3, Types DEF Shape, PauseTask, TaskRow
  <2>2. \A u \in Tasks : task'[u].agent \in {task[u].agent, Nobody}
    BY <1>2, <2>1, Types DEF Shape, TaskRow
  <2>3. task'[t].status = "blocked"
    BY <1>2, <2>1, Types DEF Shape, TaskRow
  <2>4. UNCHANGED work
    BY <1>3 DEF PauseTask
  <2>5. CASE a \in Live
    <3>1. a \in Agents /\ agent[a] # Gone /\ a # Nobody
      BY <2>5, Live_, DispatchAssumption DEF Live, Nobody
    <3>2. agent[a].task = t
      BY <3>1, Agreement DEF RowOfTask
    <3>3. Settled(task'[t])
      BY <2>3 DEF Settled
    <3>4. agent' = [agent EXCEPT ![a].leaving = TRUE]
      BY <1>3, <2>5 DEF PauseTask
    <3> QED  BY <2>2, <2>4, <3>1, <3>2, <3>3, <3>4, ToldOne
  <2>6. CASE a \notin Live
    <3>1. UNCHANGED agent
      BY <1>3, <2>6 DEF PauseTask
    <3>2. TakesAway /\ Spares
      BY <2>2, <2>4, <3>1, SameRows, SameDispatches DEF TakesAway
    <3> QED  BY <3>2, TakesAwayKeeps
  <2> QED  BY <2>5, <2>6
<1>4. CASE CancelTask(t)
  <2>1. UNCHANGED <<agent, work>> /\ task' = [task EXCEPT ![t].status = "failed"]
    BY <1>4 DEF CancelTask
  <2>2. \A u \in Tasks : task'[u].agent = task[u].agent
    BY <2>1, Types DEF Shape, TaskRow
  <2>3. TakesAway /\ Spares
    BY <2>1, <2>2, SameRows, SameDispatches DEF TakesAway
  <2> QED  BY <2>3, TakesAwayKeeps
<1>5. CASE RestartTask(t)
  <2> DEFINE w == [Idle EXCEPT !.at = "enrich", !.task = t, !.kind = "restart"]
  <2>1. PICK d \in Workers : work' = [work EXCEPT ![d] = w]
    BY <1>5 DEF RestartTask
  <2>2. w \in Dispatch /\ w.agent = Nobody /\ w.at \notin Launching
    BY DEF Dispatch, Idle, Launching, Nobody
  <2> HIDE DEF w
  <2>3. UNCHANGED agent
    BY <1>5 DEF RestartTask
  <2>4. task' = [task EXCEPT ![t] = [task[t] EXCEPT !.status = "pending", !.agent = Nobody, !.started = FALSE]]
    BY <1>5 DEF RestartTask
  <2>5. [task[t] EXCEPT !.status = "pending", !.agent = Nobody, !.started = FALSE].agent = Nobody
    BY <1>2 DEF TaskRow
  <2>6. \A u \in Tasks : task'[u].agent \in {task[u].agent, Nobody}
    BY <2>4, <2>5, Types DEF Shape
  <2>7. TakesAway /\ Spares
    BY <2>1, <2>2, <2>3, <2>6, OneIdle, SameRows DEF TakesAway
  <2> QED  BY <2>7, TakesAwayKeeps
<1> QED  BY <1>1, <1>3, <1>4, <1>5

LEMMA PreparedOne ==
  ASSUME Shape, Agreed, Leaving, Single, Remembered, Formed', NEW d \in Workers, Prepared(d)
  PROVE  Agreed' /\ Leaving' /\ Single'
<1> DEFINE t == work[d].task
<1>1. work[d].at = "prep" /\ work[d].at # "idle"
  BY DEF Prepared
<1>2. CASE Retreat(d, task) /\ UNCHANGED agent
  <2>1. TakesAway /\ Spares
    BY <1>1, <1>2, RetreatTakes, SameRows, Types DEF TakesAway, Shape
  <2> QED  BY <2>1, TakesAwayKeeps
<1>3. ASSUME NEW a \in LiveOn(t),
             work' = [work EXCEPT ![d].at = "mark", ![d].agent = a, ![d].slot = FALSE],
             UNCHANGED <<task, line, agent>>
      PROVE  Agreed' /\ Leaving' /\ Single'
  BY <1>1, <1>3, AdoptOne
<1>4. ASSUME LiveOn(t) = {}, NEW a \in Unused,
             agent' = [agent EXCEPT ![a] = [Gone EXCEPT !.status = "idle", !.task = t]],
             work' = [work EXCEPT ![d].at = "launch", ![d].agent = a],
             UNCHANGED <<task, line, reserved>>
      PROVE  Agreed' /\ Leaving' /\ Single'
  BY <1>1, <1>4, InsertOne
<1> QED  BY <1>2, <1>3, <1>4, FirstUnused DEF Prepared

LEMMA ActsOne ==
  ASSUME Shape, Agreed, Leaving, Single, Remembered, Formed', Acts
  PROVE  Agreed' /\ Leaving' /\ Single'
<1>1. ASSUME NEW d \in Workers, Step(d) \/ PrepFails(d) \/ LaunchFails(d)
      PROVE  Agreed' /\ Leaving' /\ Single'
  <2>1. CASE Enter(d) \/ Select(d) \/ Dequeue(d) \/ Check(d) \/ PrepFails(d) \/ LaunchFails(d)
    BY <2>1, EnterTakes, SelectTakes, DequeueTakes, CheckTakes, PrepFailsTakes, LaunchFailsTakes,
       TakesAwayKeeps
  <2>2. CASE Prepared(d) \/ Launched(d) \/ Mark(d)
    BY <2>2, PreparedOne, LaunchedOne, MarkOne
  <2> QED  BY <1>1, <2>1, <2>2 DEF Step
<1>2. ASSUME NEW a \in Agents, Report(a) \/ Leave(a) \/ NeverStarted(a)
      PROVE  Agreed' /\ Leaving' /\ Single'
  BY <1>2, ReportOne, LeaveTakes, NeverStartedTakes, TakesAwayKeeps
<1>3. ASSUME NEW t \in Tasks, NEW d \in Workers, Submit(d, t)
      PROVE  Agreed' /\ Leaving' /\ Single'
  BY <1>3, SubmitTakes, TakesAwayKeeps
<1>4. ASSUME NEW t \in Tasks, Sweep(t) \/ Ages(t)
      PROVE  Agreed' /\ Leaving' /\ Single'
  BY <1>4, SweepTakes, TakesAwayKeeps
<1>5. CASE Crash
  BY <1>5, CrashTakes, TakesAwayKeeps
<1> QED  BY <1>1, <1>2, <1>3, <1>4, <1>5, ClickOne DEF Acts

InOne == Shape /\ Agreed /\ Leaving /\ Single

LEMMA InitOne == Init => InOne
<1> SUFFICES ASSUME Init PROVE InOne
  OBVIOUS
<1>1. Agreed
  <2>1. /\ \A d \in Workers : work[d].agent = Nobody /\ work[d].at \notin Launching
        /\ \A t \in Tasks : task[t].agent = Nobody
    BY IdleRefersToNobody DEF Init
  <2> QED  BY <2>1 DEF Agreed, RowOfDispatch, RowOfTask, DispatchesAgree, TaskOfDispatch, OneTask, OneLaunch
<1>2. Leaving
  BY DEF Init, Leaving, Gone
<1>3. Live = {}
  BY DEF Init, Live, Gone
<1>4. Single
  BY <1>3, IdleRefersToNobody DEF Init, Single, LiveOn
<1> QED  BY <1>1, <1>2, <1>4, InitShape DEF InOne

LEMMA NextOne == InOne /\ [Next]_vars => InOne'
<1> SUFFICES ASSUME InOne, [Next]_vars PROVE InOne'
  OBVIOUS
<1>1. Shape'
  BY NextShape DEF InOne
<1>2. CASE Next
  <2>1. Formed' /\ Remembered /\ Acts
    BY <1>2, ActsShape DEF InOne, Next, Remembered
  <2> QED  BY <1>1, <2>1, ActsOne DEF InOne
<1>3. CASE UNCHANGED vars
  <2>1. UNCHANGED <<task, agent, work, opened>>
    BY <1>3 DEF vars, program
  <2>2. Agreed'
    BY <2>1 DEF InOne, Agreed, RowOfDispatch, RowOfTask, DispatchesAgree, TaskOfDispatch, OneTask, OneLaunch
  <2>3. Leaving' /\ Single'
    BY <2>1 DEF InOne, Leaving, Single, LiveOn, Live, Settled
  <2> QED  BY <1>1, <2>2, <2>3 DEF InOne
<1> QED  BY <1>2, <1>3

\* No task under way that was never over or paused before has two agents with
\* its prompt, whatever is dispatched beside what and whoever crashes, fails or
\* clicks (LaunchPipeline._check_duplicate_active_agent).
THEOREM OneAgentAtATime == Spec => []OneAgent
<1>1. InOne => OneAgent
  <2> SUFFICES ASSUME InOne, NEW t \in Tasks \ opened, ~Settled(task[t])
               PROVE  Cardinality({a \in Agents : Prompted(a) /\ agent[a].task = t}) <= 1
    BY DEF OneAgent
  <2> DEFINE S == {a \in Agents : Prompted(a) /\ agent[a].task = t}
  <2>1. \A a \in Agents : agent[a].session => agent[a] # Gone
    BY Live_ DEF InOne
  <2>2. \A a \in S : a \in LiveOn(t)
    BY <2>1, Live_ DEF InOne, LiveOn, Prompted
  <2>3. \A a, b \in S : a = b
    BY <2>2 DEF InOne, Single
  <2> HIDE DEF S
  <2>4. CASE S = {}
    BY <2>4, FS_EmptySet DEF S
  <2>5. CASE S # {}
    <3>1. PICK a : S = {a}
      BY <2>3, <2>5
    <3>2. Cardinality(S) = 1
      BY <3>1, FS_Singleton
    <3> QED  BY <3>2 DEF S
  <2> QED  BY <2>4, <2>5
<1> QED  BY <1>1, InitOne, NextOne, PTL DEF Spec

-----------------------------------------------------------------------------
(* What an agent has reported.                                               *)

Unsaid(t) ==
  \/ spent'.clicks > spent.clicks
  \/ spent'.faults > spent.faults
  \/ \E d \in Workers : work[d].at \in {"enrich", "prep"} /\ work[d].task = t /\ work'[d] = Idle

LEMMA SpentMore ==
  ASSUME Shape, NEW what \in {"clicks", "faults"}, Spend(what)
  PROVE  spent'[what] > spent[what]
<1>1. spent' = [spent EXCEPT ![what] = spent[what] + 1] /\ spent \in Spent
  BY Types DEF Spend, Shape
<1>2. spent[what] \in Int
  BY <1>1 DEF Spent
<1>3. spent'[what] = spent[what] + 1
  BY <1>1 DEF Spent
<1> QED  BY <1>2, <1>3

\* An attempt that ends writes to its own task.
LEMMA RetreatOthers ==
  ASSUME NEW rows \in [Tasks -> TaskRow], NEW d \in Workers, Retreat(d, rows), work[d].task \in Tasks
  PROVE  \A t \in Tasks \ {work[d].task} : task'[t] = rows[t]
BY DEF Retreat, Enqueued

LEMMA StepUnsaid ==
  ASSUME Shape, NEW d \in Workers, Step(d), NEW t \in Tasks,
         task[t].status = "done", task'[t].status # "done"
  PROVE  Unsaid(t)
<1> DEFINE u == work[d].task
<1>1. task \in [Tasks -> TaskRow] /\ work \in [Workers -> Dispatch]
  BY Types DEF Shape
<1>2. work[d].at # "idle" => u \in Tasks
  BY Hands DEF Holds
<1>3. CASE Enter(d)
  <2>1. ~UNCHANGED task
    OBVIOUS
  <2>2. /\ work[d].at = "enrich" /\ u \in Tasks /\ work' = [work EXCEPT ![d] = Idle]
        /\ task' = Enqueued(task, u)
    BY <1>2, <1>3, <2>1 DEF Enter
  <2>3. t = u
    BY <1>1, <2>2 DEF Enqueued, TaskRow
  <2> QED  BY <1>1, <2>2, <2>3 DEF Unsaid
<1>4. CASE Select(d)
  BY <1>4 DEF Select
<1>5. CASE Dequeue(d)
  <2>1. task[u].status = "queued" /\ task' = [task EXCEPT ![u].status = "assigned"]
    BY <1>5 DEF Dequeue
  <2> QED  BY <1>1, <2>1
<1>6. CASE Prepared(d)
  <2>1. ~UNCHANGED task
    OBVIOUS
  <2>2. work[d].at = "prep" /\ Retreat(d, task) /\ u \in Tasks
    BY <1>2, <1>6, <2>1 DEF Prepared
  <2>3. t = u
    BY <1>1, <2>2, RetreatOthers
  <2>4. work' = [work EXCEPT ![d] = Idle]
    BY <2>2 DEF Retreat
  <2> QED  BY <1>1, <2>2, <2>3, <2>4 DEF Unsaid
<1>7. CASE Launched(d)
  BY <1>7 DEF Launched
<1>8. CASE Check(d)
  BY <1>8 DEF Check
<1>9. CASE Mark(d)
  <2>1. task' = [task EXCEPT ![u] = Marked(task[u], work[d].agent, work[d].kind)]
    BY <1>9 DEF Mark
  <2>2. u = t => Marked(task[u], work[d].agent, work[d].kind) = task[u]
    BY DEF Marked, Terminal
  <2> QED  BY <1>1, <2>1, <2>2
<1> QED  BY <1>3, <1>4, <1>5, <1>6, <1>7, <1>8, <1>9 DEF Step

LEMMA AgentUnsaid ==
  ASSUME Shape, NEW a \in Agents, Report(a) \/ Leave(a) \/ NeverStarted(a), NEW t \in Tasks,
         task[t].status = "done"
  PROVE  task'[t].status = "done"
<1> DEFINE u == agent[a].task
           rows == Strayed(task, a)
<1>1. task \in [Tasks -> TaskRow]
  BY Types DEF Shape
<1>2. rows[t] = task[t]
  BY DEF Strayed, Taken
<1>3. rows \in [Tasks -> TaskRow]
  BY <1>1, StrayedRows
<1> HIDE DEF rows
<1>4. CASE Report(a)
  <2>1. task[u].status \notin Terminal /\ \E outcome \in Terminal : task' = [task EXCEPT ![u].status = outcome]
    BY <1>4 DEF Report
  <2>2. t # u
    BY <2>1 DEF Terminal
  <2> QED  BY <1>1, <2>1, <2>2
<1>5. CASE Leave(a)
  BY <1>2, <1>5 DEF Leave, rows
<1>6. CASE NeverStarted(a)
  <2>1. task' = IF rows[u].status \in {"assigned", "in_progress"}
                THEN [rows EXCEPT ![u].status = "pending", ![u].agent = Nobody] ELSE rows
    BY <1>6 DEF NeverStarted, rows
  <2>2. CASE t = u
    BY <1>2, <2>1, <2>2
  <2>3. CASE t # u
    BY <1>2, <1>3, <2>1, <2>3
  <2> QED  BY <2>2, <2>3
<1> QED  BY <1>4, <1>5, <1>6

LEMMA SweepUnsaid ==
  ASSUME Shape, NEW u \in Tasks, Sweep(u) \/ Ages(u), NEW t \in Tasks, task[t].status = "done"
  PROVE  task'[t].status = "done"
<1>1. task \in [Tasks -> TaskRow]
  BY Types DEF Shape
<1>2. task[u].status # "done"
  BY DEF Sweep, Ages, Stale, Stranded, GivenUp, Taken
<1>3. PICK st, o : task' = [task EXCEPT ![u].status = st] \/ task' = [task EXCEPT ![u].old = o]
  BY DEF Sweep, Ages, Stale, Stranded, GivenUp
<1>4. t # u
  BY <1>2
<1> QED  BY <1>1, <1>3, <1>4

LEMMA ActsUnsaid ==
  ASSUME Shape, Acts, NEW t \in Tasks, task[t].status = "done", task'[t].status # "done"
  PROVE  Unsaid(t)
<1>1. ASSUME NEW d \in Workers, PrepFails(d) \/ LaunchFails(d)
      PROVE  Unsaid(t)
  <2>1. Spend("faults")
    BY <1>1 DEF PrepFails, LaunchFails
  <2>2. spent'["faults"] > spent["faults"]
    BY <2>1, SpentMore
  <2> QED  BY <2>2 DEF Unsaid
<1>2. CASE Click
  <2>1. Spend("clicks")
    BY <1>2 DEF Click, PauseTask, CancelTask, RestartTask
  <2>2. spent'["clicks"] > spent["clicks"]
    BY <2>1, SpentMore
  <2> QED  BY <2>2 DEF Unsaid
<1>3. ASSUME NEW d \in Workers, NEW u \in Tasks, Submit(d, u)
      PROVE  FALSE
  <2>1. task[u].status = None /\ task' = [task EXCEPT ![u].status = "pending"]
    BY <1>3 DEF Submit
  <2>2. t # u
    BY <2>1 DEF None
  <2> QED  BY <2>1, <2>2, Types DEF Shape
<1>4. CASE Crash
  BY <1>4 DEF Crash
<1> QED  BY <1>1, <1>2, <1>3, <1>4, StepUnsaid, AgentUnsaid, SweepUnsaid DEF Acts

\* What an agent has reported done is not undone by the dispatch that launched
\* it (AgentDispatchService.mark_assigned), for any tasks and dispatches.
THEOREM ReportsAreKept == Spec => ReportKept
<1>1. Shape /\ [Next]_vars =>
        [\A t \in Tasks : task[t].status = "done" /\ task'[t].status # "done" => Unsaid(t)]_vars
  BY ActsUnsaid DEF Next
<1>2. Shape /\ [Next]_vars =>
        [\A t \in Tasks :
           task[t].status = "done" /\ task'[t].status # "done" =>
             \/ spent'.clicks > spent.clicks
             \/ spent'.faults > spent.faults
             \/ \E d \in Workers : work[d].at \in {"enrich", "prep"} /\ work[d].task = t /\ work'[d] = Idle]_vars
  BY <1>1 DEF Unsaid
<1> QED  BY <1>2, InitShape, NextShape, PTL DEF Spec, ReportKept

-----------------------------------------------------------------------------
(* The sessions of the limited model.                                        *)

LEMMA CountedFinite == /\ IsFiniteSet(Counted) /\ Cardinality(Counted) \in Nat
                       /\ Cardinality(OnModel) \in Nat /\ Cardinality(Counted) <= Cardinality(OnModel)
<1>1. OnModel \in SUBSET Agents /\ Counted \in SUBSET OnModel
  BY DEF OnModel, Live, Counted
<1>2. IsFiniteSet(OnModel)
  BY <1>1, FS_Subset, DispatchAssumption
<1> QED  BY <1>1, <1>2, FS_Subset, FS_CardinalityType

\* Of a row only what is known to be on the model counts, once its CLI is up.
LEMMA StillCounted ==
  ASSUME Shape, NEW a \in Agents, a \in Counted',
         \/ agent'[a] = Gone
         \/ agent'[a].model => /\ agent[a] # Gone /\ agent[a].model
                               /\ agent'[a].task = agent[a].task
         \/ \E d \in Workers : work'[d].at = "check" /\ work'[d].agent = a,
         \A d \in Workers : work[d].at = "check" /\ work[d].agent = a =>
           \/ work'[d].at = "check" /\ work'[d].agent = a
           \/ agent'[a] = Gone
  PROVE  a \in Counted
<1>1. /\ agent'[a].status \in {"idle", "working"} /\ agent'[a].model /\ agent'[a].task \in Limited
      /\ \A d \in Workers : ~(work'[d].at = "check" /\ work'[d].agent = a)
  BY DEF Counted, OnModel, Live
<1>2. agent'[a] # Gone
  BY <1>1 DEF Gone
<1>3. agent[a] # Gone /\ agent[a].model /\ agent'[a].task = agent[a].task
  BY <1>1, <1>2
<1>4. \A d \in Workers : ~(work[d].at = "check" /\ work[d].agent = a)
  BY <1>1, <1>2
<1> QED  BY <1>1, <1>3, <1>4, Live_ DEF Counted, OnModel

LEMMA RoomLess ==
  ASSUME Shape, Room, spent'.crashes = spent.crashes, Counted' \subseteq Counted,
         reserved' \in Int, reserved' <= reserved
  PROVE  Room'
<1>1. Cardinality(Counted') \in Nat /\ Cardinality(Counted') <= Cardinality(Counted)
  BY CountedFinite, FS_Subset, FS_CardinalityType
<1>2. reserved \in Int /\ Limit \in Int /\ Cardinality(Counted) \in Int
  BY CountedFinite, Types, DispatchAssumption DEF Shape
<1>3. CASE spent.crashes = 0
  <2>1. Cardinality(Counted) + reserved <= Limit
    BY <1>3 DEF Room
  <2>2. Cardinality(Counted') + reserved' <= Limit
    BY <1>1, <1>2, <2>1
  <2> QED  BY <2>2 DEF Room
<1>4. CASE spent.crashes # 0
  BY <1>4 DEF Room
<1> QED  BY <1>3, <1>4

\* Whoever reserves has seen room for one more.
LEMMA RoomReserved ==
  ASSUME Shape, Room, spent'.crashes = spent.crashes, Counted' \subseteq Counted,
         NEW t \in Tasks, ~Saturated(t), reserved' = Reserve(t)
  PROVE  Room'
<1>1. Cardinality(Counted') \in Nat /\ Cardinality(Counted') <= Cardinality(Counted)
  BY CountedFinite, FS_Subset, FS_CardinalityType
<1>2. reserved \in Int /\ Limit \in Int
  BY Types, DispatchAssumption DEF Shape
<1>3. CASE t \in Limited
  <2>1. Cardinality(OnModel) + reserved < Limit
    BY <1>2, <1>3, CountedFinite DEF Saturated
  <2>2. reserved' = reserved + 1
    BY <1>3 DEF Reserve
  <2>3. Cardinality(Counted') + reserved' <= Limit
    BY <1>1, <1>2, <2>1, <2>2, CountedFinite
  <2> QED  BY <2>3 DEF Room
<1>4. CASE t \notin Limited
  <2>1. reserved' = reserved
    BY <1>4 DEF Reserve
  <2> QED  BY <1>2, <2>1, RoomLess
<1> QED  BY <1>3, <1>4

LEMMA ReleaseLess ==
  ASSUME Shape, NEW d \in Workers
  PROVE  Release(d) \in Int /\ Release(d) <= reserved /\ (work[d].slot => Release(d) = reserved - 1)
<1>1. reserved \in Int
  BY Types DEF Shape
<1> QED  BY <1>1 DEF Release

\* No row changes and no launch is about to be counted.
LEMMA SameCounted ==
  ASSUME Shape, UNCHANGED agent, NEW d \in Workers, NEW w, work' = [work EXCEPT ![d] = w],
         work[d].at # "check", w.at # "check"
  PROVE  Counted' \subseteq Counted
<1>1. \A e \in Workers : work'[e] = IF e = d THEN w ELSE work[e]
  BY Types DEF Shape
<1>2. \A e \in Workers, a \in Agents :
        work[e].at = "check" /\ work[e].agent = a => work'[e].at = "check" /\ work'[e].agent = a
  BY <1>1
<1>3. Counted' \subseteq Agents
  BY DEF Counted, OnModel, Live
<1>4. ASSUME NEW a \in Agents, a \in Counted' PROVE a \in Counted
  BY <1>2, <1>4, Live_, StillCounted DEF Counted, OnModel
<1> QED  BY <1>3, <1>4

LEMMA SameRoom ==
  ASSUME Shape, Room, UNCHANGED <<agent, work, reserved>>, spent'.crashes = spent.crashes
  PROVE  Room'
BY DEF Room, Counted, OnModel, Live

\* Unless the server dies, nothing it knows of its agents is lost.
LEMMA SameCrashes ==
  ASSUME Shape, Acts, ~Crash
  PROVE  spent'.crashes = spent.crashes
<1>1. spent \in Spent
  BY Types DEF Shape
<1>2. ASSUME NEW what \in {"clicks", "faults"}, Spend(what) PROVE spent'.crashes = spent.crashes
  BY <1>1, <1>2 DEF Spend, Spent
<1>3. ASSUME NEW d \in Workers, Step(d) \/ PrepFails(d) \/ LaunchFails(d)
      PROVE  UNCHANGED spent \/ Spend("faults")
  BY <1>3 DEF Step, Enter, Select, Dequeue, Prepared, Launched, Check, Mark, PrepFails, LaunchFails
<1>4. ASSUME NEW a \in Agents, Report(a) \/ Leave(a) \/ NeverStarted(a)
      PROVE  UNCHANGED spent
  BY <1>4 DEF Report, Leave, NeverStarted
<1>5. ASSUME NEW t \in Tasks, Sweep(t) \/ Ages(t)
      PROVE  UNCHANGED spent
  BY <1>5 DEF Sweep, Ages, Stale, Stranded, GivenUp
<1>6. ASSUME NEW t \in Tasks, NEW d \in Workers, Submit(d, t)
      PROVE  UNCHANGED spent
  BY <1>6 DEF Submit
<1>7. Click => Spend("clicks")
  BY DEF Click, PauseTask, CancelTask, RestartTask
<1> QED  BY <1>2, <1>3, <1>4, <1>5, <1>6, <1>7 DEF Acts

\* A session is of an agent whose model is on record.
LEMMA StillKnown ==
  ASSUME Known, spent'.crashes = spent.crashes,
         \A a \in Agents : agent'[a].session =>
           \/ agent'[a].model
           \/ agent[a].session /\ agent'[a].model = agent[a].model
  PROVE  Known'
BY DEF Known

LEMMA SubmitRoom ==
  ASSUME Shape, Known, Room, NEW d \in Workers, NEW t \in Tasks, Submit(d, t), spent'.crashes = spent.crashes
  PROVE  Known' /\ Room'
<1> DEFINE w == [Idle EXCEPT !.at = "enrich", !.task = t, !.kind = "create"]
<1>1. work' = [work EXCEPT ![d] = w] /\ UNCHANGED <<agent, reserved>> /\ work[d].at = "idle"
  BY DEF Submit, Free
<1>2. w.at # "check"
  BY DEF Idle
<1> HIDE DEF w
<1>3. Counted' \subseteq Counted
  BY <1>1, <1>2, SameCounted
<1> QED  BY <1>1, <1>3, RoomLess, StillKnown, Types DEF Shape

LEMMA EnterRoom ==
  ASSUME Shape, Known, Room, NEW d \in Workers, Enter(d), spent'.crashes = spent.crashes
  PROVE  Known' /\ Room'
<1> DEFINE t == work[d].task
           w == [work[d] EXCEPT !.at = "prep", !.slot = t \in Limited]
<1>1. work[d].at = "enrich" /\ t \in Tasks /\ work[d] \in Dispatch /\ UNCHANGED agent
  BY Hands DEF Enter, Holds
<1>2. CASE AtCapacity \/ Saturated(t)
  <2>1. work' = [work EXCEPT ![d] = Idle] /\ UNCHANGED reserved
    BY <1>2 DEF Enter
  <2>2. Idle.at # "check" /\ work[d].at # "check"
    BY <1>1 DEF Idle
  <2>3. Counted' \subseteq Counted
    BY <1>1, <2>1, <2>2, SameCounted
  <2> QED  BY <1>1, <2>1, <2>3, RoomLess, StillKnown, Types DEF Shape
<1>3. CASE ~(AtCapacity \/ Saturated(t))
  <2>1. work' = [work EXCEPT ![d] = w] /\ reserved' = Reserve(t)
    BY <1>3, Types DEF Enter, Shape
  <2>2. w.at # "check"
    BY <1>1 DEF Dispatch
  <2> HIDE DEF w
  <2>3. Counted' \subseteq Counted
    BY <1>1, <2>1, <2>2, SameCounted
  <2> QED  BY <1>1, <1>3, <2>1, <2>3, RoomReserved, StillKnown
<1> QED  BY <1>2, <1>3

LEMMA SelectRoom ==
  ASSUME Shape, Known, Room, NEW d \in Workers, Select(d), spent'.crashes = spent.crashes
  PROVE  Known' /\ Room'
<1>1. UNCHANGED agent /\ work[d].at = "idle"
  BY DEF Select, Free
<1>2. Known'
  BY <1>1, StillKnown
<1>3. ASSUME UNCHANGED <<work, reserved>> PROVE Room'
  <2>1. UNCHANGED <<agent, work, reserved>>
    BY <1>1, <1>3
  <2> QED  BY <2>1, SameRoom
<1>4. CASE \E kind \in Passes, t \in NextQueued :
             /\ work' = [work EXCEPT ![d] = [Idle EXCEPT !.at = "selected", !.task = t,
                                             !.kind = kind, !.slot = t \in Limited]]
             /\ reserved' = Reserve(t)
  <2>1. PICK kind \in Passes, t \in NextQueued :
          /\ work' = [work EXCEPT ![d] = [Idle EXCEPT !.at = "selected", !.task = t,
                                          !.kind = kind, !.slot = t \in Limited]]
          /\ reserved' = Reserve(t)
    BY <1>4
  <2> DEFINE w == [Idle EXCEPT !.at = "selected", !.task = t, !.kind = kind, !.slot = t \in Limited]
  <2>2. t \in Tasks /\ ~Saturated(t)
    BY DEF NextQueued
  <2>3. w.at # "check"
    BY DEF Idle
  <2>4. work' = [work EXCEPT ![d] = w]
    BY <2>1
  <2> HIDE DEF w
  <2>5. Counted' \subseteq Counted
    BY <1>1, <2>3, <2>4, SameCounted
  <2> QED  BY <1>2, <2>1, <2>2, <2>5, RoomReserved
<1>5. UNCHANGED <<work, reserved>> \/
      \E kind \in Passes, t \in NextQueued :
             /\ work' = [work EXCEPT ![d] = [Idle EXCEPT !.at = "selected", !.task = t,
                                             !.kind = kind, !.slot = t \in Limited]]
             /\ reserved' = Reserve(t)
  BY Zenon DEF Select
<1> QED  BY <1>2, <1>3, <1>4, <1>5

LEMMA DequeueRoom ==
  ASSUME Shape, Known, Room, NEW d \in Workers, Dequeue(d) \/ Mark(d), spent'.crashes = spent.crashes
  PROVE  Known' /\ Room'
<1> DEFINE w == [work[d] EXCEPT !.at = "prep"]
<1>1. work[d] \in Dispatch /\ work[d].at \in {"selected", "mark"} /\ UNCHANGED <<agent, reserved>>
  BY Hands DEF Dequeue, Mark
<1>2. work' = [work EXCEPT ![d] = w] \/ work' = [work EXCEPT ![d] = Idle]
  BY DEF Dequeue, Mark
<1>3. w.at # "check" /\ Idle.at # "check"
  BY <1>1 DEF Dispatch, Idle
<1> HIDE DEF w
<1>4. Counted' \subseteq Counted
  BY <1>1, <1>2, <1>3, SameCounted
<1> QED  BY <1>1, <1>4, RoomLess, StillKnown, Types DEF Shape

\* An attempt that ends before it has an agent gives back what it had.
LEMMA RetreatRoom ==
  ASSUME Shape, Known, Room, NEW d \in Workers, NEW rows, work[d].at # "check",
         Retreat(d, rows), UNCHANGED agent, spent'.crashes = spent.crashes
  PROVE  Known' /\ Room'
<1>1. work' = [work EXCEPT ![d] = Idle] /\ reserved' = Release(d)
  BY DEF Retreat
<1>2. Idle.at # "check"
  BY DEF Idle
<1>3. Counted' \subseteq Counted
  BY <1>1, <1>2, SameCounted
<1> QED  BY <1>1, <1>3, ReleaseLess, RoomLess, StillKnown

LEMMA PreparedRoom ==
  ASSUME Shape, Known, Room, NEW d \in Workers, Prepared(d), spent'.crashes = spent.crashes
  PROVE  Known' /\ Room'
<1> DEFINE t == work[d].task
<1>1. work[d].at = "prep" /\ work[d] \in Dispatch
  BY Hands DEF Prepared
<1>2. CASE Retreat(d, task) /\ UNCHANGED agent
  BY <1>1, <1>2, RetreatRoom
<1>3. CASE /\ \E a \in LiveOn(t) :
                work' = [work EXCEPT ![d].at = "mark", ![d].agent = a, ![d].slot = FALSE]
           /\ reserved' = Release(d) /\ UNCHANGED agent
  <2>1. PICK a \in LiveOn(t) : work' = [work EXCEPT ![d].at = "mark", ![d].agent = a, ![d].slot = FALSE]
    BY <1>3
  <2> DEFINE w == [work[d] EXCEPT !.at = "mark", !.agent = a, !.slot = FALSE]
  <2>2. work' = [work EXCEPT ![d] = w] /\ w.at # "check"
    BY <1>1, <2>1, Types DEF Shape, Dispatch
  <2> HIDE DEF w
  <2>3. Counted' \subseteq Counted
    BY <1>1, <1>3, <2>2, SameCounted
  <2> QED  BY <1>3, <2>3, ReleaseLess, RoomLess, StillKnown
<1>4. ASSUME NEW a \in Unused,
             agent' = [agent EXCEPT ![a] = [Gone EXCEPT !.status = "idle", !.task = t]],
             work' = [work EXCEPT ![d].at = "launch", ![d].agent = a],
             UNCHANGED <<task, line, reserved>>
      PROVE  Known' /\ Room'
  <2>1. \A b \in Agents : agent'[b] = IF b = a THEN [Gone EXCEPT !.status = "idle", !.task = t] ELSE agent[b]
    BY <1>4, Types DEF Shape
  <2>2. \A b \in Agents : agent'[b] = agent[b] \/ (~agent'[b].model /\ ~agent'[b].session)
    BY <2>1 DEF Gone
  <2>3. Known'
    BY <2>2, StillKnown
  <2>4. \A e \in Workers : e # d => work'[e] = work[e]
    BY <1>4, Types DEF Shape
  <2>5. ASSUME NEW b \in Agents, b \in Counted' PROVE b \in Counted
    <3>1. agent'[b].model
      BY <2>5 DEF Counted, OnModel
    <3>2. agent'[b] = agent[b]
      BY <2>2, <3>1
    <3>3. agent'[b] # Gone
      BY <3>1 DEF Gone
    <3>4. \A e \in Workers : work[e].at = "check" /\ work[e].agent = b => work'[e].at = "check" /\ work'[e].agent = b
      BY <1>1, <2>4
    <3> QED  BY <2>5, <3>2, <3>3, <3>4, StillCounted
  <2>6. Counted' \subseteq Counted
    BY <2>5 DEF Counted, OnModel, Live
  <2> QED  BY <1>4, <2>3, <2>6, RoomLess, Types DEF Shape
<1> QED  BY <1>2, <1>3, <1>4, FirstUnused DEF Prepared

LEMMA LaunchedRoom ==
  ASSUME Shape, Known, Room, NEW d \in Workers, Launched(d), spent'.crashes = spent.crashes
  PROVE  Known' /\ Room'
<1> DEFINE t == work[d].task
           a == work[d].agent
           r == [agent[a] EXCEPT !.status = "working", !.task = t, !.model = TRUE, !.session = TRUE]
<1>1. work[d].at = "launch" /\ UNCHANGED reserved
  BY DEF Launched
<1>2. a \in Agents
  BY <1>1, LaunchHasRow DEF Launching
<1>3. agent[a] \in AgentRow
  BY <1>2, Types DEF Shape
<1>4. \A b \in Agents : agent'[b] = IF b = a THEN r ELSE agent[b]
  BY Types DEF Launched, Shape
<1>5. r.model
  BY <1>3 DEF AgentRow
<1> HIDE DEF r
<1>6. Known'
  BY <1>4, <1>5, StillKnown
<1>7. /\ \A e \in Workers : e # d => work'[e] = work[e]
      /\ work'[d].at = "check" /\ work'[d].agent = a
  BY Types DEF Launched, Shape, Dispatch
<1>8. ASSUME NEW b \in Agents, b \in Counted' PROVE b \in Counted
  <2>1. b # a
    BY <1>7, <1>8 DEF Counted
  <2>2. agent'[b] = agent[b]
    BY <1>4, <2>1
  <2>3. \A e \in Workers : work[e].at = "check" /\ work[e].agent = b => work'[e].at = "check" /\ work'[e].agent = b
    BY <1>1, <1>7
  <2>4. agent'[b].model
    BY <1>8 DEF Counted, OnModel
  <2>5. agent'[b] # Gone
    BY <2>4 DEF Gone
  <2> QED  BY <1>8, <2>2, <2>3, <2>5, StillCounted
<1>9. Counted' \subseteq Counted
  BY <1>8 DEF Counted, OnModel, Live
<1> QED  BY <1>1, <1>6, <1>9, RoomLess, Types DEF Shape

\* A row that is cleared is no longer counted, even by the dispatch that was at it.
LEMMA ClearedRoom ==
  ASSUME Shape, Known, Room, NEW a, agent' = [agent EXCEPT ![a] = Gone],
         \A e \in Workers : work'[e] = work[e] \/ work[e].agent \in {a, Nobody},
         reserved' \in Int, reserved' <= reserved, spent'.crashes = spent.crashes
  PROVE  Known' /\ Room'
<1>1. \A b \in Agents : agent'[b] = IF b = a THEN Gone ELSE agent[b]
  BY Types DEF Shape
<1>2. \A b \in Agents : agent'[b] = agent[b] \/ (~agent'[b].session /\ ~agent'[b].model)
  BY <1>1 DEF Gone
<1>3. Known'
  BY <1>2, StillKnown
<1>4. ASSUME NEW b \in Agents, b \in Counted' PROVE b \in Counted
  <2>1. agent'[b].model
    BY <1>4 DEF Counted, OnModel
  <2>2. agent'[b] = agent[b] /\ agent'[b] # Gone /\ b # a
    BY <1>1, <2>1 DEF Gone
  <2>3. b # Nobody
    BY DispatchAssumption DEF Nobody
  <2>4. \A e \in Workers : work[e].at = "check" /\ work[e].agent = b => work'[e].at = "check" /\ work'[e].agent = b
    BY <2>2, <2>3
  <2> QED  BY <1>4, <2>2, <2>4, StillCounted
<1>5. Counted' \subseteq Counted
  BY <1>4 DEF Counted, OnModel, Live
<1> QED  BY <1>3, <1>5, RoomLess

LEMMA LaunchFailsRoom ==
  ASSUME Shape, Known, Room, NEW d \in Workers, LaunchFails(d), spent'.crashes = spent.crashes
  PROVE  Known' /\ Room'
<1>1. /\ agent' = [agent EXCEPT ![work[d].agent] = Gone]
      /\ work' = [work EXCEPT ![d] = Idle] /\ reserved' = Release(d)
  BY DEF LaunchFails, Retreat
<1>2. \A e \in Workers : work'[e] = work[e] \/ work[e].agent \in {work[d].agent, Nobody}
  BY <1>1, Types DEF Shape
<1> QED  BY <1>1, <1>2, ReleaseLess, ClearedRoom

\* A slot given back is taken by the session it was for, if that is of the model.
LEMMA CheckRoom ==
  ASSUME Shape, Agreed, Known, Room, NEW d \in Workers, Check(d), spent'.crashes = spent.crashes
  PROVE  Known' /\ Room'
<1> DEFINE a == work[d].agent
           w == [work[d] EXCEPT !.at = "mark", !.slot = FALSE]
           r == [agent[a] EXCEPT !.session = FALSE]
<1>1. /\ work[d].at = "check" /\ work[d] \in Dispatch /\ Holds(work[d])
      /\ work' = [work EXCEPT ![d] = w] /\ reserved' = Release(d)
      /\ agent' = agent \/ agent' = [agent EXCEPT ![a] = r]
  BY Hands, Types DEF Check, Shape
<1>2. a \in Agents /\ a # Nobody
  BY <1>1, LaunchHasRow DEF Launching
<1>3. agent[a] \in AgentRow
  BY <1>2, Types DEF Shape
<1>4. /\ r.model = agent[a].model /\ r.task = agent[a].task /\ r.status = agent[a].status
      /\ ~r.session
  BY <1>3 DEF AgentRow
<1> HIDE DEF r
<1>5. \A b \in Agents : /\ agent'[b].model = agent[b].model /\ agent'[b].task = agent[b].task
                        /\ agent'[b].status = agent[b].status
                        /\ agent'[b].session => agent[b].session
  BY <1>1, <1>4, Types DEF Shape
<1>6. Known'
  BY <1>5, StillKnown
<1>7. \A e \in Workers : e # d => work'[e] = work[e]
  BY <1>1, Types DEF Shape
<1>8. Counted' \subseteq Counted \union {a}
  <2> SUFFICES ASSUME NEW b \in Agents, b \in Counted', b # a PROVE b \in Counted
    BY DEF Counted, OnModel, Live
  <2>1. \A e \in Workers : ~(work[e].at = "check" /\ work[e].agent = b)
    BY <1>7 DEF Counted
  <2> QED  BY <1>5, <2>1 DEF Counted, OnModel, Live
<1>9. CASE ~work[d].slot
  <2>1. work[d].task \notin Limited
    BY <1>1, <1>9 DEF Holds, Launching
  <2>2. agent[a] = Gone \/ agent[a].task = work[d].task
    BY <1>2, Agreement DEF RowOfDispatch
  <2>3. a \notin Counted'
    BY <1>2, <1>5, <2>1, <2>2 DEF Counted, OnModel, Live, Gone
  <2>4. Counted' \subseteq Counted
    BY <1>8, <2>3
  <2> QED  BY <1>1, <1>6, <2>4, ReleaseLess, RoomLess
<1>10. CASE work[d].slot
  <2>1. reserved' = reserved - 1 /\ reserved \in Int /\ Limit \in Int
    BY <1>1, <1>10, ReleaseLess, Types, DispatchAssumption DEF Shape
  <2>2. /\ IsFiniteSet(Counted \union {a})
        /\ Cardinality(Counted \union {a}) \in Nat
        /\ Cardinality(Counted \union {a}) <= Cardinality(Counted) + 1
    BY CountedFinite, FS_AddElement, FS_CardinalityType
  <2>3. Cardinality(Counted') \in Nat /\ Cardinality(Counted') <= Cardinality(Counted \union {a})
    BY <1>8, <2>2, FS_Subset, FS_CardinalityType
  <2>4. CASE spent.crashes = 0
    <3>1. Cardinality(Counted) + reserved <= Limit
      BY <2>4 DEF Room
    <3>2. Cardinality(Counted') + reserved' <= Limit
      BY <2>1, <2>2, <2>3, <3>1, CountedFinite
    <3> QED  BY <1>6, <3>2 DEF Room
  <2>5. CASE spent.crashes # 0
    BY <1>6, <2>5 DEF Room
  <2> QED  BY <2>4, <2>5
<1> QED  BY <1>9, <1>10

\* Rows that only are told to leave count as before.
LEMMA ToldRoom ==
  ASSUME Shape, Known, Room, UNCHANGED <<work, reserved>>, spent'.crashes = spent.crashes,
         NEW a \in Agents, agent' = [agent EXCEPT ![a].leaving = TRUE]
  PROVE  Known' /\ Room'
<1>1. \A b \in Agents : /\ agent'[b].model = agent[b].model /\ agent'[b].task = agent[b].task
                        /\ agent'[b].status = agent[b].status
                        /\ agent'[b].session = agent[b].session
  BY Types DEF Shape, AgentRow
<1>2. Counted' \subseteq Counted
  BY <1>1 DEF Counted, OnModel, Live
<1> QED  BY <1>1, <1>2, RoomLess, StillKnown, Types DEF Shape

LEMMA AgentRoom ==
  ASSUME Shape, Known, Room, NEW a \in Agents, Report(a) \/ Leave(a) \/ NeverStarted(a),
         spent'.crashes = spent.crashes
  PROVE  Known' /\ Room'
<1>1. UNCHANGED <<work, reserved>>
  BY DEF Report, Leave, NeverStarted
<1>2. CASE Report(a)
  BY <1>1, <1>2, ToldRoom DEF Report
<1>3. CASE Leave(a) \/ NeverStarted(a)
  <2>1. agent' = [agent EXCEPT ![a] = Gone]
    BY <1>3 DEF Leave, NeverStarted
  <2>2. \A e \in Workers : work'[e] = work[e]
    BY <1>1
  <2>3. reserved' \in Int /\ reserved' <= reserved
    BY <1>1, Types, DispatchAssumption DEF Shape
  <2> QED  BY <2>1, <2>2, <2>3, ClearedRoom
<1> QED  BY <1>2, <1>3

LEMMA SweepRoom ==
  ASSUME Shape, Known, Room, NEW t \in Tasks, Sweep(t) \/ Ages(t), spent'.crashes = spent.crashes
  PROVE  Known' /\ Room'
<1>1. UNCHANGED <<agent, work, reserved>>
  BY DEF Sweep, Ages, Stale, Stranded, GivenUp
<1> QED  BY <1>1, SameRoom, StillKnown

LEMMA ClickRoom ==
  ASSUME Shape, Known, Room, Click, spent'.crashes = spent.crashes
  PROVE  Known' /\ Room'
<1>1. PICK t \in Tasks : PauseTask(t) \/ CancelTask(t) \/ RestartTask(t)
  BY DEF Click
<1>2. CASE PauseTask(t)
  <2>1. UNCHANGED <<work, reserved>>
    BY <1>2 DEF PauseTask
  <2>2. UNCHANGED agent \/ \E a \in Agents : agent' = [agent EXCEPT ![a].leaving = TRUE]
    BY <1>2 DEF PauseTask, Live
  <2> QED  BY <2>1, <2>2, ToldRoom, SameRoom, StillKnown
<1>3. CASE CancelTask(t)
  <2>1. UNCHANGED <<agent, work, reserved>>
    BY <1>3 DEF CancelTask
  <2> QED  BY <2>1, SameRoom, StillKnown
<1>4. CASE RestartTask(t)
  <2> DEFINE w == [Idle EXCEPT !.at = "enrich", !.task = t, !.kind = "restart"]
  <2>1. PICK d \in Workers : Free(d) /\ work' = [work EXCEPT ![d] = w]
    BY <1>4 DEF RestartTask
  <2>2. UNCHANGED <<agent, reserved>> /\ work[d].at = "idle" /\ w.at # "check"
    BY <1>4, <2>1 DEF RestartTask, Free, Idle
  <2> HIDE DEF w
  <2>3. Counted' \subseteq Counted
    BY <2>1, <2>2, SameCounted
  <2> QED  BY <2>2, <2>3, RoomLess, StillKnown, Types DEF Shape
<1> QED  BY <1>1, <1>2, <1>3, <1>4

\* After a crash nothing is said of what has been forgotten.
LEMMA CrashRoom ==
  ASSUME Shape, Crash
  PROVE  Known' /\ Room'
<1>1. spent' = [spent EXCEPT !.crashes = spent.crashes + 1] /\ spent \in Spent
  BY Types DEF Crash, Spend, Shape
<1>2. spent'.crashes # 0
  BY <1>1, DispatchAssumption DEF Spent
<1> QED  BY <1>2 DEF Known, Room

LEMMA ActsRoom ==
  ASSUME Shape, Agreed, Known, Room, Acts
  PROVE  Known' /\ Room'
<1>1. CASE Crash
  BY <1>1, CrashRoom
<1>2. CASE ~Crash
  <2>1. spent'.crashes = spent.crashes
    BY <1>2, SameCrashes
  <2>2. ASSUME NEW d \in Workers, Step(d) \/ PrepFails(d) \/ LaunchFails(d)
        PROVE  Known' /\ Room'
    <3>1. CASE PrepFails(d)
      <4>1. PICK rows : Retreat(d, rows)
        BY <3>1 DEF PrepFails
      <4> QED  BY <2>1, <3>1, <4>1, RetreatRoom DEF PrepFails
    <3>2. CASE Enter(d) \/ Select(d) \/ Dequeue(d) \/ Mark(d)
      BY <2>1, <3>2, EnterRoom, SelectRoom, DequeueRoom
    <3>3. CASE Prepared(d) \/ Launched(d) \/ Check(d) \/ LaunchFails(d)
      BY <2>1, <3>3, PreparedRoom, LaunchedRoom, CheckRoom, LaunchFailsRoom
    <3> QED  BY <2>2, <3>1, <3>2, <3>3 DEF Step
  <2>3. ASSUME NEW d \in Workers, NEW t \in Tasks, Submit(d, t) PROVE Known' /\ Room'
    BY <2>1, <2>3, SubmitRoom
  <2>4. ASSUME NEW a \in Agents, Report(a) \/ Leave(a) \/ NeverStarted(a) PROVE Known' /\ Room'
    BY <2>1, <2>4, AgentRoom
  <2>5. ASSUME NEW t \in Tasks, Sweep(t) \/ Ages(t) PROVE Known' /\ Room'
    BY <2>1, <2>5, SweepRoom
  <2>6. CASE Click
    BY <2>1, <2>6, ClickRoom
  <2> QED  BY <1>2, <2>2, <2>3, <2>4, <2>5, <2>6 DEF Acts
<1> QED  BY <1>1, <1>2

\* What the count leaves out is held by dispatches that have a slot, each by its own.
LEMMA RoomIsEnough == Shape /\ Agreed /\ Known /\ Room => SlotsKept
<1> SUFFICES ASSUME Shape, Agreed, Known, Room, spent.crashes = 0
             PROVE  Cardinality({a \in Agents : agent[a].session /\ agent[a].task \in Limited}) <= Limit
  BY DEF SlotsKept
<1> DEFINE S == {a \in Agents : agent[a].session /\ agent[a].task \in Limited}
           H == {a \in S : \E d \in Workers : work[d].at = "check" /\ work[d].agent = a}
           f == [a \in H |-> CHOOSE d \in Workers : work[d].at = "check" /\ work[d].agent = a]
<1>1. S \in SUBSET Agents /\ H \in SUBSET Agents
  OBVIOUS
<1>2. S \subseteq Counted \union H
  <2> SUFFICES ASSUME NEW a \in S, a \notin H PROVE a \in Counted
    OBVIOUS
  <2>1. a \in Live
    BY Live_
  <2>2. agent[a].model /\ agent[a].task \in Limited
    BY DEF Known
  <2>3. \A d \in Workers : ~(work[d].at = "check" /\ work[d].agent = a)
    OBVIOUS
  <2> QED  BY <2>1, <2>2, <2>3 DEF Counted, OnModel
<1>3. \A a \in H : f[a] \in Workers /\ work[f[a]].at = "check" /\ work[f[a]].agent = a
  OBVIOUS
<1>4. \A a \in H : f[a] \in Slotted
  <2> SUFFICES ASSUME NEW a \in H PROVE f[a] \in Slotted
    OBVIOUS
  <2>1. f[a] \in Workers /\ work[f[a]].at = "check" /\ work[f[a]].agent = a
    BY <1>3
  <2>2. agent[a].task \in Limited /\ agent[a].session /\ a \in Agents
    OBVIOUS
  <2>3. agent[a] # Gone /\ a # Nobody
    BY <2>2, Live_, DispatchAssumption DEF Nobody
  <2> HIDE DEF f, H, S
  <2>4. agent[a].task = work[f[a]].task
    BY <2>1, <2>3, Agreement DEF RowOfDispatch
  <2>5. Holds(work[f[a]])
    BY <2>1, Hands
  <2> QED  BY <2>1, <2>2, <2>4, <2>5 DEF Holds, Launching, Slotted
<1>5. /\ IsFiniteSet(H) /\ Cardinality(H) \in Nat
      /\ IsFiniteSet(Slotted) /\ Cardinality(Slotted) \in Nat
  BY <1>1, SlottedFinite, FS_Subset, FS_CardinalityType, DispatchAssumption
<1>6. Cardinality(H) <= Cardinality(Slotted)
  <2>1. f \in [H -> Slotted]
    BY <1>4
  <2>2. \A a, b \in H : f[a] = f[b] => a = b
    BY <1>3
  <2> HIDE DEF f, H, S
  <2>3. f \in Injection(H, Slotted)
    BY <2>1, <2>2 DEF Injection, IsInjective
  <2> QED  BY <1>5, <2>3, FS_Injection
<1> HIDE DEF f, H, S
<1>7. /\ IsFiniteSet(Counted \union H) /\ Cardinality(Counted \union H) \in Nat
      /\ Cardinality(Counted \union H) <= Cardinality(Counted) + Cardinality(H)
  <2>1. /\ IsFiniteSet(Counted \union H)
        /\ Cardinality(Counted \union H) = Cardinality(Counted) + Cardinality(H) - Cardinality(Counted \cap H)
    BY <1>5, CountedFinite, FS_Union
  <2>2. Cardinality(Counted \cap H) \in Nat
    BY CountedFinite, FS_Intersection, FS_CardinalityType
  <2> QED  BY <1>5, <2>1, <2>2, CountedFinite, FS_CardinalityType
<1>8. Cardinality(S) \in Nat /\ Cardinality(S) <= Cardinality(Counted \union H)
  BY <1>2, <1>7, FS_Subset, FS_CardinalityType
<1>9. /\ Cardinality(Slotted) <= reserved /\ Cardinality(Counted) + reserved <= Limit
      /\ reserved \in Int /\ Limit \in Int
  BY Types, DispatchAssumption DEF Shape, Backed, Room
<1>10. Cardinality(S) <= Limit
  BY <1>5, <1>6, <1>7, <1>8, <1>9, CountedFinite
<1> QED  BY <1>10 DEF S

LEMMA InitRoom == Init => Known /\ Room
<1> SUFFICES ASSUME Init PROVE Known /\ Room
  OBVIOUS
<1>1. Counted = {}
  BY DEF Init, Counted, OnModel, Live, Gone
<1>2. Known
  BY DEF Init, Known, Gone
<1>3. Cardinality(Counted) = 0 /\ reserved = 0 /\ Limit \in Nat
  BY <1>1, FS_EmptySet, DispatchAssumption DEF Init
<1> QED  BY <1>2, <1>3 DEF Room

\* Until the server is restarted the limited model never has more sessions than
\* it has room for: those on record and those reserved fit together, a launch
\* that is not on record holds a reservation, and no slot is given back twice
\* (QueueService.try_reserve_cli_model_slot, create_agent_for_task).
THEOREM SlotsAreKept == Spec => []SlotsKept
<1> DEFINE Inv == InOne /\ Known /\ Room
<1>1. Init => Inv
  BY InitOne, InitRoom
<1>2. Inv /\ [Next]_vars => Inv'
  <2> SUFFICES ASSUME Inv, [Next]_vars PROVE Inv'
    OBVIOUS
  <2>1. InOne'
    BY NextOne
  <2>2. CASE Next
    BY <2>1, <2>2, ActsRoom DEF Next, InOne
  <2>3. CASE UNCHANGED vars
    <3>1. UNCHANGED <<agent, work, reserved, spent>>
      BY <2>3 DEF vars, program
    <3> QED  BY <2>1, <3>1, SameRoom, StillKnown DEF InOne
  <2> QED  BY <2>2, <2>3
<1>3. Inv => SlotsKept
  BY RoomIsEnough DEF InOne
<1> HIDE DEF Inv
<1> QED  BY <1>1, <1>2, <1>3, PTL DEF Spec

=============================================================================
