------------------------- MODULE AgentRecoveryProofs -------------------------
(***************************************************************************)
(* For any rows, troubles and retries: every row keeps its type, a report  *)
(* of "done" is overwritten only by what was under way when it came, and   *)
(* there is never a second agent that is not over.                         *)
(*                                                                         *)
(* The last is not inductive.  create_agent_for_task commits the agent's   *)
(* row with the session still to be made, and the monitor may end a live   *)
(* row without a session in the meantime, as a zombie or, where the        *)
(* workflow is not active, as an orphan.  The launch does not notice: the  *)
(* row is written whole when the session is up, and lives again.           *)
(* What keeps that from being a second agent is Fresh: while a launch is   *)
(* under way no other agent lives and nobody else launches, the monitor's  *)
(* job, if it is about the launched agent, is one that ends in no launch,  *)
(* and once the row was ended the launch is the sweep's and the monitor is *)
(* idle with none of its snapshot left: it will look again before it       *)
(* launches anybody.                                                       *)
(***************************************************************************)
EXTENDS AgentRecovery, FiniteSetTheorems, TLAPS

\* The steps, reasons and session names the actors' code passes through.
Steps    == {"idle", "end", "kill", "row", "then", "place", "launch", "check", "made",
             "requeue", "requeued", "over", "relaunch", "recheck", "reap"}
Whys     == Signs \union {None, "leave", "zombie", "requeue", "restart", "retry"}
Sessions == {None, "first", "again"}

TaskRow  == [status : {"pending", "in_progress"} \union Terminal, agent : Agents \union {Nobody},
             retries : 0..MaxRetries, free : BOOLEAN]
AgentRow == [status : {"idle", "working", "terminated"}, has : BOOLEAN,
             restarts : 0..3, session : Sessions, prompt : BOOLEAN,
             shows : Signs \union {"work"}, nudges : 0..3, leaving : BOOLEAN]
JobRow   == [at : Steps, why : Whys, of : Agents \union {Nobody}, new : Agents \union {Nobody},
             name : Sessions, holds : BOOLEAN]

\* TypeOK, with a name for the type of each row.
Rows ==
  /\ task \in TaskRow /\ flow \in {"active", "paused", "arbitration"}
  /\ agent \in [Agents -> AgentRow]
  /\ seen \in [Agents -> {None, "idle", "working"}]
  /\ job \in [Actors -> JobRow]
  /\ trouble \subseteq Troubles

LEMMA Constants == /\ Agents \subseteq Nat /\ 1 \in Agents /\ 0 \notin Agents
                   /\ MaxTroubles \in Nat /\ MaxRetries \in Nat
BY RecoveryAssumption DEF RecoveryAssumption

LEMMA RowsType == Rows => TypeOK
BY DEF Rows, TypeOK, TaskRow, AgentRow, JobRow, Steps, Whys, Sessions

-----------------------------------------------------------------------------
(* What is written to a row.                                               *)

LEMMA GoneRow == Gone \in AgentRow
BY DEF Gone, AgentRow, Sessions

\* A column of an agent's row is overwritten.
LEMMA AgentColumn ==
  ASSUME NEW r \in AgentRow
  PROVE  /\ \A v \in {"idle", "working", "terminated"} : [r EXCEPT !.status = v] \in AgentRow
         /\ \A v \in BOOLEAN : [r EXCEPT !.has = v] \in AgentRow
         /\ \A v \in 0..3 : [r EXCEPT !.restarts = v] \in AgentRow
         /\ \A v \in Sessions : [r EXCEPT !.session = v] \in AgentRow
         /\ \A v \in BOOLEAN : [r EXCEPT !.prompt = v] \in AgentRow
         /\ \A v \in Signs \union {"work"} : [r EXCEPT !.shows = v] \in AgentRow
         /\ \A v \in 0..3 : [r EXCEPT !.nudges = v] \in AgentRow
         /\ \A v \in BOOLEAN : [r EXCEPT !.leaving = v] \in AgentRow
BY DEF AgentRow

LEMMA EndedRow == ASSUME Rows, NEW a \in Agents PROVE Ended(a) \in AgentRow
<1>1. agent[a] \in AgentRow
  BY DEF Rows
<1> QED
  BY <1>1, GoneRow DEF Ended, AgentRow

LEMMA AgentWrite ==
  ASSUME Rows, NEW a, NEW r, a \in Agents => r \in AgentRow
  PROVE  [agent EXCEPT ![a] = r] \in [Agents -> AgentRow]
BY DEF Rows

LEMMA IdleRow == Idle \in JobRow
BY DEF Idle, JobRow, Steps, Whys, Sessions, Nobody

LEMMA JobWrite ==
  ASSUME Rows, NEW m \in Actors, NEW r \in JobRow
  PROVE  [job EXCEPT ![m] = r] \in [Actors -> JobRow]
BY DEF Rows

LEMMA Stops == ASSUME Rows, NEW m \in Actors, Stop(m) PROVE job' \in [Actors -> JobRow]
BY IdleRow, JobWrite DEF Stop

LEMMA Moves == ASSUME Rows, NEW m \in Actors, NEW at \in Steps, To(m, at)
               PROVE  job' \in [Actors -> JobRow]
<1>1. job[m] \in JobRow
  BY DEF Rows
<1>2. [job[m] EXCEPT !.at = at] \in JobRow
  BY <1>1 DEF JobRow
<1> QED
  BY <1>2, JobWrite DEF To, Rows

LEMMA Begins ==
  ASSUME Rows, NEW m \in Actors, NEW at \in Steps, NEW why \in Whys,
         NEW a \in Agents \union {Nobody}, NEW holds \in BOOLEAN
  PROVE  /\ [job EXCEPT ![m] = [Idle EXCEPT !.at = at, !.why = why]] \in [Actors -> JobRow]
         /\ [job EXCEPT ![m] = [Idle EXCEPT !.at = at, !.why = why, !.of = a]] \in [Actors -> JobRow]
         /\ [job EXCEPT ![m] = [Idle EXCEPT !.at = at, !.why = why, !.of = a, !.holds = holds]]
              \in [Actors -> JobRow]
         /\ [job EXCEPT ![m] = [Idle EXCEPT !.at = at, !.of = a, !.holds = holds]] \in [Actors -> JobRow]
<1>1. /\ [Idle EXCEPT !.at = at, !.why = why] \in JobRow
      /\ [Idle EXCEPT !.at = at, !.why = why, !.of = a] \in JobRow
      /\ [Idle EXCEPT !.at = at, !.why = why, !.of = a, !.holds = holds] \in JobRow
      /\ [Idle EXCEPT !.at = at, !.of = a, !.holds = holds] \in JobRow
  BY IdleRow DEF JobRow
<1> QED
  BY <1>1, JobWrite

LEMMA TaskWrites ==
  ASSUME Rows, NEW free \in BOOLEAN, NEW a \in Agents
  PROVE  Requeued \in TaskRow /\ Failed(free) \in TaskRow /\ Strayed(a) \in TaskRow
BY DEF Rows, Requeued, Failed, Strayed, TaskRow, Terminal, Nobody

LEMMA Misfortune == ASSUME Rows, NEW what, MayGoWrong(what) PROVE trouble' \subseteq Troubles
BY DEF Rows, MayGoWrong

LEMMA RowsInit == Init => Rows
<1> SUFFICES ASSUME Init PROVE Rows
  OBVIOUS
<1>1. task \in TaskRow
  BY Constants DEF Init, TaskRow, Terminal
<1>2. [Gone EXCEPT !.status = "working", !.has = TRUE, !.session = "first", !.prompt = TRUE] \in AgentRow
  BY GoneRow DEF AgentRow, Sessions
<1> QED
  BY <1>1, <1>2, GoneRow, IdleRow DEF Init, Rows

-----------------------------------------------------------------------------
(* The steps of an agent, of a report, and of whoever ends or launches     *)
(* one keep the rows' types.                                               *)

LEMMA Fetched == ASSUME Rows PROVE /\ \A a \in Agents : agent[a] \in AgentRow
                                   /\ \A m \in Actors : job[m] \in JobRow
BY DEF Rows

LEMMA RowsTroubled ==
  ASSUME Rows, NEW a \in Agents, NEW sign \in Signs, Troubled(a, sign)
  PROVE Rows'
<1> DEFINE r == [agent[a] EXCEPT !.shows = sign, !.nudges = 0]
<1>0. agent[a] \in AgentRow
  BY Fetched
<1>1. r \in AgentRow
  <2>1. [agent[a] EXCEPT !.shows = sign] \in AgentRow
    BY <1>0, AgentColumn
  <2>2. 0 \in 0..3
    OBVIOUS
  <2>3. [[agent[a] EXCEPT !.shows = sign] EXCEPT !.nudges = 0] \in AgentRow
    BY <2>1, <2>2, AgentColumn, Zenon
  <2> QED
    BY <2>3
<1>2. agent' = [agent EXCEPT ![a] = r]
  BY DEF Troubled, Rows
<1>3. agent' \in [Agents -> AgentRow]
  BY <1>1, <1>2, AgentWrite
<1> QED
  BY <1>3, Misfortune DEF Rows, Troubled

LEMMA RowsExits == ASSUME Rows, NEW a \in Agents, Exits(a) PROVE Rows'
<1>1. PICK shows \in {"work", "exits"} :
      agent' = [agent EXCEPT ![a].session = None, ![a].prompt = FALSE, ![a].shows = shows]
  BY DEF Exits
<1> DEFINE r == [agent[a] EXCEPT !.session = None, !.prompt = FALSE, !.shows = shows]
<1>2. agent[a] \in AgentRow
  BY Fetched
<1>3. shows \in Signs \union {"work"}
  BY DEF Signs
<1>4. r \in AgentRow
  BY <1>2, <1>3 DEF AgentRow, Sessions
<1>5. agent' = [agent EXCEPT ![a] = r]
  BY <1>1 DEF Rows
<1>6. agent' \in [Agents -> AgentRow]
  BY <1>4, <1>5, AgentWrite
<1> QED
  BY <1>6 DEF Rows, Exits

LEMMA RowsReport == ASSUME Rows, NEW a \in Agents, Report(a) PROVE Rows'
<1> DEFINE r == [agent[a] EXCEPT !.leaving = (a \in Live)]
<1>1. r \in AgentRow
  <2>1. (a \in Live) \in BOOLEAN
    OBVIOUS
  <2> QED
    BY <2>1, Fetched, AgentColumn
<1>2. agent' \in [Agents -> AgentRow]
  BY <1>1, AgentWrite DEF Report
<1>3. [task EXCEPT !.status = "done"] \in TaskRow
  BY DEF Rows, TaskRow, Terminal
<1>4. task' \in TaskRow /\ trouble' \subseteq Troubles
  BY <1>3, TaskWrites, Misfortune DEF Report, Rows
<1> QED
  BY <1>2, <1>4 DEF Rows, Report

LEMMA RowsGoes == ASSUME Rows, NEW m \in Actors, Goes(m) PROVE job' \in [Actors -> JobRow]
BY Moves, Stops DEF Goes, Steps

LEMMA RowsEndStart == ASSUME Rows, NEW m \in Actors, EndStart(m) PROVE Rows'
<1> DEFINE a == job[m].of
           j == [job[m] EXCEPT !.at = "kill", !.name = agent[a].session]
<1>1. a \in Live => agent[a].session \in Sessions
  BY Fetched DEF AgentRow, Live
<1>2. a \in Live => j \in JobRow
  BY <1>1, Fetched DEF JobRow, Steps
<1>3. a \in Live => job' = [job EXCEPT ![m] = j]
  BY DEF EndStart, Rows
<1>4. job' \in [Actors -> JobRow]
  BY <1>2, <1>3, JobWrite, RowsGoes DEF EndStart
<1> QED
  BY <1>4 DEF Rows, EndStart

LEMMA RowsEndKill == ASSUME Rows, NEW m \in Actors, EndKill(m) PROVE Rows'
<1> DEFINE a == job[m].of
           r == [agent[a] EXCEPT !.session = None, !.prompt = FALSE]
           j == [job[m] EXCEPT !.at = "row", !.name = None]
<1>1. a \in Agents => r \in AgentRow
  BY Fetched DEF AgentRow, Sessions
<1>2. agent' = agent \/ agent' = [agent EXCEPT ![a] = r]
  BY DEF EndKill, Rows
<1>3. agent' \in [Agents -> AgentRow]
  BY <1>1, <1>2, AgentWrite DEF Rows
<1>4. j \in JobRow
  BY Fetched DEF JobRow, Sessions, Steps
<1>5. job' = [job EXCEPT ![m] = j]
  BY DEF EndKill, Rows
<1>6. job' \in [Actors -> JobRow]
  BY <1>4, <1>5, JobWrite
<1> QED
  BY <1>3, <1>6 DEF Rows, EndKill

LEMMA RowsEndRow == ASSUME Rows, NEW m \in Actors, EndRow(m) PROVE Rows'
<1> DEFINE a == job[m].of
<1>1. agent' \in [Agents -> AgentRow]
  BY EndedRow, AgentWrite DEF EndRow
<1>2. task' \in TaskRow
  BY DEF EndRow, Strayed, Rows, Requeued, TaskRow, Nobody
<1>3. job' \in [Actors -> JobRow]
  BY RowsGoes DEF EndRow
<1> QED
  BY <1>1, <1>2, <1>3 DEF Rows, EndRow

LEMMA RowsLeave == ASSUME Rows, NEW a \in Agents, Leave(a) PROVE Rows'
<1> DEFINE r == [agent[a] EXCEPT !.leaving = FALSE]
<1>1. r \in AgentRow
  BY Fetched, AgentColumn
<1>2. agent' = [agent EXCEPT ![a] = r]
  BY DEF Leave, Rows
<1>3. agent' \in [Agents -> AgentRow]
  BY <1>1, <1>2, AgentWrite
<1>4. job' \in [Actors -> JobRow]
  <2>1. "desk" \in Actors /\ "end" \in Steps /\ "leave" \in Whys
    BY DEF Actors, Steps, Whys
  <2>2. [Idle EXCEPT !.at = "end", !.why = "leave", !.of = a] \in JobRow
    BY <2>1, IdleRow DEF JobRow
  <2> QED
    BY <2>1, <2>2, JobWrite DEF Leave
<1> QED
  BY <1>3, <1>4 DEF Rows, Leave

LEMMA RowsThen == ASSUME Rows, Then PROVE Rows'
<1>1. task' \in TaskRow
  <2>1. /\ Requeued \in TaskRow /\ Failed(TRUE) \in TaskRow /\ task \in TaskRow
    BY TaskWrites, Constants DEF Rows
  <2> QED
    BY <2>1 DEF Then
<1>2. job' \in [Actors -> JobRow]
  <2>1. job["monitor"].why \in Whys /\ "monitor" \in Actors
    BY Fetched DEF JobRow, Actors
  <2>2. /\ "place" \in Steps
        /\ [job EXCEPT !["monitor"] = [Idle EXCEPT !.at = "place", !.why = job["monitor"].why]]
             \in [Actors -> JobRow]
    BY <2>1, Begins DEF Steps
  <2> QED
    BY <2>1, <2>2, Stops DEF Then
<1>3. flow' \in {"active", "paused", "arbitration"}
  BY DEF Rows, Then
<1> QED
  BY <1>1, <1>2, <1>3 DEF Rows, Then

LEMMA RowsPlace == ASSUME Rows, NEW m \in Actors, Place(m) PROVE Rows'
<1>1. ASSUME NEW a \in Agents, NEW at \in Steps, job' = [job EXCEPT ![m].at = at, ![m].new = a]
      PROVE  job' \in [Actors -> JobRow]
  <2>1. [job[m] EXCEPT !.at = at, !.new = a] \in JobRow
    BY Fetched DEF JobRow
  <2>2. job' = [job EXCEPT ![m] = [job[m] EXCEPT !.at = at, !.new = a]]
    BY <1>1 DEF Rows
  <2> QED
    BY <2>1, <2>2, JobWrite
<1>2. "made" \in Steps /\ "launch" \in Steps
  BY DEF Steps
<1>3. [Gone EXCEPT !.status = "idle", !.has = TRUE] \in AgentRow
  BY GoneRow, AgentColumn
<1>4. ASSUME NEW a \in Occupied, job' = [job EXCEPT ![m].at = "made", ![m].new = a],
             UNCHANGED <<agent, trouble>>
      PROVE  Rows'
  <2>1. job' \in [Actors -> JobRow]
    BY <1>1, <1>2, <1>4 DEF Occupied, Live
  <2> QED
    BY <1>4, <2>1 DEF Rows, Place
<1>5. ASSUME NEW a \in Unused, agent' = [agent EXCEPT ![a] = [Gone EXCEPT !.status = "idle", !.has = TRUE]],
             job' = [job EXCEPT ![m].at = "launch", ![m].new = a]
      PROVE  Rows'
  <2>1. a \in Agents
    BY DEF Unused
  <2>2. agent' \in [Agents -> AgentRow]
    BY <1>3, <1>5, AgentWrite
  <2>3. job' \in [Actors -> JobRow]
    BY <1>1, <1>2, <1>5, <2>1
  <2>4. trouble' \subseteq Troubles
    BY Misfortune DEF Place, Rows
  <2> QED
    BY <2>2, <2>3, <2>4 DEF Rows, Place
<1> QED
  BY <1>4, <1>5 DEF Place

LEMMA RowsLaunch == ASSUME Rows, NEW m \in Actors, Launch(m) PROVE Rows'
<1> DEFINE a == job[m].new
           r == [agent[a] EXCEPT !.status = "working", !.has = TRUE, !.session = "first"]
           j == [job[m] EXCEPT !.at = "check", !.holds = TRUE]
<1>1. a \in Agents => r \in AgentRow
  <2>1. "first" \in Sessions
    BY DEF Sessions
  <2> QED
    BY <2>1, Fetched, AgentColumn
<1>2. agent' = [agent EXCEPT ![a] = r]
  BY DEF Launch
<1>3. agent' \in [Agents -> AgentRow]
  BY <1>1, <1>2, AgentWrite
<1>4. j \in JobRow
  BY Fetched DEF JobRow, Steps
<1>5. job' = [job EXCEPT ![m] = j]
  BY DEF Launch, Rows
<1>6. job' \in [Actors -> JobRow]
  BY <1>4, <1>5, JobWrite
<1> QED
  BY <1>3, <1>6 DEF Rows, Launch

LEMMA RowsLaunchFails == ASSUME Rows, NEW m \in Actors, LaunchFails(m) PROVE Rows'
<1>1. agent' \in [Agents -> AgentRow]
  BY EndedRow, AgentWrite DEF LaunchFails
<1>2. Strayed(job[m].new) \in TaskRow
  BY DEF Strayed, Rows, Requeued, TaskRow, Nobody
<1>3. (job[m].why = "limit") \in BOOLEAN /\ "failed" \in {"pending", "in_progress"} \union Terminal
  BY DEF Terminal
<1>4. task' \in TaskRow
  BY <1>2, <1>3 DEF LaunchFails, TaskRow
<1>5. job' \in [Actors -> JobRow] /\ trouble' \subseteq Troubles
  BY Stops, Misfortune DEF LaunchFails
<1> QED
  BY <1>1, <1>4, <1>5 DEF Rows, LaunchFails

LEMMA RowsPrompt == ASSUME Rows, NEW m \in Actors, Prompt(m) PROVE Rows'
<1> DEFINE a == job[m].new
           r == [agent[a] EXCEPT !.session = None]
           s == [agent[a] EXCEPT !.prompt = TRUE]
           j == [job[m] EXCEPT !.at = "made", !.holds = FALSE]
<1>1. a \in Agents => r \in AgentRow /\ s \in AgentRow
  <2>1. None \in Sessions
    BY DEF Sessions
  <2> QED
    BY <2>1, Fetched, AgentColumn
<1>2. agent' = [agent EXCEPT ![a] = r] \/ agent' = [agent EXCEPT ![a] = s]
  BY DEF Prompt, Rows
<1>3. agent' \in [Agents -> AgentRow]
  BY <1>1, <1>2, AgentWrite
<1>4. j \in JobRow
  BY Fetched DEF JobRow, Steps
<1>5. job' = [job EXCEPT ![m] = j] \/ To(m, "made")
  BY DEF Prompt, Rows
<1>6. job' \in [Actors -> JobRow]
  BY <1>4, <1>5, JobWrite, Moves DEF Steps
<1> QED
  BY <1>3, <1>6 DEF Rows, Prompt

LEMMA RowsMade == ASSUME Rows, NEW m \in Actors, Made(m) PROVE Rows'
<1>1. [task EXCEPT !.status = "in_progress", !.agent = job[m].new] \in TaskRow
  BY Fetched DEF Rows, TaskRow, JobRow
<1>2. job' \in [Actors -> JobRow]
  BY Stops DEF Made
<1> QED
  BY <1>1, <1>2 DEF Rows, Made

-----------------------------------------------------------------------------
(* So do the checks of the monitor.                                        *)

LEMMA RowsLook == ASSUME Rows, Look PROVE Rows'
<1>1. \A a \in Live : agent[a].status \in {"idle", "working"}
  BY Fetched DEF Live, AgentRow
<1> QED
  BY <1>1 DEF Rows, Look, Live

\* A check takes the agent from the snapshot.
LEMMA RowsFinds ==
  ASSUME Rows, NEW a \in Agents, NEW what, Finds(a, what)
  PROVE  seen' \in [Agents -> {None, "idle", "working"}]
BY DEF Finds, Rows

LEMMA RowsTakes ==
  ASSUME Rows, NEW a \in Agents \union {Nobody}, NEW at \in Steps, NEW why \in Whys,
         Takes(at, why, a) \/ TakesOver(why, a)
  PROVE  job' \in [Actors -> JobRow]
<1>1. "monitor" \in Actors /\ "end" \in Steps
  BY DEF Actors, Steps
<1>2. /\ [Idle EXCEPT !.at = at, !.why = why, !.of = a] \in JobRow
      /\ [Idle EXCEPT !.at = "end", !.why = why, !.of = a, !.holds = TRUE] \in JobRow
  BY <1>1, IdleRow DEF JobRow
<1> QED
  BY <1>1, <1>2, JobWrite DEF Takes, TakesOver

LEMMA Words ==
  /\ Signs \union {"zombie", "requeue", "restart", "retry", "leave", None} \subseteq Whys
  /\ {"credit", "limit", "overflow", "refused", "silent", "frozen", "mcp"} \subseteq Signs
  /\ {"end", "requeue", "requeued", "over", "relaunch", "recheck", "reap", "place"} \subseteq Steps
  /\ {"monitor", "sweep", "desk"} = Actors
BY DEF Whys, Signs, Steps, Actors

LEMMA TaskKinds ==
  ASSUME Rows
  PROVE  /\ Requeued \in TaskRow /\ Failed(TRUE) \in TaskRow /\ Failed(FALSE) \in TaskRow
         /\ task \in TaskRow /\ [Failed(FALSE) EXCEPT !.agent = Nobody] \in TaskRow
<1>1. /\ Requeued \in TaskRow /\ Failed(TRUE) \in TaskRow /\ Failed(FALSE) \in TaskRow
      /\ task \in TaskRow
  BY TaskWrites, Constants DEF Rows
<1> QED
  BY <1>1 DEF TaskRow

LEMMA RowsPass == ASSUME Rows, NEW a \in Agents, Pass(a) PROVE Rows'
BY RowsFinds DEF Rows, Pass

LEMMA RowsZombie == ASSUME Rows, NEW a \in Agents, Zombie(a) PROVE Rows'
BY RowsFinds, RowsTakes, Words DEF Rows, Zombie

LEMMA RowsCredit == ASSUME Rows, NEW a \in Agents, Credit(a) PROVE Rows'
BY RowsFinds, RowsTakes, Words, TaskKinds DEF Rows, Credit

LEMMA RowsSilent == ASSUME Rows, NEW a \in Agents, Silent(a) PROVE Rows'
BY RowsFinds, RowsTakes, Words DEF Rows, Silent

LEMMA RowsLimit == ASSUME Rows, NEW a \in Agents, Limit(a) PROVE Rows'
BY RowsFinds, RowsTakes, Words, TaskKinds DEF Rows, Limit

LEMMA RowsOverflow == ASSUME Rows, NEW a \in Agents, Overflow(a) PROVE Rows'
BY RowsFinds, RowsTakes, Words, TaskKinds DEF Rows, Overflow

LEMMA RowsRefused == ASSUME Rows, NEW a \in Agents, Refused(a) PROVE Rows'
BY RowsFinds, RowsTakes, Words, TaskKinds DEF Rows, Refused

LEMMA RowsAbandon == ASSUME Rows, NEW a \in Agents, Abandon(a) PROVE Rows'
BY RowsFinds, RowsTakes, Words, TaskKinds DEF Rows, Abandon

LEMMA RowsDisconnected == ASSUME Rows, NEW a \in Agents, Disconnected(a) PROVE Rows'
BY RowsFinds, RowsTakes, Words DEF Rows, Disconnected

LEMMA RowsRequeue == ASSUME Rows, NEW a \in Agents, Requeue(a) PROVE Rows'
BY RowsFinds, RowsTakes, Words, TaskKinds DEF Rows, Requeue

LEMMA RowsNudge == ASSUME Rows, NEW a \in Agents, Nudge(a) PROVE Rows'
<1>1. PICK sign \in {"frozen", "mcp", "claims", "overflow"} :
        Finds(a, sign) /\ agent[a].nudges < Nudges(sign)
  BY DEF Nudge
<1>2. PICK shows \in {"work", agent[a].shows} :
        agent' = [agent EXCEPT ![a].nudges = @ + 1, ![a].shows = shows]
  BY DEF Nudge
<1> DEFINE r == [agent[a] EXCEPT !.nudges = @ + 1, !.shows = shows]
<1>3. agent[a].nudges + 1 \in 0..3 /\ shows \in Signs \union {"work"}
  BY <1>1, <1>2, Fetched DEF AgentRow, Nudges
<1>4. r \in AgentRow
  <2>1. [agent[a] EXCEPT !.nudges = @ + 1] \in AgentRow
    BY <1>3, Fetched, AgentColumn
  <2>2. [[agent[a] EXCEPT !.nudges = @ + 1] EXCEPT !.shows = shows] \in AgentRow
    BY <1>3, <2>1, AgentColumn
  <2> QED
    BY <2>2
<1>5. agent' = [agent EXCEPT ![a] = r]
  BY <1>2 DEF Rows
<1>6. agent' \in [Agents -> AgentRow]
  BY <1>4, <1>5, AgentWrite
<1> QED
  BY <1>1, <1>6, RowsFinds DEF Rows, Nudge

LEMMA RowsRestart == ASSUME Rows, NEW a \in Agents, Restart(a) PROVE Rows'
<1>1. seen' \in [Agents -> {None, "idle", "working"}]
  BY RowsFinds DEF Restart
<1>2. CASE agent[a].restarts >= MaxRestarts
  <2>1. agent' \in [Agents -> AgentRow]
    BY <1>2, EndedRow, AgentWrite DEF Restart
  <2>2. task' \in TaskRow
    BY <1>2, TaskWrites DEF Restart
  <2>3. job' \in [Actors -> JobRow]
    BY <1>2, RowsTakes, Words DEF Restart
  <2> QED
    BY <1>1, <2>1, <2>2, <2>3 DEF Rows, Restart
<1>3. CASE ~ (agent[a].restarts >= MaxRestarts)
  <2> DEFINE r == [agent[a] EXCEPT !.restarts = @ + 1]
  <2>1. agent[a].restarts + 1 \in 0..3
    BY <1>3, Fetched DEF AgentRow, MaxRestarts
  <2>2. r \in AgentRow
    BY <2>1, Fetched, AgentColumn
  <2>3. agent' = [agent EXCEPT ![a] = r]
    BY <1>3 DEF Restart, Rows
  <2>4. agent' \in [Agents -> AgentRow]
    BY <2>2, <2>3, AgentWrite
  <2>5. job' \in [Actors -> JobRow]
    BY <1>3, RowsTakes, Stops, Words DEF Restart
  <2> QED
    BY <1>1, <1>3, <2>4, <2>5 DEF Rows, Restart
<1> QED
  BY <1>2, <1>3

LEMMA RowsRequeueKill == ASSUME Rows, RequeueKill PROVE Rows'
<1> DEFINE a == job["monitor"].of
           r == [agent[a] EXCEPT !.session = None, !.prompt = FALSE]
<1>1. a \in Agents => r \in AgentRow
  BY Fetched DEF AgentRow, Sessions
<1>2. agent' = [agent EXCEPT ![a] = r]
  BY DEF RequeueKill, Rows
<1>3. agent' \in [Agents -> AgentRow]
  BY <1>1, <1>2, AgentWrite
<1>4. job' \in [Actors -> JobRow]
  BY Moves, Words DEF RequeueKill
<1> QED
  BY <1>3, <1>4 DEF Rows, RequeueKill

\* What an agent of no row held, too.
LEMMA StrayedKept == ASSUME Rows, NEW a PROVE Strayed(a) \in TaskRow
BY TaskKinds DEF Strayed

LEMMA RowsRequeueRow == ASSUME Rows, RequeueRow PROVE Rows'
<1>1. agent' \in [Agents -> AgentRow]
  BY EndedRow, AgentWrite DEF RequeueRow
<1> QED
  BY <1>1, StrayedKept, Stops, Words DEF Rows, RequeueRow

LEMMA RowsOver == ASSUME Rows, Over PROVE Rows'
BY TaskKinds, Stops, Words DEF Rows, Over

LEMMA RowsRelaunch == ASSUME Rows, Relaunch PROVE Rows'
<1> DEFINE a == job["monitor"].of
           shows == IF agent[a].shows = "exits" THEN agent[a].shows ELSE "work"
           r == [agent[a] EXCEPT !.session = "again", !.nudges = 0, !.shows = shows]
<1>1. ASSUME a \in Agents PROVE r \in AgentRow
  <2>1. agent[a] \in AgentRow
    BY <1>1, Fetched
  <2>2. shows \in Signs \union {"work"}
    BY <2>1 DEF AgentRow
  <2> HIDE DEF shows
  <2>3. 0 \in 0..3 /\ "again" \in Sessions
    BY DEF Sessions
  <2>4. [agent[a] EXCEPT !.session = "again"] \in AgentRow
    BY <2>1, <2>3, AgentColumn, Zenon
  <2>5. [[agent[a] EXCEPT !.session = "again"] EXCEPT !.nudges = 0] \in AgentRow
    BY <2>3, <2>4, AgentColumn, Zenon
  <2>6. [[[agent[a] EXCEPT !.session = "again"] EXCEPT !.nudges = 0] EXCEPT !.shows = shows] \in AgentRow
    BY <2>2, <2>5, AgentColumn, Zenon
  <2> QED
    BY <2>6
<1>2. agent' = [agent EXCEPT ![a] = r] \/ agent' = agent
  BY DEF Relaunch, Rows
<1>3. agent' \in [Agents -> AgentRow]
  BY <1>1, <1>2, AgentWrite DEF Rows
<1>4. job' \in [Actors -> JobRow] /\ trouble' \subseteq Troubles
  BY Moves, Stops, Misfortune, Words DEF Relaunch, Rows
<1> QED
  BY <1>3, <1>4 DEF Rows, Relaunch

LEMMA RowsRecheck == ASSUME Rows, Recheck PROVE Rows'
<1> DEFINE a == job["monitor"].of
           r == [agent[a] EXCEPT !.session = None]
           s == [agent[a] EXCEPT !.prompt = (agent[a].session # None)]
<1>1. a \in Agents => r \in AgentRow /\ s \in AgentRow
  <2>1. None \in Sessions /\ (agent[a].session # None) \in BOOLEAN
    BY DEF Sessions
  <2> QED
    BY <2>1, Fetched, AgentColumn
<1>2. agent' = [agent EXCEPT ![a] = r] \/ agent' = [agent EXCEPT ![a] = s]
  BY DEF Recheck, Rows
<1>3. agent' \in [Agents -> AgentRow]
  BY <1>1, <1>2, AgentWrite
<1> QED
  BY <1>3, Stops, Words DEF Rows, Recheck

LEMMA RowsReap == ASSUME Rows, NEW a \in Agents, Reap(a) PROVE Rows'
<1>1. (Strayed(a) # task) \in BOOLEAN
  OBVIOUS
<1>2. [Idle EXCEPT !.at = "reap", !.of = a, !.holds = (Strayed(a) # task)] \in JobRow
  BY <1>1, IdleRow, Words DEF JobRow
<1>3. job' \in [Actors -> JobRow]
  BY <1>2, JobWrite, Words DEF Reap
<1> QED
  BY <1>3 DEF Rows, Reap

LEMMA RowsReaped == ASSUME Rows, Reaped PROVE Rows'
<1> DEFINE a == job["monitor"].of
           r == [Ended(a) EXCEPT !.session = None, !.prompt = FALSE]
<1>1. a \in Agents => r \in AgentRow
  BY EndedRow DEF AgentRow, Sessions
<1>2. agent' \in [Agents -> AgentRow]
  BY <1>1, AgentWrite DEF Reaped
<1> QED
  BY <1>2, TaskKinds, Stops, Words DEF Rows, Reaped

LEMMA RowsExorcise == ASSUME Rows, Exorcise PROVE Rows'
<1>1. \A a \in Agents : [agent[a] EXCEPT !.session = None, !.prompt = FALSE] \in AgentRow
  BY Fetched DEF AgentRow, Sessions
<1>2. agent' \in [Agents -> AgentRow]
  BY <1>1, Fetched DEF Exorcise
<1> QED
  BY <1>2 DEF Rows, Exorcise

-----------------------------------------------------------------------------
(* And the sweep's.                                                        *)

LEMMA RowsOrphan == ASSUME Rows, Orphan PROVE Rows'
BY TaskKinds DEF Rows, Orphan

LEMMA RowsStale == ASSUME Rows, Stale PROVE Rows'
BY TaskKinds DEF Rows, Stale

LEMMA RowsRetry == ASSUME Rows, Retry PROVE Rows'
<1>1. [task EXCEPT !.status = "pending", !.free = FALSE,
                   !.retries = IF @ < MaxRetries THEN @ + 1 ELSE @] \in TaskRow
  <2> DEFINE n == IF task.retries < MaxRetries THEN task.retries + 1 ELSE task.retries
  <2>1. n \in 0..MaxRetries
    BY Constants DEF Rows, TaskRow
  <2> HIDE DEF n
  <2>2. [task EXCEPT !.status = "pending", !.free = FALSE, !.retries = n] \in TaskRow
    BY <2>1 DEF Rows, TaskRow
  <2> QED
    BY <2>2 DEF n
<1>2. [Idle EXCEPT !.at = "place", !.why = "retry"] \in JobRow
  BY IdleRow, Words DEF JobRow
<1>3. job' \in [Actors -> JobRow]
  BY <1>2, JobWrite, Words DEF Retry
<1> QED
  BY <1>1, <1>3 DEF Rows, Retry

LEMMA RowsStep == Rows /\ [Next]_vars => Rows'
<1> SUFFICES ASSUME Rows, [Next]_vars PROVE Rows'
  OBVIOUS
<1>1. ASSUME NEW m \in Actors, Carries(m) PROVE Rows'
  BY <1>1, RowsEndStart, RowsEndKill, RowsEndRow, RowsPlace, RowsLaunch, RowsPrompt, RowsMade DEF Carries
<1>2. ASSUME NEW a \in Agents, Checks(a) PROVE Rows'
  BY <1>2, RowsPass, RowsZombie, RowsCredit, RowsSilent, RowsLimit, RowsOverflow, RowsRefused,
     RowsNudge, RowsAbandon, RowsDisconnected, RowsRequeue, RowsRestart DEF Checks
<1>3. CASE Monitor
  BY <1>1, <1>2, <1>3, Words, RowsThen, RowsRequeueKill, RowsRequeueRow, RowsOver, RowsRelaunch,
     RowsRecheck, RowsReaped, RowsLook DEF Monitor
<1>4. CASE Sweep
  <2>1. Ask \/ Lift => Rows'
    BY DEF Ask, Lift, Rows
  <2> QED
    BY <1>1, <1>4, <2>1, Words, RowsOrphan, RowsStale, RowsRetry DEF Sweep
<1>5. CASE Desk
  BY <1>1, <1>5, Words, RowsLeave DEF Desk
<1>6. CASE UNCHANGED vars
  BY <1>6 DEF vars, Rows
<1> QED
  BY <1>3, <1>4, <1>5, <1>6, RowsExorcise, RowsReap, RowsLaunchFails, RowsExits, RowsReport,
     RowsTroubled DEF Next

LEMMA RowsAlways == Spec => []Rows
BY RowsInit, RowsStep, PTL DEF Spec

\* The rows of the task and its agents, the monitor's snapshot and what each
\* actor is in the middle of keep their types, for any number of rows, troubles
\* and retries.
THEOREM TypeCorrect == Spec => []TypeOK
BY RowsAlways, RowsType, PTL

-----------------------------------------------------------------------------
(* A report of "done" changes back only by a write that was under way.     *)

\* An agent's report of "done" is undone only by what had read the task before it
\* came: a launch (create_agent_for_task and its callers), the reaper's commit
\* (cleanup_orphaned_tmux_sessions), a limit that no other tool gets round
\* (_check_spend_or_session_limit).
THEOREM LateReportsOnly == Spec => ReportKept
<1> DEFINE Kept == task.status = "done" /\ task'.status # "done" => \E m \in Actors : Overtakes(m)
<1>1. Rows /\ [Next]_vars => [Kept]_vars
  <2> SUFFICES ASSUME Rows, Next, task.status = "done", task'.status # "done"
               PROVE  \E m \in Actors : Overtakes(m)
    OBVIOUS
  <2>0. task.status \in Terminal /\ task' # task
    BY DEF Terminal
  <2>1. \A a : Strayed(a) = task
    BY DEF Strayed
  <2>2. ASSUME NEW a \in Agents, Checks(a) PROVE FALSE
    <3>1. Check(a) = "zombie" /\ ~ Held(a) /\ task.status # "in_progress"
      BY <2>0 DEF Check, Held
    <3> QED
      BY <2>0, <2>1, <2>2, <3>1 DEF Checks, Finds, Pass, Zombie, Credit, Silent, Limit, Overflow, Refused, Nudge,
         Abandon, Disconnected, Requeue, Restart
  <2>3. ASSUME NEW m \in Actors, Carries(m) PROVE Overtakes(m)
    BY <2>0, <2>1, <2>3 DEF Carries, EndStart, EndKill, EndRow, Place, Launch, Prompt, Made, Overtakes
  <2>4. Then => Overtakes("monitor")
    BY <2>0 DEF Then, Held, Overtakes
  <2>5. Reaped => Overtakes("monitor")
    BY <2>0 DEF Reaped, Overtakes
  <2>6. \A m \in Actors : LaunchFails(m) => Overtakes(m)
    BY DEF LaunchFails, Overtakes
  <2>7. ~ (RequeueKill \/ RequeueRow \/ Over \/ Relaunch \/ Recheck \/ Look)
    BY <2>0, <2>1 DEF RequeueKill, RequeueRow, Over, Relaunch, Recheck, Look
  <2>8. ~ (Orphan \/ Stale \/ Retry \/ Ask \/ Lift \/ Exorcise)
    BY <2>0 DEF Orphan, Stale, Retry, Ask, Lift, Exorcise
  <2>9. \A a \in Agents : ~ (Leave(a) \/ Reap(a) \/ Exits(a) \/ Report(a) \/ \E sign \in Signs : Troubled(a, sign))
    BY <2>0 DEF Leave, Reap, Exits, Report, Troubled
  <2> QED
    BY <2>2, <2>3, <2>4, <2>5, <2>6, <2>7, <2>8, <2>9, Words DEF Next, Monitor, Sweep, Desk
<1> QED
  BY <1>1, RowsAlways, PTL DEF Spec, ReportKept

-----------------------------------------------------------------------------
(* The inductive invariant.                                                *)

\* The row of an agent that is being launched: live, with a task, without a session.
Stub == [Gone EXCEPT !.status = "idle", !.has = TRUE]

\* No two launches have passed the guard of create_agent_for_task together.
Untied == "tie" \notin trouble

\* The row is committed, the session is not yet made.
Launches(m) == job[m].at = "launch"

\* A live row has a task and a row that is over has none.
Marked == \A a \in Agents : agent[a].has <=> a \in Live

\* The request handler only ends agents, and the sweep only launches them.
DeskEnds == /\ job["desk"].at \in {"idle", "end", "kill", "row"}
            /\ job["desk"].why \in {None, "leave"}
SweepLaunches == /\ job["sweep"].at \in {"idle", "place", "launch", "check", "made"}
                 /\ job["sweep"].of = Nobody

Alone == \A a, b \in Live : a = b

\* The monitor's snapshot is empty, or holds nothing but a.
OnlySeen(a) == \A b \in Agents : b # a => seen[b] = None

\* The monitor is ending a zombie, or reaping a session: it will launch nobody.
EndsStub(n) == n = "monitor" /\ \/ job[n].at \in {"end", "kill", "row"} /\ job[n].why = "zombie"
                                \/ job[n].at = "reap"

\* What the rest of the system knows of an agent that m is launching.
Fresh(m) ==
  LET a == job[m].new IN
  /\ a \in Agents
  /\ agent[a] \in {Stub, Gone} /\ Live \subseteq {a}
  /\ \A n \in Actors : Launches(n) => n = m
  /\ \A n \in Actors : n # m /\ job[n].new = a => job[n].at = "made"
  /\ \A n \in Actors : job[n].of = a => EndsStub(n) /\ seen[a] = None /\ OnlySeen(a)
  /\ seen[a] # "working" /\ (seen[a] = "idle" => OnlySeen(a))
  /\ agent[a] = Gone => m = "sweep" /\ job["monitor"] = Idle /\ seen[a] = None /\ OnlySeen(a)

Placed == Untied => Alone /\ \A m \in Actors : Launches(m) => Fresh(m)

Inv == Rows /\ Marked /\ DeskEnds /\ SweepLaunches /\ Placed

\* Two rows with the same columns are the same.
LEMMA SameRow ==
  ASSUME NEW r \in AgentRow, NEW q \in AgentRow,
         r.status = q.status, r.has = q.has, r.restarts = q.restarts, r.session = q.session,
         r.prompt = q.prompt, r.shows = q.shows, r.nudges = q.nudges, r.leaving = q.leaving
  PROVE  r = q
BY DEF AgentRow

LEMMA StubRow == Stub \in AgentRow
BY GoneRow, AgentColumn DEF Stub

\* The columns of the two rows, of no job, and that nobody's row is none.
LEMMA StubFacts ==
  /\ Stub.status = "idle" /\ Stub.has = TRUE /\ Stub.session = None /\ Stub.prompt = FALSE
  /\ Stub.shows = "work" /\ Stub.leaving = FALSE
  /\ Gone.status = "terminated" /\ Gone.has = FALSE /\ Gone.session = None /\ Gone.prompt = FALSE
  /\ Gone.shows = "work" /\ Gone.leaving = FALSE
  /\ Stub # Gone
  /\ [Stub EXCEPT !.session = None, !.prompt = FALSE] = Stub
  /\ Idle.at = "idle" /\ Idle.of = Nobody /\ Idle.new = Nobody /\ Idle.why = None
  /\ Nobody \notin Agents
<1>1. [Stub EXCEPT !.session = None, !.prompt = FALSE] = Stub
  <2> DEFINE r == [Stub EXCEPT !.session = None, !.prompt = FALSE]
  <2>1. r \in AgentRow
    BY StubRow DEF AgentRow, Sessions
  <2>2. /\ r.status = Stub.status /\ r.has = Stub.has /\ r.restarts = Stub.restarts
        /\ r.session = Stub.session /\ r.prompt = Stub.prompt /\ r.shows = Stub.shows
        /\ r.nudges = Stub.nudges /\ r.leaving = Stub.leaving
    BY DEF Stub, Gone
  <2> HIDE DEF r
  <2>3. r = Stub
    BY <2>1, <2>2, StubRow, SameRow, Zenon
  <2> QED
    BY <2>3 DEF r
<1> QED
  BY <1>1, Constants DEF Stub, Gone, Idle, Nobody

LEMMA GoneStays == [Gone EXCEPT !.session = None, !.prompt = FALSE] = Gone
<1> DEFINE r == [Gone EXCEPT !.session = None, !.prompt = FALSE]
<1>1. r \in AgentRow
  BY GoneRow DEF AgentRow, Sessions
<1>2. /\ r.status = Gone.status /\ r.has = Gone.has /\ r.restarts = Gone.restarts
      /\ r.session = Gone.session /\ r.prompt = Gone.prompt /\ r.shows = Gone.shows
      /\ r.nudges = Gone.nudges /\ r.leaving = Gone.leaving
  BY DEF Gone
<1> HIDE DEF r
<1>3. r = Gone
  BY <1>1, <1>2, GoneRow, SameRow, Zenon
<1> QED
  BY <1>3 DEF r

LEMMA ToFields ==
  ASSUME Rows, NEW n \in Actors, NEW at, To(n, at)
  PROVE  /\ job'[n].at = at /\ job'[n].why = job[n].why /\ job'[n].of = job[n].of
         /\ job'[n].new = job[n].new /\ job'[n].holds = job[n].holds
         /\ \A k \in Actors : k # n => job'[k] = job[k]
<1>1. job[n] \in JobRow
  BY Fetched
<1>2. job'[n] = [job[n] EXCEPT !.at = at] /\ \A k \in Actors : k # n => job'[k] = job[k]
  BY DEF To, Rows
<1> QED
  BY <1>1, <1>2 DEF JobRow

LEMMA StopFields ==
  ASSUME Rows, NEW n \in Actors, Stop(n)
  PROVE  job'[n] = Idle /\ \A k \in Actors : k # n => job'[k] = job[k]
BY DEF Stop, Rows

\* Agents only end, no launch begins, and the launches there are stay as they should.
LEMMA Kept ==
  ASSUME Inv, Rows', trouble \subseteq trouble',
         Marked', DeskEnds', SweepLaunches', Live' \subseteq Live,
         \A m \in Actors : Launches(m)' => Launches(m),
         ASSUME NEW m \in Actors, Untied, Launches(m), Launches(m)', Fresh(m) PROVE Fresh(m)'
  PROVE  Inv'
BY DEF Inv, Placed, Alone, Untied

LEMMA OnlyEnds ==
  ASSUME Inv, Rows',
         \A a \in Agents :
            \/ agent'[a].status = agent[a].status /\ agent'[a].has = agent[a].has
            \/ agent'[a].status = "terminated" /\ agent'[a].has = FALSE
  PROVE  Live' \subseteq Live /\ Marked'
BY DEF Inv, Marked, Live

\* What an actor other than the one that launches may do about the launched agent.
Minds(k, a) ==
  /\ job'[k].at # "launch"
  /\ job'[k].new = a => job'[k].at = "made"
  /\ job'[k].of = a => EndsStub(k)' /\ seen'[a] = None /\ OnlySeen(a)'

LEMMA FreshKept ==
  ASSUME Inv, Rows', NEW m \in Actors, Launches(m), Fresh(m),
         Live' \subseteq Live, agent'[job[m].new] = agent[job[m].new], job'[m] = job[m],
         \A b \in Agents : seen'[b] \in {None, seen[b]},
         \A k \in Actors : \/ job'[k] = job[k]
                           \/ /\ k # m /\ Minds(k, job[m].new)
                              /\ agent[job[m].new] = Gone => k # "monitor"
  PROVE  Fresh(m)'
<1> DEFINE a == job[m].new
<1>1. a \in Agents /\ job'[m].new = a /\ agent'[a] \in {Stub, Gone} /\ Live' \subseteq {a}
  BY DEF Fresh
<1>2. \A n \in Actors : Launches(n)' => n = m
  BY DEF Fresh, Minds, Launches
<1>3. \A n \in Actors : n # m /\ job'[n].new = a => job'[n].at = "made"
  BY DEF Fresh, Minds
<1>4. OnlySeen(a) => OnlySeen(a)'
  BY DEF OnlySeen
<1>5. \A n \in Actors : job'[n].of = a => EndsStub(n)' /\ seen'[a] = None /\ OnlySeen(a)'
  BY <1>1, <1>4 DEF Fresh, Minds, EndsStub
<1>6. seen'[a] # "working" /\ (seen'[a] = "idle" => OnlySeen(a)')
  BY <1>1, <1>4 DEF Fresh, None
<1>7. agent'[a] = Gone => m = "sweep" /\ job'["monitor"] = Idle /\ seen'[a] = None /\ OnlySeen(a)'
  BY <1>1, <1>4, Words DEF Fresh
<1> QED
  BY <1>1, <1>2, <1>3, <1>5, <1>6, <1>7 DEF Fresh, OnlySeen

-----------------------------------------------------------------------------
(* The end of an agent.                                                    *)

\* The monitor and the request handler end agents, the handler as its last step.
LEMMA WhoEnds ==
  ASSUME Inv, NEW n \in Actors, job[n].at \in {"end", "kill", "row"}
  PROVE  /\ n \in {"monitor", "desk"} /\ (Goes(n) /\ n = "desk" => Stop(n))
         /\ Goes(n) /\ job[n].why = "zombie" => Stop(n)
BY Words DEF Inv, SweepLaunches, DeskEnds, Goes, None

\* Of the other actors, whose job is the same.
LEMMA Frame ==
  ASSUME Inv, Rows', NEW n \in {"monitor", "desk"}, \A k \in Actors : k # n => job'[k] = job[k],
         job'[n].at # "launch",
         n = "desk" => job'[n].at \in {"idle", "end", "kill", "row"} /\ job'[n].why \in {None, "leave"}
  PROVE  /\ DeskEnds' /\ SweepLaunches'
         /\ \A m \in Actors : Launches(m)' => Launches(m)
BY Words DEF Inv, DeskEnds, SweepLaunches, Launches

LEMMA InvEndStart == ASSUME Inv, Rows', NEW n \in Actors, EndStart(n) PROVE Inv'
<1> DEFINE x == job[n].of
           j == [job[n] EXCEPT !.at = "kill", !.name = agent[x].session]
<1> USE DEF Inv
<1>0. n \in {"monitor", "desk"}
  BY WhoEnds DEF EndStart
<1>1. \/ x \in Live /\ job' = [job EXCEPT ![n] = j]
      \/ x \notin Live /\ Stop(n)
      \/ x \notin Live /\ To(n, "then") /\ n = "monitor" /\ job[n].why # "zombie"
  BY WhoEnds DEF EndStart, Goes, Rows
<1>2. \A k \in Actors : k # n => job'[k] = job[k]
  BY <1>1 DEF Rows, To, Stop
<1>3. \/ x \in Live /\ job'[n].at = "kill" /\ job'[n].why = job[n].why /\ job'[n].of = x
                   /\ job'[n].new = job[n].new
      \/ x \notin Live /\ job'[n] = Idle
      \/ x \notin Live /\ job'[n].at = "then" /\ job'[n].of = x /\ n = "monitor"
           /\ job[n].why # "zombie" /\ job'[n].new = job[n].new
  <2>1. job[n] \in JobRow
    BY Fetched
  <2>2. job' = [job EXCEPT ![n] = j] => job'[n].at = "kill" /\ job'[n].why = job[n].why
                                         /\ job'[n].of = x /\ job'[n].new = job[n].new
    BY <2>1 DEF JobRow, Rows
  <2> QED
    BY <1>1, <2>2, ToFields, StopFields
<1>4. /\ DeskEnds' /\ SweepLaunches'
      /\ \A m \in Actors : Launches(m)' => Launches(m)
  BY <1>0, <1>2, <1>3, Frame, StubFacts DEF DeskEnds
<1>5. Live' \subseteq Live /\ Marked'
  BY DEF EndStart, Live, Marked
<1>6. ASSUME NEW m \in Actors, Launches(m), Launches(m)', Fresh(m) PROVE Fresh(m)'
  <2> DEFINE a == job[m].new
  <2>1. n # m
    BY <1>6, <1>3, StubFacts DEF Launches
  <2>2. Minds(n, a)
    BY <1>3, <1>6, <2>1, StubFacts DEF Minds, Fresh, EndsStub, EndStart, OnlySeen
  <2>3. agent[a] = Gone => n # "monitor"
    BY <1>6, StubFacts DEF Fresh, EndStart
  <2> QED
    BY <1>2, <1>5, <1>6, <2>1, <2>2, <2>3, FreshKept DEF EndStart
<1> QED
  BY <1>4, <1>5, <1>6, Kept DEF EndStart

LEMMA InvEndKill == ASSUME Inv, Rows', NEW n \in Actors, EndKill(n) PROVE Inv'
<1> DEFINE x == job[n].of
           r == [agent[x] EXCEPT !.session = None, !.prompt = FALSE]
           j == [job[n] EXCEPT !.at = "row", !.name = None]
<1> USE DEF Inv
<1>0. n \in {"monitor", "desk"}
  BY WhoEnds DEF EndKill
<1>1. \A k \in Actors : k # n => job'[k] = job[k]
  BY DEF EndKill, Rows
<1>2. job'[n].at = "row" /\ job'[n].why = job[n].why /\ job'[n].of = x /\ job'[n].new = job[n].new
  BY Fetched DEF EndKill, JobRow, Rows
<1>3. /\ DeskEnds' /\ SweepLaunches'
      /\ \A m \in Actors : Launches(m)' => Launches(m)
  BY <1>0, <1>1, <1>2, Frame DEF DeskEnds
<1>4. agent' = agent \/ agent' = [agent EXCEPT ![x] = r]
  BY DEF EndKill, Rows
<1>5. \A b \in Agents : agent'[b].status = agent[b].status /\ agent'[b].has = agent[b].has
  <2>1. x \in Agents => r.status = agent[x].status /\ r.has = agent[x].has
    BY Fetched DEF AgentRow
  <2> QED
    BY <1>4, <2>1 DEF Rows
<1>6. Live' \subseteq Live /\ Marked'
  BY <1>5, OnlyEnds
<1>7. ASSUME NEW m \in Actors, Launches(m), Launches(m)', Fresh(m) PROVE Fresh(m)'
  <2> DEFINE a == job[m].new
  <2>1. n # m
    BY <1>7, <1>2 DEF Launches
  <2>2. Minds(n, a)
    BY <1>2, <1>7, <2>1, StubFacts DEF Minds, Fresh, EndsStub, EndKill, OnlySeen
  <2>3. agent[a] = Gone => n # "monitor"
    BY <1>7, StubFacts DEF Fresh, EndKill
  <2>4. agent[a] \in {Stub, Gone} /\ a \in Agents
    BY <1>7 DEF Fresh
  <2>5. agent[a] = Gone => x # a
    BY <1>7, <2>1, <2>3, <1>0, StubFacts DEF Fresh, EndsStub
  <2>6. agent'[a] = agent[a]
    <3>1. x = a => r = Stub
      BY <2>4, <2>5, StubFacts
    <3> QED
      BY <1>4, <2>4, <2>5, <3>1 DEF Rows
  <2> QED
    BY <1>1, <1>6, <1>7, <2>1, <2>2, <2>3, <2>6, FreshKept DEF EndKill
<1> QED
  BY <1>3, <1>6, <1>7, Kept DEF EndKill

LEMMA EndedFields ==
  ASSUME Rows, NEW a \in Agents
  PROVE  /\ Ended(a).status = "terminated" /\ Ended(a).has = FALSE
         /\ agent[a] \in {Stub, Gone} => Ended(a) = Gone
<1>1. Ended(a).status = "terminated" /\ Ended(a).has = FALSE
  BY DEF Ended, Gone
<1>2. ASSUME agent[a] \in {Stub, Gone} PROVE Ended(a) = Gone
  <2>1. agent[a].session = None /\ agent[a].prompt = FALSE /\ agent[a].shows = "work"
    BY <1>2, StubFacts
  <2> QED
    <3>1. Ended(a) \in AgentRow /\ Gone \in AgentRow
      BY EndedRow, GoneRow
    <3>2. /\ Ended(a).session = None /\ Ended(a).prompt = FALSE /\ Ended(a).shows = "work"
          /\ Ended(a).restarts = Gone.restarts /\ Ended(a).nudges = Gone.nudges
          /\ Ended(a).leaving = Gone.leaving
      BY <2>1 DEF Ended, Gone
    <3> QED
      <4>1. /\ Ended(a).status = Gone.status /\ Ended(a).has = Gone.has
            /\ Ended(a).session = Gone.session /\ Ended(a).prompt = Gone.prompt
            /\ Ended(a).shows = Gone.shows
        BY <1>1, <3>2, StubFacts
      <4> QED
        BY <3>1, <3>2, <4>1, SameRow, Zenon
<1> QED
  BY <1>1, <1>2

\* A launched agent that is ended before its launch is over.
LEMMA FreshEnded ==
  ASSUME Inv, Rows', NEW m \in Actors, Launches(m), Fresh(m), job'[m] = job[m],
         Live' \subseteq Live, seen' = seen, job["monitor"].of = job[m].new,
         job' = [job EXCEPT !["monitor"] = Idle], agent'[job[m].new] = Gone
  PROVE  Fresh(m)'
<1> DEFINE a == job[m].new
<1> USE DEF Inv
<1>1. a \in Agents /\ Live' \subseteq {a} /\ EndsStub("monitor") /\ seen[a] = None /\ OnlySeen(a)
  BY Words DEF Fresh
<1>2. m = "sweep"
  <2>1. m # "monitor"
    BY <1>1 DEF EndsStub, Launches
  <2>2. m # "desk"
    BY DEF Launches, DeskEnds
  <2> QED
    BY <2>1, <2>2, Words
<1>3. job'["monitor"] = Idle /\ \A k \in Actors : k # "monitor" => job'[k] = job[k]
  BY Words DEF Rows
<1>4. \A n \in Actors : job'[n].of # a
  BY <1>1, <1>3, StubFacts DEF Fresh, EndsStub
<1>5. \A n \in Actors : Launches(n)' => n = m
  BY <1>3, StubFacts DEF Fresh, Launches
<1>6. \A n \in Actors : n # m /\ job'[n].new = a => job'[n].at = "made"
  BY <1>1, <1>3, StubFacts DEF Fresh
<1> QED
  BY <1>1, <1>2, <1>3, <1>4, <1>5, <1>6, StubFacts DEF Fresh, OnlySeen, None

LEMMA InvEndRow == ASSUME Inv, Rows', NEW n \in Actors, EndRow(n) PROVE Inv'
<1> DEFINE x == job[n].of
<1> USE DEF Inv
<1>0. n \in {"monitor", "desk"}
  BY WhoEnds DEF EndRow
<1>1. Stop(n) \/ (To(n, "then") /\ n = "monitor" /\ job[n].why # "zombie")
  BY WhoEnds DEF EndRow, Goes
<1>2. \/ job'[n] = Idle /\ Stop(n)
      \/ job'[n].at = "then" /\ job'[n].of = x /\ n = "monitor"
           /\ job[n].why # "zombie" /\ job'[n].new = job[n].new
  BY <1>1, ToFields, StopFields
<1>3. \A k \in Actors : k # n => job'[k] = job[k]
  BY <1>1, ToFields, StopFields
<1>4. /\ DeskEnds' /\ SweepLaunches'
      /\ \A m \in Actors : Launches(m)' => Launches(m)
  BY <1>0, <1>2, <1>3, Frame, StubFacts DEF DeskEnds
<1>5. \A b \in Agents : b # x => agent'[b] = agent[b]
  BY DEF EndRow, Rows
<1>6. x \in Agents => agent'[x] = Ended(x)
  BY DEF EndRow, Rows
<1>7. Live' \subseteq Live /\ Marked'
  BY <1>5, <1>6, EndedFields, OnlyEnds
<1>8. ASSUME NEW m \in Actors, Launches(m), Launches(m)', Fresh(m) PROVE Fresh(m)'
  <2> DEFINE a == job[m].new
  <2>1. n # m
    BY <1>8, <1>2, StubFacts DEF Launches
  <2>2. a \in Agents /\ agent[a] \in {Stub, Gone}
    BY <1>8 DEF Fresh
  <2>3. CASE x = a
    <3>1. n = "monitor" /\ job[n].why = "zombie"
      BY <1>8, <2>3 DEF Fresh, EndsStub, EndRow
    <3>2. job' = [job EXCEPT !["monitor"] = Idle]
      BY <1>2, <3>1 DEF Stop
    <3>3. agent'[a] = Gone
      BY <1>6, <2>2, <2>3, EndedFields
    <3> QED
      BY <1>3, <1>7, <1>8, <2>1, <2>3, <3>1, <3>2, <3>3, FreshEnded DEF EndRow
  <2>4. CASE x # a
    <3>1. Minds(n, a)
      BY <1>2, <1>8, <2>1, <2>2, <2>4, StubFacts DEF Minds, Fresh, EndRow
    <3>2. agent[a] = Gone => n # "monitor"
      BY <1>8, StubFacts DEF Fresh, EndRow
    <3> QED
      BY <1>3, <1>5, <1>7, <1>8, <2>1, <2>2, <2>4, <3>1, <3>2, FreshKept DEF EndRow
  <2> QED
    BY <2>3, <2>4
<1> QED
  BY <1>4, <1>7, <1>8, Kept DEF EndRow

\* What the monitor does to an agent that is not being launched.
LEMMA MonitorStep ==
  ASSUME Inv, Rows', trouble \subseteq trouble', seen' = seen,
         \A k \in Actors : k # "monitor" => job'[k] = job[k],
         job["monitor"].at \notin {"idle", "launch", "made"}, ~ EndsStub("monitor"),
         job'["monitor"].at # "launch",
         job'["monitor"].of \in {job["monitor"].of, Nobody},
         job'["monitor"].new \in {job["monitor"].new, Nobody},
         \A b \in Agents : b # job["monitor"].of => agent'[b] = agent[b],
         \A b \in Agents :
            \/ agent'[b].status = agent[b].status /\ agent'[b].has = agent[b].has
            \/ agent'[b].status = "terminated" /\ agent'[b].has = FALSE
  PROVE  Inv'
<1> USE DEF Inv
<1>1. Live' \subseteq Live /\ Marked'
  BY OnlyEnds
<1>2. /\ DeskEnds' /\ SweepLaunches'
      /\ \A m \in Actors : Launches(m)' => Launches(m)
  BY Frame, Words
<1>3. ASSUME NEW m \in Actors, Launches(m), Launches(m)', Fresh(m) PROVE Fresh(m)'
  <2> DEFINE a == job[m].new
  <2>1. m # "monitor" /\ a \in Agents
    BY <1>3 DEF Launches, Fresh
  <2>2. job["monitor"].of # a /\ job["monitor"].new # a
    BY <1>3, <2>1, Words DEF Fresh
  <2>3. Minds("monitor", a)
    BY <2>1, <2>2, StubFacts DEF Minds
  <2>4. agent[a] # Gone
    BY <1>3, StubFacts DEF Fresh
  <2> QED
    BY <1>1, <1>3, <2>1, <2>2, <2>3, <2>4, FreshKept
<1> QED
  BY <1>1, <1>2, <1>3, Kept

LEMMA InvThen == ASSUME Inv, Rows', Then PROVE Inv'
<1> USE DEF Inv
<1>1. \/ job'["monitor"] = Idle
      \/ job'["monitor"] = [Idle EXCEPT !.at = "place", !.why = job["monitor"].why]
  BY Words DEF Then, Stop, Rows
<1>2. job'["monitor"].at # "launch" /\ job'["monitor"].of = Nobody /\ job'["monitor"].new = Nobody
  <2>1. LET j == [Idle EXCEPT !.at = "place", !.why = job["monitor"].why]
        IN  j.at = "place" /\ j.of = Nobody /\ j.new = Nobody
    BY DEF Idle
  <2> QED
    BY <1>1, <2>1, StubFacts
<1>3. \A k \in Actors : k # "monitor" => job'[k] = job[k]
  BY DEF Then, Stop, Rows
<1>4. ~ EndsStub("monitor")
  BY DEF Then, EndsStub
<1> QED
  BY <1>2, <1>3, <1>4, MonitorStep DEF Then

LEMMA InvRequeueKill == ASSUME Inv, Rows', RequeueKill PROVE Inv'
<1> DEFINE x == job["monitor"].of
           r == [agent[x] EXCEPT !.session = None, !.prompt = FALSE]
<1> USE DEF Inv
<1>1. To("monitor", "requeued")
  BY DEF RequeueKill
<1>2. agent' = [agent EXCEPT ![x] = r]
  BY DEF RequeueKill, Rows
<1>3. x \in Agents => r.status = agent[x].status /\ r.has = agent[x].has
  BY Fetched DEF AgentRow
<1>4. ~ EndsStub("monitor")
  BY DEF RequeueKill, EndsStub
<1>5. \A b \in Agents : agent'[b].status = agent[b].status /\ agent'[b].has = agent[b].has
  BY <1>2, <1>3 DEF Rows
<1>6. \A b \in Agents : b # x => agent'[b] = agent[b]
  BY <1>2 DEF Rows
<1>7. /\ job'["monitor"].at = "requeued" /\ job'["monitor"].of = x
      /\ job'["monitor"].new = job["monitor"].new
      /\ \A k \in Actors : k # "monitor" => job'[k] = job[k]
  BY <1>1, ToFields, Words
<1> QED
  BY <1>4, <1>5, <1>6, <1>7, MonitorStep DEF RequeueKill

LEMMA InvRequeueRow == ASSUME Inv, Rows', RequeueRow PROVE Inv'
<1> DEFINE x == job["monitor"].of
<1> USE DEF Inv
<1>1. Stop("monitor")
  BY DEF RequeueRow
<1>2. \A b \in Agents : agent'[b] = IF b = x THEN Ended(x) ELSE agent[b]
  BY DEF RequeueRow, Rows
<1>3. ~ EndsStub("monitor")
  BY DEF RequeueRow, EndsStub
<1>4. \A b \in Agents :
        \/ agent'[b].status = agent[b].status /\ agent'[b].has = agent[b].has
        \/ agent'[b].status = "terminated" /\ agent'[b].has = FALSE
  BY <1>2, EndedFields
<1>5. job'["monitor"] = Idle /\ \A k \in Actors : k # "monitor" => job'[k] = job[k]
  BY <1>1, StopFields, Words
<1>6. \A b \in Agents : b # x => agent'[b] = agent[b]
  BY <1>2
<1>7. /\ job'["monitor"].at = "idle" /\ job'["monitor"].of = Nobody /\ job'["monitor"].new = Nobody
      /\ job["monitor"].at = "requeued" /\ seen' = seen /\ trouble' = trouble
  BY <1>5, StubFacts DEF RequeueRow
<1> QED
  BY <1>3, <1>4, <1>5, <1>6, <1>7, MonitorStep

LEMMA InvOver == ASSUME Inv, Rows', Over PROVE Inv'
<1>1. Stop("monitor") /\ ~ EndsStub("monitor")
  BY DEF Over, EndsStub
<1> QED
  BY <1>1, StopFields, StubFacts, Words, MonitorStep DEF Over, Inv

LEMMA InvRelaunch == ASSUME Inv, Rows', Relaunch PROVE Inv'
<1> DEFINE x == job["monitor"].of
           shows == IF agent[x].shows = "exits" THEN agent[x].shows ELSE "work"
           r == [agent[x] EXCEPT !.session = "again", !.nudges = 0, !.shows = shows]
<1>0. Rows
  BY DEF Inv
<1>1. /\ To("monitor", "recheck") \/ Stop("monitor")
      /\ trouble \subseteq trouble' /\ ~ EndsStub("monitor")
  BY DEF Relaunch, MayGoWrong, EndsStub
<1>2. agent' = [agent EXCEPT ![x] = r] \/ agent' = agent
  <2>1. agent \in [Agents -> AgentRow]
    BY <1>0 DEF Rows
  <2>2. CASE agent' = [agent EXCEPT ![x].session = "again", ![x].nudges = 0, ![x].shows = shows]
    BY <2>1, <2>2
  <2>3. CASE agent' = agent
    BY <2>3
  <2> QED
    BY <2>2, <2>3 DEF Relaunch
<1>3. x \in Agents => r.status = agent[x].status /\ r.has = agent[x].has
  BY <1>0, Fetched DEF AgentRow
<1>4. \A b \in Agents : agent'[b].status = agent[b].status /\ agent'[b].has = agent[b].has
  BY <1>0, <1>2, <1>3 DEF Rows
<1>5. \A b \in Agents : b # x => agent'[b] = agent[b]
  BY <1>0, <1>2 DEF Rows
<1>6. /\ \A k \in Actors : k # "monitor" => job'[k] = job[k]
      /\ job'["monitor"].at # "launch" /\ job'["monitor"].of \in {x, Nobody}
      /\ job'["monitor"].new \in {job["monitor"].new, Nobody}
  BY <1>0, <1>1, ToFields, StopFields, StubFacts, Words
<1> QED
  BY <1>1, <1>4, <1>5, <1>6, MonitorStep DEF Relaunch

LEMMA InvRecheck == ASSUME Inv, Rows', Recheck PROVE Inv'
<1> DEFINE x == job["monitor"].of
           r == [agent[x] EXCEPT !.session = None]
           s == [agent[x] EXCEPT !.prompt = (agent[x].session # None)]
<1> USE DEF Inv
<1>1. Stop("monitor") /\ ~ EndsStub("monitor")
  BY DEF Recheck, EndsStub
<1>2. agent' = [agent EXCEPT ![x] = r] \/ agent' = [agent EXCEPT ![x] = s]
  BY DEF Recheck, Rows
<1>3. x \in Agents => /\ r.status = agent[x].status /\ r.has = agent[x].has
                      /\ s.status = agent[x].status /\ s.has = agent[x].has
  BY Fetched DEF AgentRow
<1>4. \A b \in Agents : agent'[b].status = agent[b].status /\ agent'[b].has = agent[b].has
  BY <1>2, <1>3 DEF Rows
<1>5. \A b \in Agents : b # x => agent'[b] = agent[b]
  BY <1>2 DEF Rows
<1> QED
  BY <1>1, <1>4, <1>5, StopFields, StubFacts, Words, MonitorStep DEF Recheck

LEMMA InvReap == ASSUME Inv, Rows', NEW x \in Agents, Reap(x) PROVE Inv'
<1> USE DEF Inv
<1> DEFINE j == [Idle EXCEPT !.at = "reap", !.of = x, !.holds = (Strayed(x) # task)]
<1>1. job' = [job EXCEPT !["monitor"] = j] /\ job["monitor"] = Idle
  BY DEF Reap, Cycle, Free
<1>2. job'["monitor"] = j /\ \A k \in Actors : k # "monitor" => job'[k] = job[k]
  BY <1>1, Words DEF Rows
<1>3. j.at = "reap" /\ j.of = x /\ j.new = Nobody
  BY DEF Idle
<1>4. Live' \subseteq Live /\ Marked'
  BY DEF Reap, Live, Marked
<1>5. /\ DeskEnds' /\ SweepLaunches'
      /\ \A m \in Actors : Launches(m)' => Launches(m)
  BY <1>2, <1>3, Frame, Words
<1>6. ASSUME NEW m \in Actors, Launches(m), Launches(m)', Fresh(m) PROVE Fresh(m)'
  <2> DEFINE a == job[m].new
  <2>1. m # "monitor" /\ a \in Agents /\ x = a
    BY <1>1, <1>6, StubFacts DEF Launches, Fresh, Reap
  <2>2. agent[a] # Gone
    BY <1>6, <2>1, StubFacts DEF Reap, Live
  <2>3. Minds("monitor", a)
    <3>1. \A b \in Agents : seen'[b] = None
      BY DEF Reap, Cycle
    <3>2. job'["monitor"].at = "reap" /\ job'["monitor"].new = Nobody
      BY <1>2, <1>3
    <3> QED
      BY <2>1, <3>1, <3>2, StubFacts DEF Minds, EndsStub, OnlySeen
  <2> QED
    BY <1>2, <1>4, <1>6, <2>1, <2>2, <2>3, FreshKept DEF Reap
<1> QED
  BY <1>4, <1>5, <1>6, Kept DEF Reap

LEMMA InvReaped == ASSUME Inv, Rows', Reaped PROVE Inv'
<1> DEFINE x == job["monitor"].of
           r == [Ended(x) EXCEPT !.session = None, !.prompt = FALSE]
<1> USE DEF Inv
<1>1. Stop("monitor") /\ \A b \in Agents : agent'[b] = IF b = x THEN r ELSE agent[b]
  BY DEF Reaped, Rows
<1>2. job'["monitor"] = Idle /\ \A k \in Actors : k # "monitor" => job'[k] = job[k]
  BY <1>1, StopFields, Words
<1>3. ASSUME x \in Agents PROVE r.status = "terminated" /\ r.has = FALSE
  <2>1. Ended(x) \in AgentRow /\ Ended(x).status = "terminated" /\ Ended(x).has = FALSE
    BY <1>3, EndedRow, EndedFields
  <2> HIDE DEF Inv
  <2> QED
    BY <2>1 DEF AgentRow
<1>4. Live' \subseteq Live /\ Marked'
  BY <1>1, <1>3, OnlyEnds
<1>5. /\ DeskEnds' /\ SweepLaunches'
      /\ \A m \in Actors : Launches(m)' => Launches(m)
  BY <1>2, StubFacts, Frame, Words
<1>6. ASSUME NEW m \in Actors, Launches(m), Launches(m)', Fresh(m) PROVE Fresh(m)'
  <2> DEFINE a == job[m].new
  <2>1. m # "monitor" /\ a \in Agents /\ agent[a] \in {Stub, Gone}
    BY <1>6 DEF Launches, Fresh, Reaped
  <2>2. CASE x = a
    <3>1. Ended(x) = Gone
      BY <2>1, <2>2, EndedFields
    <3>2. r = Gone
      BY <3>1, GoneStays
    <3> QED
      BY <1>1, <1>2, <1>4, <1>6, <2>1, <2>2, <3>2, FreshEnded DEF Reaped, Stop
  <2>3. CASE x # a
    <3>1. Minds("monitor", a) /\ agent'[a] = agent[a]
      BY <1>1, <1>2, <2>1, <2>3, StubFacts DEF Minds
    <3>2. agent[a] # Gone
      BY <1>6, StubFacts DEF Fresh, Reaped
    <3> QED
      BY <1>2, <1>4, <1>6, <2>1, <3>1, <3>2, FreshKept DEF Reaped
  <2> QED
    BY <2>2, <2>3
<1> QED
  BY <1>4, <1>5, <1>6, Kept DEF Reaped

-----------------------------------------------------------------------------
(* The launch of an agent.                                                 *)

\* An agent is launched by the monitor or by the sweep.
LEMMA WhoLaunches ==
  ASSUME Inv, NEW n \in Actors, job[n].at \in {"place", "launch", "check", "made"}
  PROVE  n \in {"monitor", "sweep"}
BY Words DEF Inv, DeskEnds

LEMMA LaunchFrame ==
  ASSUME Inv, Rows', NEW n \in {"monitor", "sweep"}, \A k \in Actors : k # n => job'[k] = job[k],
         job'[n].at \in {"idle", "check", "made"}, job'[n].of \in {job[n].of, Nobody}
  PROVE  /\ DeskEnds' /\ SweepLaunches'
         /\ \A m \in Actors : Launches(m)' => Launches(m) /\ m # n
BY Words DEF Inv, DeskEnds, SweepLaunches, Launches

LEMMA InvMade == ASSUME Inv, Rows', NEW n \in Actors, Made(n) PROVE Inv'
<1> USE DEF Inv
<1>1. job'[n] = Idle /\ \A k \in Actors : k # n => job'[k] = job[k]
  BY StopFields DEF Made
<1>2. n \in {"monitor", "sweep"}
  BY WhoLaunches DEF Made
<1>3. /\ DeskEnds' /\ SweepLaunches'
      /\ \A m \in Actors : Launches(m)' => Launches(m) /\ m # n
  BY <1>1, <1>2, StubFacts, LaunchFrame
<1>4. Live' \subseteq Live /\ Marked'
  BY DEF Made, Live, Marked
<1>5. ASSUME NEW m \in Actors, Launches(m), Launches(m)', Fresh(m) PROVE Fresh(m)'
  <2>1. m # n /\ job[m].new \in Agents
    BY <1>3, <1>5 DEF Fresh
  <2>2. Minds(n, job[m].new)
    BY <1>1, <2>1, StubFacts DEF Minds
  <2>3. agent[job[m].new] = Gone => n # "monitor"
    BY <1>5, StubFacts DEF Fresh, Made
  <2> QED
    BY <1>1, <1>4, <1>5, <2>1, <2>2, <2>3, FreshKept DEF Made
<1> QED
  BY <1>3, <1>4, <1>5, Kept DEF Made

LEMMA InvPrompt == ASSUME Inv, Rows', NEW n \in Actors, Prompt(n) PROVE Inv'
<1> DEFINE x == job[n].new
           r == [agent[x] EXCEPT !.session = None]
           q == [agent[x] EXCEPT !.prompt = TRUE]
           j == [job[n] EXCEPT !.at = "made", !.holds = FALSE]
<1>0. Rows /\ Placed
  BY DEF Inv
<1>1. n \in {"monitor", "sweep"}
  BY WhoLaunches DEF Prompt
<1>2. /\ job'[n].at = "made" /\ job'[n].of = job[n].of /\ job'[n].new = x
      /\ \A k \in Actors : k # n => job'[k] = job[k]
  <2>1. job' = [job EXCEPT ![n] = j] \/ To(n, "made")
    BY <1>0 DEF Prompt, Rows
  <2>2. job[n] \in JobRow
    BY <1>0, Fetched
  <2>3. j.at = "made" /\ j.of = job[n].of /\ j.new = x
    BY <2>2 DEF JobRow
  <2>4. job' = [job EXCEPT ![n] = j] => job'[n] = j /\ \A k \in Actors : k # n => job'[k] = job[k]
    BY <1>0 DEF Rows
  <2> QED
    BY <1>0, <2>1, <2>3, <2>4, ToFields
<1>3. /\ DeskEnds' /\ SweepLaunches'
      /\ \A m \in Actors : Launches(m)' => Launches(m) /\ m # n
  BY <1>1, <1>2, LaunchFrame
<1>4. agent' = [agent EXCEPT ![x] = r] \/ agent' = [agent EXCEPT ![x] = q]
  BY <1>0 DEF Prompt, Rows
<1>5. x \in Agents => /\ r.status = agent[x].status /\ r.has = agent[x].has
                      /\ q.status = agent[x].status /\ q.has = agent[x].has
  BY <1>0, Fetched DEF AgentRow
<1>6. \A b \in Agents : agent'[b].status = agent[b].status /\ agent'[b].has = agent[b].has
  BY <1>0, <1>4, <1>5 DEF Rows
<1>7. Live' \subseteq Live /\ Marked'
  BY <1>6, OnlyEnds
<1>8. ASSUME NEW m \in Actors, Launches(m), Launches(m)', Fresh(m) PROVE Fresh(m)'
  <2>1. m # n /\ job[m].new \in Agents
    BY <1>3, <1>8 DEF Fresh
  <2>2. x # job[m].new /\ job[n].of # job[m].new
    BY <1>8, <2>1, <1>1 DEF Fresh, Prompt, EndsStub
  <2>3. Minds(n, job[m].new)
    BY <1>2, <2>2 DEF Minds
  <2>4. agent[job[m].new] = Gone => n # "monitor"
    BY <1>8, StubFacts DEF Fresh, Prompt
  <2>5. agent'[job[m].new] = agent[job[m].new]
    BY <1>0, <1>4, <2>1, <2>2 DEF Rows
  <2> QED
    BY <1>2, <1>7, <1>8, <2>1, <2>3, <2>4, <2>5, FreshKept DEF Prompt
<1> QED
  BY <1>3, <1>7, <1>8, Kept DEF Prompt

\* No other launch is under way when one comes to its end.
LEMMA LastLaunch ==
  ASSUME Inv, Rows', trouble \subseteq trouble', NEW n \in Actors, Launches(n),
         Marked', DeskEnds', SweepLaunches',
         \A m \in Actors : Launches(m)' => Launches(m) /\ m # n,
         Live' \subseteq Live \union {job[n].new}
  PROVE  Inv'
BY DEF Inv, Placed, Alone, Untied, Fresh

LEMMA InvLaunch == ASSUME Inv, Rows', NEW n \in Actors, Launch(n) PROVE Inv'
<1> DEFINE x == job[n].new
           r == [agent[x] EXCEPT !.status = "working", !.has = TRUE, !.session = "first"]
           j == [job[n] EXCEPT !.at = "check", !.holds = TRUE]
<1>0. Rows /\ Marked
  BY DEF Inv
<1>1. n \in {"monitor", "sweep"}
  BY WhoLaunches DEF Launch
<1>2. /\ job'[n].at = "check" /\ job'[n].of = job[n].of
      /\ \A k \in Actors : k # n => job'[k] = job[k]
  <2>1. job' = [job EXCEPT ![n] = j]
    BY <1>0 DEF Launch, Rows
  <2>2. j.at = "check" /\ j.of = job[n].of
    BY <1>0, Fetched DEF JobRow
  <2> QED
    BY <1>0, <2>1, <2>2 DEF Rows
<1>3. /\ DeskEnds' /\ SweepLaunches'
      /\ \A m \in Actors : Launches(m)' => Launches(m) /\ m # n
  BY <1>1, <1>2, LaunchFrame
<1>4. \A b \in Agents : agent'[b] = IF b = x THEN r ELSE agent[b]
  BY <1>0 DEF Launch, Rows
<1>5. x \in Agents => r.status = "working" /\ r.has = TRUE
  BY <1>0, Fetched DEF AgentRow
<1>6. Live' \subseteq Live \union {x}
  BY <1>4 DEF Live
<1>7. Marked'
  BY <1>0, <1>4, <1>5 DEF Marked, Live
<1> QED
  BY <1>3, <1>6, <1>7, LastLaunch DEF Launch, Launches

LEMMA InvLaunchFails == ASSUME Inv, Rows', NEW n \in Actors, LaunchFails(n) PROVE Inv'
<1> DEFINE x == job[n].new
<1>0. Rows
  BY DEF Inv
<1>1. n \in {"monitor", "sweep"}
  BY WhoLaunches DEF LaunchFails
<1>2. job'[n] = Idle /\ \A k \in Actors : k # n => job'[k] = job[k]
  BY <1>0, StopFields DEF LaunchFails
<1>3. /\ DeskEnds' /\ SweepLaunches'
      /\ \A m \in Actors : Launches(m)' => Launches(m) /\ m # n
  BY <1>1, <1>2, StubFacts, LaunchFrame
<1>4. \A b \in Agents : agent'[b] = IF b = x THEN Ended(x) ELSE agent[b]
  BY <1>0 DEF LaunchFails, Rows
<1>5. Live' \subseteq Live /\ Marked'
  BY <1>0, <1>4, EndedFields, OnlyEnds
<1> QED
  BY <1>3, <1>5, LastLaunch DEF LaunchFails, Launches, MayGoWrong

LEMMA InvPlace == ASSUME Inv, Rows', NEW n \in Actors, Place(n) PROVE Inv'
<1>0. Rows /\ Marked /\ Placed /\ DeskEnds /\ SweepLaunches
  BY DEF Inv
<1>1. n \in {"monitor", "sweep"}
  BY WhoLaunches DEF Place
<1>2. trouble \subseteq trouble'
  BY DEF Place, MayGoWrong
<1>3. ASSUME NEW at, NEW x \in Agents, job' = [job EXCEPT ![n].at = at, ![n].new = x]
      PROVE  /\ job'[n].at = at /\ job'[n].new = x /\ job'[n].of = job[n].of
             /\ \A k \in Actors : k # n => job'[k] = job[k]
  <2>1. job'[n] = [job[n] EXCEPT !.at = at, !.new = x] /\ \A k \in Actors : k # n => job'[k] = job[k]
    BY <1>0, <1>3 DEF Rows
  <2> QED
    BY <1>0, <2>1, Fetched DEF JobRow
<1>4. ASSUME NEW x \in Occupied, job' = [job EXCEPT ![n].at = "made", ![n].new = x],
             UNCHANGED <<agent, trouble>>
      PROVE  Inv'
  <2>1. /\ x \in Agents /\ job'[n].at = "made" /\ job'[n].new = x /\ job'[n].of = job[n].of
        /\ \A k \in Actors : k # n => job'[k] = job[k]
    BY <1>3, <1>4 DEF Occupied, Live
  <2>2. /\ DeskEnds' /\ SweepLaunches'
        /\ \A m \in Actors : Launches(m)' => Launches(m) /\ m # n
    BY <1>1, <2>1, LaunchFrame
  <2>3. Live' \subseteq Live /\ Marked'
    BY <1>0, <1>4 DEF Live, Marked
  <2>4. ASSUME NEW m \in Actors, Launches(m), Launches(m)', Fresh(m) PROVE Fresh(m)'
    <3>1. m # n
      BY <2>2, <2>4
    <3>2. Minds(n, job[m].new)
      BY <2>1, <2>4, <3>1 DEF Minds, Fresh, EndsStub, Place
    <3>3. agent[job[m].new] = Gone => n # "monitor"
      BY <2>4, StubFacts DEF Fresh, Place
    <3>4. agent' = agent /\ seen' = seen
      BY <1>4 DEF Place
    <3>5. job'[m] = job[m]
      BY <2>1, <3>1
    <3> QED
      BY <2>1, <2>3, <2>4, <3>1, <3>2, <3>3, <3>4, <3>5, FreshKept
  <2> QED
    BY <1>2, <2>2, <2>3, <2>4, Kept
<1>5. ASSUME NEW x \in Unused, agent' = [agent EXCEPT ![x] = Stub],
             job' = [job EXCEPT ![n].at = "launch", ![n].new = x],
             Untied' => Occupied = {}
      PROVE  Inv'
  <2>1. /\ x \in Agents /\ job'[n].at = "launch" /\ job'[n].new = x /\ job'[n].of = job[n].of
        /\ \A k \in Actors : k # n => job'[k] = job[k]
    BY <1>3, <1>5 DEF Unused
  <2>2. \A b \in Agents : agent'[b] = IF b = x THEN Stub ELSE agent[b]
    BY <1>0, <1>5 DEF Rows
  <2>3. Marked' /\ Live' = Live \union {x}
    BY <1>0, <2>1, <2>2, StubFacts DEF Marked, Live
  <2>4. DeskEnds' /\ SweepLaunches'
    BY <1>0, <1>1, <2>1, Words DEF DeskEnds, SweepLaunches
  <2>5. ASSUME Untied' PROVE Alone' /\ \A m \in Actors : Launches(m)' => Fresh(m)'
    <3>1. Untied /\ Live = {}
      BY <1>0, <1>2, <1>5, <2>5 DEF Untied, Occupied, Marked, Live
    <3>2. Live' = {x}
      BY <2>3, <3>1
    <3>3. \A m \in Actors : ~ Launches(m)
      <4> SUFFICES ASSUME NEW m \in Actors, Launches(m) PROVE FALSE
        OBVIOUS
      <4>1. Fresh(m)
        BY <1>0, <3>1 DEF Placed
      <4>2. agent[job[m].new] = Gone
        BY <3>1, <4>1, StubFacts DEF Fresh, Live
      <4>3. m = "sweep" /\ n = "monitor"
        BY <1>1, <4>1, <4>2 DEF Fresh, Place, Launches
      <4> QED
        BY <4>1, <4>2, <4>3, StubFacts DEF Fresh, Place
    <3>4. \A m \in Actors : Launches(m)' => m = n
      BY <2>1, <3>3 DEF Launches
    <3>5. seen'[x] = None /\ \A k \in Actors : x \notin {job[k].of, job[k].new}
      BY <1>5 DEF Unused, Place
    <3>6. Fresh(n)'
      BY <2>1, <2>2, <3>2, <3>4, <3>5, StubFacts DEF Fresh, None
    <3> QED
      BY <3>2, <3>4, <3>6 DEF Alone
  <2> QED
    BY <2>3, <2>4, <2>5 DEF Inv, Placed
<1> QED
  BY <1>4, <1>5 DEF Place, MayGoWrong, Untied, Stub

-----------------------------------------------------------------------------
(* The monitor's snapshot and its checks.                                  *)

LEMMA InvLook == ASSUME Inv, Rows', Look PROVE Inv'
<1>0. Rows /\ Marked /\ DeskEnds /\ SweepLaunches
  BY DEF Inv
<1>1. job' = job /\ agent' = agent /\ trouble' = trouble
  BY DEF Look
<1>2. Live' = Live /\ Marked' /\ DeskEnds' /\ SweepLaunches'
  BY <1>0, <1>1 DEF Live, Marked, DeskEnds, SweepLaunches
<1>3. ASSUME NEW m \in Actors, Launches(m), Fresh(m) PROVE Fresh(m)'
  <2> DEFINE a == job[m].new
  <2>1. Live = {a} /\ a \in Agents
    BY <1>3 DEF Fresh, Look
  <2>2. agent[a] = Stub
    BY <1>3, <2>1, StubFacts DEF Fresh, Live
  <2>3. seen' = [b \in Agents |-> IF b = a THEN "idle" ELSE None]
    BY <2>1, <2>2, StubFacts DEF Look
  <2>4. seen'[a] = "idle" /\ OnlySeen(a)'
    BY <1>1, <2>1, <2>3 DEF OnlySeen
  <2>5. \A n \in Actors : job[n].of # a
    BY <1>3, <2>1, StubFacts DEF Fresh, Look, Free, EndsStub
  <2> QED
    BY <1>1, <1>2, <1>3, <2>2, <2>4, <2>5, StubFacts DEF Fresh, Launches, OnlySeen
<1> QED
  BY <1>1, <1>2, <1>3, Kept DEF Launches

\* A check of the monitor: the job it takes, and what it does to the agent.
LEMMA CheckStep ==
  ASSUME Inv, Rows', NEW x \in Agents, NEW what, Finds(x, what), trouble' = trouble,
         what # "nothing" => Check(x) \notin {"zombie", "nothing"},
         \A k \in Actors : k # "monitor" => job'[k] = job[k],
         job'["monitor"].at # "launch", job'["monitor"].new = Nobody,
         job'["monitor"].of \in {x, Nobody},
         \A b \in Agents : b # x => agent'[b] = agent[b],
         \/ agent'[x].status = agent[x].status /\ agent'[x].has = agent[x].has
         \/ agent'[x].status = "terminated" /\ agent'[x].has = FALSE,
         what = "nothing" => agent' = agent /\ job' = job
  PROVE  Inv'
<1>0. Rows
  BY DEF Inv
<1>1. /\ job["monitor"] = Idle /\ seen[x] # None
      /\ \A b \in Agents : seen'[b] = IF b = x THEN None ELSE seen[b]
  BY <1>0 DEF Finds, Free, Rows
<1>2. Live' \subseteq Live /\ Marked'
  BY OnlyEnds
<1>3. /\ DeskEnds' /\ SweepLaunches'
      /\ \A m \in Actors : Launches(m)' => Launches(m)
  BY Frame, Words
<1>4. ASSUME NEW m \in Actors, Launches(m), Launches(m)', Fresh(m) PROVE Fresh(m)'
  <2> DEFINE a == job[m].new
  <2>1. m # "monitor" /\ a \in Agents
    BY <1>1, <1>4, StubFacts DEF Launches, Fresh
  <2>2. agent[a] # Gone
    BY <1>1, <1>4 DEF Fresh, OnlySeen
  <2>3. agent[a] = Stub /\ seen[a] # "working"
    BY <1>4, <2>2 DEF Fresh
  <2>4. Check(a) \in {"zombie", "nothing"}
    BY <2>3, StubFacts DEF Check
  <2>5. CASE what = "nothing"
    BY <1>1, <1>2, <1>4, <2>1, <2>2, <2>5, FreshKept
  <2>6. CASE what # "nothing"
    <3>1. x # a
      BY <2>4, <2>6
    <3>2. Minds("monitor", a) /\ job'[m] = job[m] /\ agent'[a] = agent[a]
      BY <2>1, <3>1, StubFacts DEF Minds
    <3> QED
      BY <1>1, <1>2, <1>4, <2>1, <2>2, <3>2, FreshKept
  <2> QED
    BY <2>5, <2>6
<1> QED
  BY <1>2, <1>3, <1>4, Kept

LEMMA TakesFields ==
  ASSUME Rows, NEW at, NEW why, NEW x, Takes(at, why, x) \/ TakesOver(why, x)
  PROVE  /\ job'["monitor"].at \in {at, "end"} /\ job'["monitor"].of = x /\ job'["monitor"].new = Nobody
         /\ job'["monitor"].why = why
         /\ \A k \in Actors : k # "monitor" => job'[k] = job[k]
<1>1. /\ job'["monitor"] = [Idle EXCEPT !.at = at, !.why = why, !.of = x]
         \/ job'["monitor"] = [Idle EXCEPT !.at = "end", !.why = why, !.of = x, !.holds = TRUE]
      /\ \A k \in Actors : k # "monitor" => job'[k] = job[k]
  BY Words DEF Takes, TakesOver, Rows
<1> QED
  BY <1>1 DEF Idle

LEMMA InvPass == ASSUME Inv, Rows', NEW x \in Agents, Pass(x) PROVE Inv'
BY StubFacts, CheckStep DEF Pass, Finds, Free

LEMMA InvTakes ==
  ASSUME Inv, Rows', NEW x \in Agents, NEW what, Finds(x, what), trouble' = trouble,
         what \notin {"nothing", "zombie"}, agent' = agent,
         NEW at, NEW why, Takes(at, why, x) \/ TakesOver(why, x), at # "launch"
  PROVE  Inv'
<1>1. Rows
  BY DEF Inv
<1>2. /\ job'["monitor"].at # "launch" /\ job'["monitor"].of = x /\ job'["monitor"].new = Nobody
      /\ \A k \in Actors : k # "monitor" => job'[k] = job[k]
  BY <1>1, TakesFields
<1>3. Check(x) \notin {"zombie", "nothing"}
  BY DEF Finds
<1> QED
  BY <1>2, <1>3, CheckStep

LEMMA InvChecks ==
  ASSUME Inv, Rows', NEW x \in Agents,
         Credit(x) \/ Silent(x) \/ Limit(x) \/ Overflow(x) \/ Refused(x) \/ Abandon(x)
           \/ Disconnected(x) \/ Requeue(x)
  PROVE  Inv'
<1>1. CASE Credit(x)
  BY <1>1, InvTakes DEF Credit
<1>2. CASE Silent(x)
  BY <1>2, InvTakes DEF Silent
<1>3. CASE Limit(x)
  <2>1. Finds(x, "limit") /\ agent' = agent /\ trouble' = trouble
    BY <1>3 DEF Limit
  <2>2. TakesOver("limit", x) \/ Takes("end", "limit", x)
    BY <1>3 DEF Limit
  <2> QED
    BY <2>1, <2>2, InvTakes
<1>4. CASE Overflow(x)
  BY <1>4, InvTakes DEF Overflow
<1>5. CASE Refused(x)
  <2>1. Finds(x, "refused") /\ agent' = agent /\ trouble' = trouble
    BY <1>5 DEF Refused
  <2>2. TakesOver("refused", x) \/ Takes("end", "refused", x)
    BY <1>5 DEF Refused
  <2> QED
    BY <2>1, <2>2, InvTakes
<1>6. CASE Abandon(x)
  BY <1>6, InvTakes DEF Abandon
<1>7. CASE Disconnected(x)
  BY <1>7, InvTakes DEF Disconnected
<1>8. CASE Requeue(x)
  BY <1>8, InvTakes DEF Requeue
<1> QED
  BY <1>1, <1>2, <1>3, <1>4, <1>5, <1>6, <1>7, <1>8

LEMMA InvNudge == ASSUME Inv, Rows', NEW x \in Agents, Nudge(x) PROVE Inv'
<1>0. Rows
  BY DEF Inv
<1>1. PICK sign \in {"frozen", "mcp", "claims", "overflow"} : Finds(x, sign)
  BY DEF Nudge
<1>2. PICK shows : agent' = [agent EXCEPT ![x].nudges = @ + 1, ![x].shows = shows]
  BY DEF Nudge
<1>3. \A b \in Agents : b # x => agent'[b] = agent[b]
  BY <1>0, <1>2 DEF Rows
<1>4. agent'[x].status = agent[x].status /\ agent'[x].has = agent[x].has
  <2>1. agent'[x] = [agent[x] EXCEPT !.nudges = @ + 1, !.shows = shows]
    BY <1>0, <1>2 DEF Rows
  <2> QED
    BY <1>0, <2>1, Fetched DEF AgentRow
<1>5. job' = job /\ job["monitor"] = Idle /\ trouble' = trouble
  BY <1>1 DEF Nudge, Finds, Free
<1> QED
  BY <1>1, <1>3, <1>4, <1>5, StubFacts, CheckStep DEF Finds

LEMMA InvRestart == ASSUME Inv, Rows', NEW x \in Agents, Restart(x) PROVE Inv'
<1>0. Rows
  BY DEF Inv
<1>1. Finds(x, "missing") /\ trouble' = trouble /\ Check(x) \notin {"zombie", "nothing"}
  BY DEF Restart, Finds
<1>2. \/ \E of \in {x, Nobody} : Takes("over", "restart", of)
      \/ Takes("relaunch", "restart", x)
      \/ Stop("monitor")
  BY DEF Restart
<1>3. /\ job'["monitor"].at # "launch" /\ job'["monitor"].new = Nobody
      /\ job'["monitor"].of \in {x, Nobody}
      /\ \A k \in Actors : k # "monitor" => job'[k] = job[k]
  BY <1>0, <1>2, TakesFields, StopFields, StubFacts, Words
<1>4. /\ \A b \in Agents : b # x => agent'[b] = agent[b]
      /\ \/ agent'[x].status = agent[x].status /\ agent'[x].has = agent[x].has
         \/ agent'[x].status = "terminated" /\ agent'[x].has = FALSE
  <2>1. CASE agent[x].restarts >= MaxRestarts
    BY <1>0, <2>1, EndedFields DEF Restart, Rows
  <2>2. CASE ~ (agent[x].restarts >= MaxRestarts)
    <3> DEFINE r == [agent[x] EXCEPT !.restarts = @ + 1]
    <3>1. agent' = [agent EXCEPT ![x] = r]
      BY <1>0, <2>2 DEF Restart, Rows
    <3>2. r.status = agent[x].status /\ r.has = agent[x].has
      BY <1>0, Fetched DEF AgentRow
    <3> QED
      BY <1>0, <3>1, <3>2 DEF Rows
  <2> QED
    BY <2>1, <2>2
<1> QED
  BY <1>1, <1>3, <1>4, CheckStep

LEMMA InvZombie == ASSUME Inv, Rows', NEW x \in Agents, Zombie(x) PROVE Inv'
<1>0. Rows
  BY DEF Inv
<1>1. /\ job["monitor"] = Idle /\ seen[x] # None
      /\ \A b \in Agents : seen'[b] = IF b = x THEN None ELSE seen[b]
  BY <1>0 DEF Zombie, Finds, Free, Rows
<1>2. /\ job'["monitor"].at = "end" /\ job'["monitor"].of = x /\ job'["monitor"].new = Nobody
      /\ job'["monitor"].why = "zombie"
      /\ \A k \in Actors : k # "monitor" => job'[k] = job[k]
  BY <1>0, TakesFields DEF Zombie
<1>3. Live' \subseteq Live /\ Marked'
  BY DEF Zombie, Inv, Live, Marked
<1>4. /\ DeskEnds' /\ SweepLaunches'
      /\ \A m \in Actors : Launches(m)' => Launches(m)
  BY <1>2, Frame, Words
<1>5. ASSUME NEW m \in Actors, Launches(m), Launches(m)', Fresh(m) PROVE Fresh(m)'
  <2> DEFINE a == job[m].new
  <2>1. m # "monitor" /\ a \in Agents
    BY <1>1, <1>5, StubFacts DEF Launches, Fresh
  <2>2. agent[a] # Gone
    BY <1>1, <1>5 DEF Fresh, OnlySeen
  <2>3. x = a => seen'[a] = None /\ OnlySeen(a)'
    BY <1>0, <1>1, <1>5 DEF Fresh, OnlySeen, Rows
  <2>4. Minds("monitor", a)
    BY <1>2, <2>1, <2>3, StubFacts DEF Minds, EndsStub
  <2> QED
    BY <1>1, <1>2, <1>3, <1>5, <2>1, <2>2, <2>4, FreshKept DEF Zombie
<1> QED
  BY <1>3, <1>4, <1>5, Kept DEF Zombie

-----------------------------------------------------------------------------
(* The steps of no job: of the agents themselves, of the reaper's second   *)
(* pass, of the sweep before it launches.                                  *)

\* What nobody's job is about.
LEMMA AgentStep ==
  ASSUME Inv, Rows', trouble \subseteq trouble', seen' = seen, job' = job,
         \A b \in Agents : agent'[b].status = agent[b].status /\ agent'[b].has = agent[b].has,
         \A m \in Actors : Launches(m) /\ Fresh(m) => agent'[job[m].new] = agent[job[m].new]
  PROVE  Inv'
<1>1. Live' \subseteq Live /\ Marked'
  BY OnlyEnds
<1>2. DeskEnds' /\ SweepLaunches' /\ \A m \in Actors : Launches(m)' => Launches(m)
  BY DEF Inv, DeskEnds, SweepLaunches, Launches
<1>3. ASSUME NEW m \in Actors, Launches(m), Launches(m)', Fresh(m) PROVE Fresh(m)'
  BY <1>1, <1>3, FreshKept
<1> QED
  BY <1>1, <1>2, <1>3, Kept

LEMMA InvTroubled ==
  ASSUME Inv, Rows', NEW x \in Agents, NEW sign \in Signs, Troubled(x, sign)
  PROVE  Inv'
<1>0. Rows
  BY DEF Inv
<1>1. \A b \in Agents : agent'[b] = IF b = x THEN [agent[x] EXCEPT !.shows = sign, !.nudges = 0]
                                    ELSE agent[b]
  BY <1>0 DEF Troubled, Rows
<1>2. agent'[x].status = agent[x].status /\ agent'[x].has = agent[x].has
  <2>1. agent[x] \in AgentRow /\ agent'[x] = [agent[x] EXCEPT !.shows = sign, !.nudges = 0]
    BY <1>0, <1>1, Fetched
  <2> QED
    BY <2>1 DEF AgentRow
<1>3. \A b \in Agents : b # x => agent'[b] = agent[b]
  BY <1>1
<1>4. agent[x].session # None
  BY DEF Troubled
<1>5. \A m \in Actors : Launches(m) /\ Fresh(m) => agent'[job[m].new] = agent[job[m].new]
  BY <1>3, <1>4, StubFacts DEF Fresh
<1> QED
  BY <1>2, <1>3, <1>5, AgentStep DEF Troubled, MayGoWrong

LEMMA InvExits == ASSUME Inv, Rows', NEW x \in Agents, Exits(x) PROVE Inv'
<1>0. Rows
  BY DEF Inv
<1>1. PICK shows \in {"work", "exits"} :
        agent' = [agent EXCEPT ![x].session = None, ![x].prompt = FALSE, ![x].shows = shows]
  BY DEF Exits
<1>2. \A b \in Agents :
        agent'[b] = IF b = x THEN [agent[x] EXCEPT !.session = None, !.prompt = FALSE, !.shows = shows]
                    ELSE agent[b]
  BY <1>0, <1>1 DEF Rows
<1>3. \A b \in Agents : agent'[b].status = agent[b].status /\ agent'[b].has = agent[b].has
  <2>1. agent'[x].status = agent[x].status /\ agent'[x].has = agent[x].has
    <3>1. agent[x] \in AgentRow
      BY <1>0, Fetched
    <3>2. agent'[x] = [agent[x] EXCEPT !.session = None, !.prompt = FALSE, !.shows = shows]
      BY <1>2
    <3> QED
      BY <3>1, <3>2 DEF AgentRow
  <2> QED
    BY <1>2, <2>1
<1>4. \A m \in Actors : Launches(m) /\ Fresh(m) => agent'[job[m].new] = agent[job[m].new]
  <2>1. agent[x].session # None /\ \A b \in Agents : b # x => agent'[b] = agent[b]
    BY <1>2 DEF Exits
  <2> QED
    BY <2>1, StubFacts DEF Fresh
<1> QED
  BY <1>3, <1>4, AgentStep DEF Exits

LEMMA InvReport == ASSUME Inv, Rows', NEW x \in Agents, Report(x) PROVE Inv'
<1>0. Rows
  BY DEF Inv
<1>1. \A b \in Agents : agent'[b] = IF b = x THEN [agent[x] EXCEPT !.leaving = (x \in Live)] ELSE agent[b]
  BY <1>0 DEF Report, Rows
<1>2. \A b \in Agents : agent'[b].status = agent[b].status /\ agent'[b].has = agent[b].has
  BY <1>0, <1>1, Fetched DEF AgentRow
<1>3. \A m \in Actors : Launches(m) /\ Fresh(m) => agent'[job[m].new] = agent[job[m].new]
  BY <1>1, StubFacts DEF Fresh, Report
<1>4. trouble \subseteq trouble' /\ seen' = seen /\ job' = job
  BY DEF Report, MayGoWrong
<1> QED
  BY <1>2, <1>3, <1>4, AgentStep

LEMMA InvExorcise == ASSUME Inv, Rows', Exorcise PROVE Inv'
<1>0. Rows
  BY DEF Inv
<1>1. \A b \in Agents : agent'[b] = IF b \in Ghosts THEN [agent[b] EXCEPT !.session = None, !.prompt = FALSE]
                                    ELSE agent[b]
  BY DEF Exorcise
<1>2. \A b \in Agents : agent'[b].status = agent[b].status /\ agent'[b].has = agent[b].has
  BY <1>0, <1>1, Fetched DEF AgentRow
<1>3. \A m \in Actors : Launches(m) /\ Fresh(m) => agent'[job[m].new] = agent[job[m].new]
  BY <1>1 DEF Fresh, Ghosts
<1> QED
  BY <1>2, <1>3, AgentStep DEF Exorcise

LEMMA InvLeave == ASSUME Inv, Rows', NEW x \in Agents, Leave(x) PROVE Inv'
<1>0. Rows
  BY DEF Inv
<1>1. \A b \in Agents : agent'[b] = IF b = x THEN [agent[x] EXCEPT !.leaving = FALSE] ELSE agent[b]
  BY <1>0 DEF Leave, Rows
<1>2. \A b \in Agents : agent'[b].status = agent[b].status /\ agent'[b].has = agent[b].has
  BY <1>0, <1>1, Fetched DEF AgentRow
<1>3. Live' \subseteq Live /\ Marked'
  BY <1>2, OnlyEnds
<1>4. /\ job'["desk"].at = "end" /\ job'["desk"].of = x /\ job'["desk"].new = Nobody
      /\ job'["desk"].why = "leave"
      /\ \A k \in Actors : k # "desk" => job'[k] = job[k]
  <2>1. /\ job'["desk"] = [Idle EXCEPT !.at = "end", !.why = "leave", !.of = x]
        /\ \A k \in Actors : k # "desk" => job'[k] = job[k]
    BY <1>0, Words DEF Leave, Rows
  <2> QED
    BY <2>1 DEF Idle
<1>5. /\ DeskEnds' /\ SweepLaunches'
      /\ \A m \in Actors : Launches(m)' => Launches(m)
  BY <1>4, Frame, Words
<1>6. ASSUME NEW m \in Actors, Launches(m), Launches(m)', Fresh(m) PROVE Fresh(m)'
  <2> DEFINE a == job[m].new
  <2>1. m # "desk" /\ a \in Agents /\ x # a
    BY <1>6, StubFacts DEF Launches, Fresh, Leave, Free
  <2>2. Minds("desk", a) /\ agent'[a] = agent[a] /\ job'[m] = job[m]
    BY <1>1, <1>4, <2>1, StubFacts DEF Minds
  <2> QED
    BY <1>3, <1>4, <1>6, <2>1, <2>2, FreshKept DEF Leave
<1> QED
  BY <1>3, <1>5, <1>6, Kept DEF Leave

LEMMA InvRetry == ASSUME Inv, Rows', Retry PROVE Inv'
<1>0. Rows /\ DeskEnds
  BY DEF Inv
<1>1. /\ job'["sweep"].at = "place" /\ job'["sweep"].of = Nobody /\ job'["sweep"].new = Nobody
      /\ \A k \in Actors : k # "sweep" => job'[k] = job[k]
  <2>1. /\ job'["sweep"] = [Idle EXCEPT !.at = "place", !.why = "retry"]
        /\ \A k \in Actors : k # "sweep" => job'[k] = job[k]
    BY <1>0, Words DEF Retry, Rows
  <2> QED
    BY <2>1 DEF Idle
<1>2. DeskEnds' /\ SweepLaunches' /\ \A m \in Actors : Launches(m)' => Launches(m) /\ m # "sweep"
  BY <1>0, <1>1, Words DEF DeskEnds, SweepLaunches, Launches
<1>3. Live' \subseteq Live /\ Marked'
  BY DEF Retry, Inv, Live, Marked
<1>4. ASSUME NEW m \in Actors, Launches(m), Launches(m)', Fresh(m) PROVE Fresh(m)'
  <2>1. m # "sweep" /\ job[m].new \in Agents
    BY <1>2, <1>4 DEF Fresh
  <2>2. Minds("sweep", job[m].new)
    BY <1>1, <2>1, StubFacts DEF Minds
  <2> QED
    BY <1>1, <1>3, <1>4, <2>1, <2>2, FreshKept DEF Retry
<1> QED
  BY <1>2, <1>3, <1>4, Kept DEF Retry

LEMMA InvTaskOnly ==
  ASSUME Inv, Rows', Orphan \/ Stale \/ Ask \/ Lift \/ UNCHANGED vars
  PROVE  Inv'
<1>1. agent' = agent /\ seen' = seen /\ job' = job /\ trouble' = trouble
  BY DEF Orphan, Stale, Ask, Lift, vars
<1> QED
  BY <1>1, AgentStep

-----------------------------------------------------------------------------
(* Inductiveness, and what follows.                                        *)

LEMMA InvInit == Init => Inv
<1> SUFFICES ASSUME Init PROVE Inv
  OBVIOUS
<1>1. Rows
  BY RowsInit
<1>2. \A m \in Actors : job[m] = Idle
  BY DEF Init
<1>3. \A a \in Agents : agent[a].has <=> agent[a].status # "terminated"
  BY DEF Init, Gone
<1>4. Live = {1}
  BY Constants DEF Init, Live, Gone
<1> QED
  BY <1>1, <1>2, <1>3, <1>4, StubFacts, Words
     DEF Inv, Marked, Live, DeskEnds, SweepLaunches, Placed, Alone, Launches

LEMMA InvStep == Inv /\ [Next]_vars => Inv'
<1> SUFFICES ASSUME Inv, [Next]_vars PROVE Inv'
  OBVIOUS
<1>0. Rows'
  BY RowsStep DEF Inv
<1>1. ASSUME NEW m \in Actors, Carries(m) PROVE Inv'
  BY <1>0, <1>1, InvEndStart, InvEndKill, InvEndRow, InvPlace, InvLaunch, InvPrompt, InvMade DEF Carries
<1>2. ASSUME NEW a \in Agents, Checks(a) PROVE Inv'
  BY <1>0, <1>2, InvPass, InvZombie, InvChecks, InvNudge, InvRestart DEF Checks
<1>3. CASE Monitor
  BY <1>0, <1>1, <1>2, <1>3, Words, InvThen, InvRequeueKill, InvRequeueRow, InvOver, InvRelaunch,
     InvRecheck, InvReaped, InvLook DEF Monitor
<1>4. CASE Sweep
  BY <1>0, <1>1, <1>4, Words, InvTaskOnly, InvRetry DEF Sweep
<1>5. CASE Desk
  BY <1>0, <1>1, <1>5, Words, InvLeave DEF Desk
<1> QED
  BY <1>0, <1>3, <1>4, <1>5, InvTaskOnly, InvExorcise, InvReap, InvLaunchFails, InvExits, InvReport,
     InvTroubled DEF Next

\* Monitor, sweep and request handler launch, relaunch and end agents without a
\* lock and each on what it read before it waited: unless two launches pass
\* create_agent_for_task's guard together, no two agents are ever alive.
THEOREM NeverTwoAgents == Spec => []OneAgent
<1>1. Inv => OneAgent
  <2> SUFFICES ASSUME Inv, Untied PROVE Cardinality(Live) =< 1
    BY DEF OneAgent, Untied
  <2>1. Live = {} \/ \E a : Live = {a}
    BY DEF Inv, Placed, Alone
  <2> QED
    <3>1. Cardinality({}) = 0 /\ \A a : Cardinality({a}) = 1
      BY FS_EmptySet, FS_Singleton
    <3>2. Cardinality(Live) = 0 \/ Cardinality(Live) = 1
      BY <2>1, <3>1, Zenon
    <3> QED
      BY <3>2
<1> QED
  BY <1>1, InvInit, InvStep, PTL DEF Spec
=============================================================================
