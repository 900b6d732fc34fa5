------------------------ MODULE DesignPipelineProofs ------------------------
(***************************************************************************)
(* For any features, whatever their dependencies and groups, any limit of  *)
(* retries and any troubles: every variable keeps its type, and a feature  *)
(* is launched only on features that somebody has approved.                *)
(*                                                                         *)
(* The second is not inductive.  What the launch has in its hands is old:  *)
(* that the rows of the features it is built on were "completed" when its  *)
(* thread began, and a row is completed by the thread that waited for the  *)
(* review, by an approval, by the sweep and by a dashboard.  So the        *)
(* invariant has to say that all of them stand for an approval once the    *)
(* thread of the feature is over.  A feature that is closed, not approved  *)
(* and not waiting for its reviewer is Loose; only a fault makes one, and  *)
(* only while its thread is still looking at the workflow (Bound), which   *)
(* then sees it closed and goes to the review; it is never given up on     *)
(* instead (Going).  Behind is the rest: what a group depends on is over   *)
(* before the group begins, nothing waits for a review then, and a group   *)
(* begins together (Grouped).                                              *)
(*                                                                         *)
(* All but the types holds in the circumstances of the property only       *)
(* (Calm); trouble never goes away, so a calm step starts calm.            *)
(***************************************************************************)
EXTENDS DesignPipeline, FiniteSetTheorems, WellFoundedInduction, TLAPS

\* TypeOK, with a name for the type of each row.
DesignStates == {"pending", "processing", "decomposing"} \union Statuses
DesignRow == [status : DesignStates, retries : 0..MaxRetries]
RowStates == Statuses \union {None, "pending"}
WfStates  == Statuses \union {None}
Pausers   == {Nobody, "review", "system", "user"}
WfRow     == [status : WfStates, by : Pausers]
WalkAt    == {"off", "scan", "phase0", "resign", "architect", "signoff", "dispatch", "collect", "persist"}
WalkRow   == [at : WalkAt, outcome : {None, "completed", "failed"}, current : Jobs \union {NoJob}]
RunAt     == {"idle", "begin", "launch", "read", "decide", "finish", "wait", "gate", "regate",
              "over", "resolved"}
RunRow    == [at : RunAt, saw : Statuses \union {None}, result : Results \union {None}]

\* The outcome to record is there when it is.
Recorded == walk.at = "persist" => walk.outcome # None

Types ==
  /\ design \in DesignRow
  /\ plan \in {None, "good", "bad"}
  /\ row \in [Features -> RowStates]
  /\ wf \in [Jobs -> WfRow]
  /\ closed \in [Jobs -> BOOLEAN] /\ approved \in [Features -> BOOLEAN]
  /\ walk \in WalkRow
  /\ saved \in Jobs \union {NoJob}
  /\ run \in [Jobs -> RunRow]
  /\ signing \in SUBSET Features
  /\ stop \in {"no", "asked", "done"}
  /\ trouble \in SUBSET Kinds

Rows == Types /\ Recorded

LEMMA RowsType == Rows => TypeOK
BY DEF Rows, Types, TypeOK, DesignStates, DesignRow, RowStates, WfStates, Pausers, WfRow, WalkAt, WalkRow, RunAt, RunRow

LEMMA Constants ==
  /\ Features \subseteq Nat \ {0} /\ Features # {} /\ IsFiniteSet(Features)
  /\ \A f \in Features : DependsOn[f] \subseteq Features
  /\ MaxRetries \in Nat /\ Troubles \subseteq SUBSET Kinds
  /\ ReviewMode \in BOOLEAN
BY PipelineAssumption DEF PipelineAssumption

LEMMA TheJobs == /\ Architect \in Jobs /\ Architect \notin Features /\ Features \subseteq Jobs
                 /\ \A j \in Jobs : j # Architect => j \in Features
                 /\ NoJob \notin Jobs
BY Constants DEF Jobs, Architect, NoJob

-----------------------------------------------------------------------------
(* Types: what the pieces of the steps write has the type of what it      *)
(* overwrites.                                                            *)

LEMMA DesignWrite ==
  ASSUME Rows
  PROVE  /\ \A s \in DesignStates : [design EXCEPT !.status = s] \in DesignRow
         /\ design.retries < MaxRetries => \A s \in DesignStates : [design EXCEPT !.status = s, !.retries = @ + 1] \in DesignRow
         /\ \A s \in DesignStates : [design EXCEPT !.status = s, !.retries = 0] \in DesignRow
         /\ design.status \in DesignStates /\ design.retries \in 0..MaxRetries
<1>1. design.status \in DesignStates /\ design.retries \in 0..MaxRetries
  BY DEF Rows, Types, DesignRow
<1>2. design.retries < MaxRetries => design.retries + 1 \in 0..MaxRetries
  BY <1>1, Constants
<1>3. 0 \in 0..MaxRetries
  BY Constants
<1> QED
  BY <1>1, <1>2, <1>3 DEF Rows, Types, DesignRow

LEMMA WfWrite ==
  ASSUME Rows, NEW j, NEW s \in WfStates, NEW by \in Pausers
  PROVE  SetWf(j, s, by) \in [Jobs -> WfRow]
BY DEF Rows, Types, SetWf, WfRow

LEMMA WalkWrite ==
  ASSUME Rows
  PROVE  /\ \A at \in WalkAt : [walk EXCEPT !.at = at] \in WalkRow
         /\ \A at \in WalkAt, c \in Jobs \union {NoJob} : [walk EXCEPT !.at = at, !.current = c] \in WalkRow
         /\ \A at \in WalkAt, o \in {None, "completed", "failed"} : [walk EXCEPT !.at = at, !.outcome = o] \in WalkRow
         /\ \A c \in Jobs \union {NoJob} : [walk EXCEPT !.current = c] \in WalkRow
         /\ walk.at \in WalkAt /\ walk.current \in Jobs \union {NoJob} /\ walk.outcome \in {None, "completed", "failed"}
BY DEF Rows, Types, WalkRow

LEMMA IdleRun == /\ Idle \in RunRow /\ Off \in WalkRow
                 /\ \A at \in RunAt : [Idle EXCEPT !.at = at] \in RunRow
                 /\ \A c \in Jobs \union {NoJob} : [Off EXCEPT !.at = "scan", !.current = c] \in WalkRow
BY DEF Idle, Off, RunRow, RunAt, WalkRow, WalkAt, Statuses, Results

LEMMA RunWrite ==
  ASSUME Rows, NEW j \in Jobs
  PROVE  /\ \A at \in RunAt : [run EXCEPT ![j].at = at] \in [Jobs -> RunRow]
         /\ \A at \in RunAt : [run EXCEPT ![j].at = at, ![j].saw = None] \in [Jobs -> RunRow]
         /\ \A at \in RunAt, s \in WfStates : [run EXCEPT ![j].at = at, ![j].saw = s] \in [Jobs -> RunRow]
         /\ \A at \in RunAt, r \in Results \union {None} : [run EXCEPT ![j].at = at, ![j].result = r] \in [Jobs -> RunRow]
         /\ \A r \in RunRow : [run EXCEPT ![j] = r] \in [Jobs -> RunRow]
         /\ run[j] \in RunRow
<1>1. run[j] \in RunRow /\ run \in [Jobs -> RunRow]
  BY DEF Rows, Types
<1> QED
  BY <1>1 DEF RunRow, WfStates

LEMMA RowsOf ==
  ASSUME Rows
  PROVE  /\ \A js : PausedRows(row, js) \in [Features -> RowStates]
         /\ \A js : ResumedRows(row, js) \in [Features -> RowStates]
         /\ [f \in Features |-> "pending"] \in [Features -> RowStates]
         /\ \A f \in Features, s \in RowStates : [row EXCEPT ![f] = s] \in [Features -> RowStates]
BY DEF Rows, Types, PausedRows, ResumedRows, RowStates, Statuses

LEMMA Misfortune == ASSUME Rows, NEW what, Trouble(what)
                    PROVE  trouble' \in SUBSET Kinds /\ trouble \subseteq trouble' /\ what \in trouble'
BY Constants DEF Rows, Types, Trouble

LEMMA Derived ==
  ASSUME NEW flow \in [Jobs -> WfRow], NEW rows \in [Features -> RowStates], NEW shut \in [Jobs -> BOOLEAN],
         Rows
  PROVE  /\ \A f \in Features : FeatureStatus(f, flow, rows, shut) \in RowStates
         /\ DesignStatus(flow, rows, shut) \in DesignStates
BY TheJobs DEF FeatureStatus, DesignStatus, Rows, Types, DesignRow, RowStates, WfRow, WfStates, DesignStates, Statuses

LEMMA Records == ASSUME Rows, CreateRecords PROVE row' \in [Features -> RowStates]
BY RowsOf DEF CreateRecords, Rows, Types

LEMMA States == /\ Statuses \subseteq DesignStates /\ {"pending", "processing", "decomposing"} \subseteq DesignStates
                /\ Statuses \subseteq WfStates /\ Statuses \subseteq RowStates
                /\ None \in WfStates /\ None \in RowStates /\ "pending" \in RowStates
                /\ {"active", "paused", "completed", "failed"} = Statuses
                /\ Statuses \ {"active"} \subseteq Results
BY DEF DesignStates, WfStates, RowStates, Statuses, Results

-----------------------------------------------------------------------------
(* Types: one lemma for each actor.                                       *)

LEMMA WalkRecorded == ASSUME Rows, Walk \/ ForgetCurrent PROVE Recorded'
<1> USE DEF Rows, Types, Recorded, WalkRow
<1>1. walk.outcome \in {None, "completed", "failed"} /\ None \notin {"completed", "failed"}
  BY DEF None
<1>2. CASE Phase0 \/ Resign \/ Harvest \/ Signoff
  BY <1>1, <1>2 DEF Phase0, Resign, Harvest, Signoff, FromFolder, Decompose, WalkTo, Abort
<1>3. CASE AbandonCurrent \/ ForgetCurrent \/ Pick
  BY <1>1, <1>3 DEF AbandonCurrent, ForgetCurrent, Pick
<1>4. CASE Dispatch \/ Collect
  BY <1>1, <1>4 DEF Dispatch, Collect, WalkTo
<1>5. CASE Aggregate
  BY <1>1, <1>5 DEF Aggregate, Outcome
<1>6. CASE Persist
  <2>1. walk' = [walk EXCEPT !.at = "scan", !.outcome = None]
    BY <1>6 DEF Persist
  <2>2. walk'.at = "scan"
    BY <2>1
  <2> QED
    BY <2>2
<1>7. CASE Shutdown
  BY <1>7 DEF Shutdown, Off
<1> QED
  BY <1>2, <1>3, <1>4, <1>5, <1>6, <1>7 DEF Walk

LEMMA WalkRows == ASSUME Rows, Walk \/ ForgetCurrent PROVE Rows'
<1> SUFFICES Types'
  BY WalkRecorded DEF Rows
<1> USE DEF Rows, Types
<1>1. CASE AbandonCurrent
  BY <1>1, WalkWrite DEF AbandonCurrent
<1>2. CASE ForgetCurrent
  BY <1>2, WalkWrite, Misfortune DEF ForgetCurrent
<1>3. CASE Pick
  <2> DEFINE rest == IF Resumable THEN walk.current ELSE NoJob
  <2>1. /\ design.retries < MaxRetries => [design EXCEPT !.status = "pending", !.retries = @ + 1] \in DesignRow
        /\ \A s \in {"failed", "completed", "processing"} : [design EXCEPT !.status = s] \in DesignRow
    BY DesignWrite DEF DesignStates, Statuses
  <2>2. /\ [walk EXCEPT !.current = rest] \in WalkRow
        /\ [walk EXCEPT !.at = "phase0", !.current = rest] \in WalkRow
    BY WalkWrite DEF WalkAt
  <2>3. design' \in DesignRow /\ walk' \in WalkRow
    BY <1>3, <2>1, <2>2 DEF Pick, DesignIs
  <2> QED
    BY <1>3, <2>3 DEF Pick
<1>a. ASSUME FromFolder \/ Decompose
      PROVE  design' \in DesignRow /\ walk' \in WalkRow /\ run' \in [Jobs -> RunRow] /\ row' \in [Features -> RowStates]
  <2>0. /\ [design EXCEPT !.status = "decomposing"] \in DesignRow
        /\ [walk EXCEPT !.at = "architect"] \in WalkRow
        /\ [Idle EXCEPT !.at = "launch"] \in RunRow
    BY DesignWrite, WalkWrite, IdleRun DEF WalkAt, DesignStates, RunAt
  <2>1. Decompose => design' \in DesignRow /\ walk' \in WalkRow /\ row' = row
    BY <2>0 DEF Decompose, DesignIs, WalkTo
  <2>2. Decompose => run' \in [Jobs -> RunRow]
    <3>1. \A r \in RunRow : [run EXCEPT ![Architect] = r] \in [Jobs -> RunRow]
      BY RunWrite, TheJobs
    <3> QED
      BY <2>0, <3>1 DEF Decompose
  <2>3. ASSUME CreateRecords, WalkTo("dispatch"), UNCHANGED <<design, run>>
        PROVE  design' \in DesignRow /\ walk' \in WalkRow /\ run' \in [Jobs -> RunRow] /\ row' \in [Features -> RowStates]
    BY <2>3, WalkWrite, Records DEF WalkTo, WalkAt
  <2> QED
    BY <1>a, <2>1, <2>2, <2>3 DEF FromFolder
<1>4. CASE Phase0
  <2>1. /\ [design EXCEPT !.status = "active"] \in DesignRow
        /\ [walk EXCEPT !.at = "dispatch"] \in WalkRow /\ [walk EXCEPT !.at = "resign"] \in WalkRow
    BY DesignWrite, WalkWrite, States DEF WalkAt
  <2>2. \/ FromFolder \/ Decompose
        \/ DesignIs("active") /\ WalkTo("dispatch") /\ UNCHANGED <<row, run>>
        \/ WalkTo("resign") /\ UNCHANGED <<design, row, run>>
    BY <1>4 DEF Phase0
  <2>3. UNCHANGED <<plan, wf, closed, approved, saved, signing, stop, trouble>>
    BY <1>4 DEF Phase0
  <2> QED
    BY <1>a, <2>1, <2>2, <2>3 DEF DesignIs, WalkTo
<1>b. ASSUME Abort PROVE walk' \in WalkRow
  BY <1>b, WalkWrite DEF Abort, WalkAt
<1>c. [wf EXCEPT ![Architect].status = "completed"] \in [Jobs -> WfRow]
  BY States DEF WfRow
<1>5. CASE Resign
  BY <1>5, <1>a, <1>b, <1>c DEF Resign
<1>6. CASE Harvest
  <2>1. design' \in DesignRow
    BY <1>6, DesignWrite, States DEF Harvest, DesignIs
  <2>2. walk' \in WalkRow
    BY <1>6, <1>b, WalkWrite DEF Harvest, WalkTo, WalkAt
  <2>3. run' \in [Jobs -> RunRow]
    BY <1>6, IdleRun, RunWrite, TheJobs DEF Harvest
  <2>4. wf' \in [Jobs -> WfRow]
    BY <1>6, WfWrite, States DEF Harvest, Pausers
  <2> QED
    BY <1>6, <2>1, <2>2, <2>3, <2>4 DEF Harvest
<1>7. CASE Signoff
  BY <1>7, <1>b, <1>c, WalkWrite, Records DEF Signoff, WalkTo, WalkAt
<1>8. CASE Dispatch
  BY <1>8, WalkWrite, IdleRun DEF Dispatch, WalkTo, WalkAt, RunAt
<1>9. CASE Collect
  <2>1. \A j \in Jobs : [run[j] EXCEPT !.at = "resolved"] \in RunRow
    BY DEF RunRow, RunAt
  <2> QED
    BY <1>9, <2>1, WalkWrite DEF Collect, WalkTo, WalkAt
<1>10. CASE Aggregate
  BY <1>10, WalkWrite, IdleRun, DesignWrite, States DEF Aggregate, DesignIs, Outcome, WalkAt
<1>11. CASE Persist
  <2>0. walk.outcome \in DesignStates
    BY <1>11, WalkWrite, States DEF Persist, Recorded
  <2>1. design' = [design EXCEPT !.status = walk.outcome, !.retries = 0] \/ design' = [design EXCEPT !.status = walk.outcome]
    <3>1. CASE walk.outcome = "completed"
      BY <1>11, <3>1 DEF Persist
    <3>2. CASE walk.outcome # "completed"
      BY <1>11, <3>2, DesignWrite DEF Persist, DesignRow
    <3> QED
      BY <3>1, <3>2
  <2>2. design' \in DesignRow
    BY <2>0, <2>1, DesignWrite
  <2> QED
    BY <1>11, <2>2, WalkWrite DEF Persist, WalkAt
<1>12. CASE Shutdown
  BY <1>12, WalkWrite, IdleRun, RowsOf, States DEF Shutdown, PauseAll, WfRow, Pausers
<1> QED
  BY <1>1, <1>2, <1>3, <1>4, <1>5, <1>6, <1>7, <1>8, <1>9, <1>10, <1>11, <1>12 DEF Walk

LEMMA EndsRows ==
  ASSUME Rows, NEW j \in Jobs, NEW what \in Results \union {None}, Ends(j, what)
  PROVE  run' \in [Jobs -> RunRow] /\ wf' \in [Jobs -> WfRow] /\ row' \in [Features -> RowStates]
<1>1. [at |-> IF j = Architect THEN "over" ELSE "finish", saw |-> None, result |-> what] \in RunRow
  BY DEF RunRow, RunAt
<1>2. run' \in [Jobs -> RunRow]
  BY <1>1, RunWrite DEF Ends
<1>3. SetWf(j, "paused", "system") \in [Jobs -> WfRow]
  BY WfWrite DEF Pausers, WfStates, Statuses
<1> QED
  BY <1>2, <1>3, RowsOf DEF Ends, Rows, Types

LEMMA ToRows ==
  ASSUME Rows, NEW j \in Jobs
  PROVE  /\ \A at \in RunAt : To(j, at) => run' \in [Jobs -> RunRow]
         /\ \A what \in Results : Over(j, what) => run' \in [Jobs -> RunRow]
<1>1. \A at \in RunAt : [run EXCEPT ![j].at = at, ![j].saw = None] \in [Jobs -> RunRow]
  BY RunWrite
<1>2. \A r \in Results : [run EXCEPT ![j].at = "over", ![j].result = r] \in [Jobs -> RunRow]
  BY RunWrite DEF RunAt
<1>3. \A at \in RunAt : To(j, at) => run' \in [Jobs -> RunRow]
  BY <1>1 DEF To
<1>4. \A what \in Results : Over(j, what) => run' \in [Jobs -> RunRow]
  BY <1>2 DEF Over
<1> QED
  BY <1>3, <1>4

LEMMA ForReviewRows ==
  ASSUME Rows, NEW f \in Features, ForReview(f)
  PROVE  wf' \in [Jobs -> WfRow] /\ row' \in [Features -> RowStates]
<1>1. SetWf(f, "paused", "review") \in [Jobs -> WfRow]
  BY WfWrite DEF Pausers, WfStates, Statuses
<1> QED
  BY <1>1, RowsOf, States DEF ForReview, WriteRow, Rows, Types, RowStates, Statuses

LEMMA FeatureThreadRows ==
  ASSUME Rows, NEW f \in Features, Begin(f) \/ Finish(f) \/ Wait(f) \/ Gate(f)
  PROVE  Rows'
<1>0. f \in Jobs /\ {"over", "wait", "gate", "regate", "launch"} \subseteq RunAt /\ {"skipped", "completed", "paused"} \subseteq Results
  BY TheJobs DEF RunAt, Results
<1>a. UNCHANGED walk => Recorded'
  BY DEF Rows, Recorded
<1>b. \A s \in {"completed", "active", "paused", "failed"} : WriteRow(f, s) => row' \in [Features -> RowStates]
  BY RowsOf, States DEF WriteRow, Rows, Types
<1>c. run' \in [Jobs -> RunRow]
  <2>1. \A at \in {"over", "wait", "gate", "regate", "launch"} : To(f, at) => run' \in [Jobs -> RunRow]
    BY <1>0, ToRows
  <2>2. \A what \in {"skipped", "completed", "paused"} : Over(f, what) => run' \in [Jobs -> RunRow]
    BY <1>0, ToRows
  <2> QED
    BY <2>1, <2>2 DEF Begin, Finish, Wait, Gate
<1>d. wf' \in [Jobs -> WfRow] /\ row' \in [Features -> RowStates]
  BY <1>b, ForReviewRows DEF Begin, Finish, Wait, Gate, Rows, Types
<1> QED
  BY <1>a, <1>c, <1>d DEF Begin, Finish, Wait, Gate, Rows, Types

LEMMA ThreadRows ==
  ASSUME Rows, NEW j \in Jobs, Thread(j) \/ LaunchFails(j) \/ GivesUp(j)
  PROVE  Rows'
<1>0. /\ {"read", "decide"} \subseteq RunAt /\ {"failed", "interrupted", "completed"} \subseteq Results
      /\ Architect \in Jobs /\ j # Architect => j \in Features
  BY TheJobs DEF RunAt, Results
<1>t. (trouble' = trouble \/ Trouble("fault")) => trouble' \in SUBSET Kinds
  BY Misfortune DEF Rows, Types
<1>1. CASE Launch(j)
  <2>1. run' \in [Jobs -> RunRow]
    BY <1>0, <1>1, ToRows DEF Launch
  <2>2. SetWf(j, "active", Nobody) \in [Jobs -> WfRow]
    BY WfWrite DEF Pausers, WfStates, Statuses
  <2>3. wf' \in [Jobs -> WfRow] /\ closed' \in [Jobs -> BOOLEAN]
    BY <1>1, <2>2 DEF Launch, Rows, Types
  <2>4. [walk EXCEPT !.current = j] \in WalkRow
    BY WalkWrite
  <2>5. walk' \in WalkRow /\ plan' \in {None, "good", "bad"} /\ Recorded'
    BY <1>1, <2>4 DEF Launch, Rows, Types, Recorded, WalkRow
  <2> QED
    BY <1>1, <2>1, <2>3, <2>5 DEF Launch, Rows, Types
<1>2. CASE LaunchFails(j)
  <2>1. run' \in [Jobs -> RunRow]
    BY <1>0, <1>2, ToRows DEF LaunchFails
  <2>2. row' \in [Features -> RowStates]
    BY <1>2, RowsOf, States DEF LaunchFails, Rows, Types
  <2> QED
    BY <1>2, <1>t, <2>1, <2>2 DEF LaunchFails, Rows, Types, Recorded
<1>3. CASE Read(j)
  <2>1. wf[j].status \in WfStates
    BY DEF Rows, Types, WfRow
  <2>2. [run EXCEPT ![j].at = "decide", ![j].saw = wf[j].status] \in [Jobs -> RunRow]
    BY <1>0, <2>1, RunWrite
  <2>3. run' \in [Jobs -> RunRow] /\ wf' \in [Jobs -> WfRow] /\ row' \in [Features -> RowStates]
    <3>1. CASE Stopping
      BY <1>0, <1>3, <3>1, EndsRows DEF Read
    <3>2. CASE ~Stopping
      BY <1>3, <2>2, <3>2 DEF Read, Rows, Types
    <3> QED
      BY <3>1, <3>2
  <2> QED
    BY <1>3, <2>3 DEF Read, Rows, Types, Recorded
<1>4. CASE Decide(j)
  <2>1. run[j].saw \in Results \union {None} \/ run[j].saw = "active"
    <3>1. run[j].saw \in Statuses \union {None}
      BY RunWrite DEF RunRow
    <3> QED
      BY <3>1, States
  <2>2. run' \in [Jobs -> RunRow] /\ wf' \in [Jobs -> WfRow] /\ row' \in [Features -> RowStates]
    <3>1. CASE run[j].saw # "active"
      BY <1>4, <2>1, <3>1, EndsRows DEF Decide
    <3>2. CASE run[j].saw = "active" /\ closed[j]
      BY <1>0, <1>4, <3>2, EndsRows DEF Decide
    <3>3. CASE run[j].saw = "active" /\ ~closed[j]
      BY <1>0, <1>4, <3>3, ToRows DEF Decide, Rows, Types
    <3> QED
      BY <3>1, <3>2, <3>3
  <2>3. [walk EXCEPT !.current = NoJob] \in WalkRow
    BY WalkWrite
  <2>4. walk' \in WalkRow /\ Recorded'
    BY <1>4, <2>3 DEF Decide, Rows, Types, Recorded, WalkRow
  <2> QED
    BY <1>4, <2>2, <2>4 DEF Decide, Rows, Types
<1>5. CASE GivesUp(j)
  <2>1. run' \in [Jobs -> RunRow] /\ wf' \in [Jobs -> WfRow] /\ row' \in [Features -> RowStates]
    BY <1>0, <1>5, EndsRows DEF GivesUp
  <2> QED
    BY <1>5, <1>t, <2>1 DEF GivesUp, Rows, Types, Recorded
<1> QED
  BY <1>1, <1>2, <1>3, <1>4, <1>5 DEF Thread

LEMMA WorkRows ==
  ASSUME Rows, NEW j \in Jobs, CloseWork(j) \/ GoesWrong(j) \/ Redone(j) \/ RequestChanges(j)
  PROVE  Rows'
<1>1. closed' \in [Jobs -> BOOLEAN] /\ approved' \in [Features -> BOOLEAN] /\ plan' \in {None, "good", "bad"}
  BY DEF CloseWork, GoesWrong, Redone, RequestChanges, Closed, Rows, Types
<1>2. /\ SetWf(j, "paused", "review") \in [Jobs -> WfRow]
      /\ SetWf(j, "completed", Nobody) \in [Jobs -> WfRow]
      /\ SetWf(j, "failed", Nobody) \in [Jobs -> WfRow]
  BY WfWrite DEF Pausers, WfStates, Statuses
<1>3. wf' \in [Jobs -> WfRow]
  BY <1>2 DEF CloseWork, GoesWrong, Redone, RequestChanges, Rows, Types
<1>4. row' \in [Features -> RowStates]
  BY RowsOf, Records DEF CloseWork, GoesWrong, Redone, RequestChanges, Rows, Types
<1>5. design' \in DesignRow
  <2>1. Closed(j) \in [Jobs -> BOOLEAN]
    BY DEF Rows, Types, Closed
  <2>2. DesignStatus(wf, row, Closed(j)) \in DesignStates
    BY <2>1, Derived DEF Rows, Types
  <2>3. [design EXCEPT !.status = DesignStatus(wf, row, Closed(j))] \in DesignRow
    BY <2>2, DesignWrite
  <2>4. [design EXCEPT !.status = "active"] \in DesignRow
    BY DesignWrite DEF DesignStates, Statuses
  <2> QED
    BY <2>3, <2>4 DEF CloseWork, GoesWrong, Redone, RequestChanges, DesignIs, Rows, Types
<1>6. trouble' \in SUBSET Kinds
  BY Misfortune DEF CloseWork, GoesWrong, Redone, RequestChanges, Rows, Types
<1> QED
  BY <1>1, <1>3, <1>4, <1>5, <1>6 DEF CloseWork, GoesWrong, Redone, RequestChanges, Rows, Types, Recorded

LEMMA PeopleRows ==
  ASSUME Rows, \/ \E f \in Features : Approve(f) \/ Approved(f) \/ SyncRow(f) \/ PauseStale(f)
               \/ \E j \in Jobs : PauseWorkflow(j) \/ ResumeWorkflow(j)
  PROVE  Rows'
<1>a. \A s \in {"completed", "active"}, f \in Features : WriteRow(f, s) => row' \in [Features -> RowStates]
  BY RowsOf, States DEF WriteRow
<1>b. \A j \in Jobs : /\ SetWf(j, "active", Nobody) \in [Jobs -> WfRow]
                     /\ SetWf(j, "completed", Nobody) \in [Jobs -> WfRow]
                     /\ SetWf(j, "paused", "user") \in [Jobs -> WfRow]
  BY WfWrite DEF Pausers, WfStates, Statuses
<1>1. ASSUME NEW f \in Features, Approve(f) \/ Approved(f) PROVE Rows'
  <2>1. wf' \in [Jobs -> WfRow] /\ row' \in [Features -> RowStates]
    BY <1>1, <1>a, <1>b, TheJobs DEF Approve, Approved, Rows, Types
  <2>2. approved' \in [Features -> BOOLEAN] /\ signing' \in SUBSET Features
    BY <1>1 DEF Approve, Approved, Rows, Types
  <2> QED
    BY <1>1, <2>1, <2>2 DEF Approve, Approved, Rows, Types, Recorded
<1>2. ASSUME NEW f \in Features, SyncRow(f) PROVE Rows'
  BY <1>2, <1>a DEF SyncRow, Rows, Types, Recorded
<1>3. ASSUME NEW f \in Features, PauseStale(f) PROVE Rows'
  BY <1>3, ForReviewRows DEF PauseStale, Rows, Types, Recorded
<1>4. ASSUME NEW j \in Jobs, PauseWorkflow(j) \/ ResumeWorkflow(j) PROVE Rows'
  <2>1. wf' \in [Jobs -> WfRow] /\ row' \in [Features -> RowStates]
    BY <1>4, <1>b, RowsOf DEF PauseWorkflow, ResumeWorkflow
  <2>2. trouble' \in SUBSET Kinds
    BY <1>4, Misfortune DEF PauseWorkflow, ResumeWorkflow
  <2> QED
    BY <1>4, <2>1, <2>2 DEF PauseWorkflow, ResumeWorkflow, Rows, Types, Recorded
<1> QED
  BY <1>1, <1>2, <1>3, <1>4

LEMMA ProjectRows ==
  ASSUME Rows, \/ ApprovePlan \/ Stop \/ StopWorkflows \/ Start
               \/ SyncDesign \/ RecoverDesign \/ Poll \/ Crash
  PROVE  Rows'
<1>a. \A whom \in Pausers : PauseAll(whom) => wf' \in [Jobs -> WfRow] /\ row' \in [Features -> RowStates]
  BY RowsOf DEF PauseAll, Rows, Types, WfRow, WfStates, Statuses
<1>1. CASE ApprovePlan
  <2>1. SetWf(Architect, "active", Nobody) \in [Jobs -> WfRow]
    BY WfWrite DEF Pausers, WfStates, Statuses
  <2>2. [design EXCEPT !.status = "active"] \in DesignRow
    BY DesignWrite DEF DesignStates, Statuses
  <2>3. design' \in DesignRow /\ row' \in [Features -> RowStates]
    BY <1>1, <2>2, Records DEF ApprovePlan, DesignIs, Rows, Types
  <2> QED
    BY <1>1, <2>1, <2>3 DEF ApprovePlan, Rows, Types, Recorded
<1>2. CASE Stop
  BY <1>2, Misfortune DEF Stop, Rows, Types, Recorded
<1>3. CASE StopWorkflows
  <2>1. wf' \in [Jobs -> WfRow] /\ row' \in [Features -> RowStates]
    BY <1>3, <1>a DEF StopWorkflows, Pausers
  <2> QED
    BY <1>3, <2>1 DEF StopWorkflows, Rows, Types, Recorded
<1>4. CASE Start
  <2>1. wf' \in [Jobs -> WfRow]
    BY <1>4 DEF Start, Rows, Types, WfRow, WfStates, Statuses, Pausers
  <2>2. row' \in [Features -> RowStates]
    BY <1>4, RowsOf DEF Start
  <2>3. walk' \in WalkRow /\ walk'.at = "scan"
    BY <1>4, IdleRun DEF Start, Rows, Types, Off
  <2> QED
    BY <1>4, <2>1, <2>2, <2>3 DEF Start, Rows, Types, Recorded
<1>5. CASE SyncDesign
  <2>1. [design EXCEPT !.status = DesignStatus(wf, row, closed)] \in DesignRow
    BY Derived, DesignWrite DEF Rows, Types
  <2> QED
    BY <1>5, <2>1 DEF SyncDesign, DesignIs, Rows, Types, Recorded
<1>6. CASE RecoverDesign
  <2>1. [design EXCEPT !.status = "failed"] \in DesignRow
    BY DesignWrite DEF DesignStates, Statuses
  <2>2. design.retries # MaxRetries => [design EXCEPT !.status = "pending", !.retries = @ + 1] \in DesignRow
    <3>1. design.retries # MaxRetries => design.retries < MaxRetries
      <4>1. design.retries \in 0..MaxRetries
        BY DesignWrite
      <4> QED
        BY <4>1, Constants
    <3> QED
      BY <3>1, DesignWrite DEF DesignStates
  <2> QED
    BY <1>6, <2>1, <2>2 DEF RecoverDesign, Rows, Types, Recorded
<1>7. CASE Poll
  <2> DEFINE flow == [j \in Jobs |-> IF wf[j].status = "active" /\ closed[j]
                                    THEN [wf[j] EXCEPT !.status = "completed"] ELSE wf[j]]
             rows == [f \in Features |-> IF Made THEN FeatureStatus(f, flow, row, closed) ELSE None]
  <2>1. flow \in [Jobs -> WfRow]
    BY DEF Rows, Types, WfRow, WfStates, Statuses
  <2>2. rows \in [Features -> RowStates]
    <3>1. \A f \in Features : FeatureStatus(f, flow, row, closed) \in RowStates
      BY <2>1, Derived DEF Rows, Types
    <3> QED
      BY <3>1, States
  <2>3. [design EXCEPT !.status = DesignStatus(flow, rows, closed)] \in DesignRow
    <3>1. DesignStatus(flow, rows, closed) \in DesignStates
      BY <2>1, <2>2, Derived DEF Rows, Types
    <3> QED
      BY <3>1, DesignWrite
  <2> HIDE DEF flow, rows
  <2>4. wf' = flow /\ row' = rows /\ design' = [design EXCEPT !.status = DesignStatus(flow, rows, closed)]
    BY <1>7 DEF Poll, DesignIs, flow, rows
  <2> QED
    BY <1>7, <2>1, <2>2, <2>3, <2>4 DEF Poll, Rows, Types, Recorded
<1>8. CASE Crash
  BY <1>8, Misfortune, IdleRun DEF Crash, Rows, Types, Recorded, Off
<1> QED
  BY <1>1, <1>2, <1>3, <1>4, <1>5, <1>6, <1>7, <1>8

LEMMA RowsKept == ASSUME Rows, [Next]_vars PROVE Rows'
<1>1. CASE UNCHANGED vars
  BY <1>1 DEF vars, Rows, Types, Recorded
<1> QED
  BY <1>1, WalkRows, ThreadRows, FeatureThreadRows, WorkRows, PeopleRows, ProjectRows, TheJobs
  DEF Next, FeatureThread, Click

LEMMA RowsStart == Init => Rows
<1> SUFFICES ASSUME Init PROVE Rows
  OBVIOUS
<1>1. design \in DesignRow
  BY Constants DEF Init, DesignRow, DesignStates
<1>2. [status |-> None, by |-> Nobody] \in WfRow
  BY DEF WfRow, WfStates, Pausers
<1>3. walk \in WalkRow /\ walk.at = "scan"
  BY DEF Init, Off, WalkRow, WalkAt
<1> QED
  BY <1>1, <1>2, <1>3, IdleRun, States DEF Init, Rows, Types, Recorded, Off

\* Every variable keeps its type, the retries of a design among them, which stay
\* within MAX_DESIGN_RETRIES.  The walk must have an outcome when it comes to
\* record one (Recorded): the design's status becomes that.
THEOREM TypeCorrect == Spec => []TypeOK
BY RowsStart, RowsKept, RowsType, PTL DEF Spec

-----------------------------------------------------------------------------
(* Built on approved ground: the invariant.                               *)

\* Reviews are on, no button has been pressed, and at most one kind of trouble
\* has come: the circumstances BuiltOnApproved is about.
Calm  == ReviewMode /\ Cardinality(trouble) < 2 /\ "click" \notin trouble
Quiet == trouble \subseteq {"fault"}

\* The feature's thread looks at the workflow; a feature nobody vouches for.
Looking(f) == run[f].at \in {"read", "decide"}
Loose(f)   == closed[f] /\ ~approved[f] /\ wf[f].by # "review"

Signed == \A f \in signing : approved[f]

\* No thread runs unless the walk is among its features; the walk is off, and a
\* stop is asked for, after trouble of another kind than a fault.
Rest == /\ walk.at \notin {"dispatch", "collect"} => \A f \in Features : run[f].at = "idle"
        /\ walk.at = "off" => ~Quiet
        /\ Stopping => "stop" \in trouble

\* The members of a group begin and are put away together.
Grouped == \A f, g \in Features : Together(f, g) => (run[f].at = "idle" <=> run[g].at = "idle")

\* What the rows of a feature say of its phases.
Holding(f) ==
  /\ wf[f].by # Nobody => wf[f].status = "paused"
  /\ wf[f].by = "review" => closed[f]
  /\ closed[f] => wf[f].status \notin {"failed", None}
  /\ wf[f].status = "completed" => closed[f]
  /\ row[f] = "completed" => closed[f]

\* What a thread knows at each of its points.
Through(f) ==
  /\ run[f].at \in {"wait", "gate", "regate"} => closed[f]
  /\ run[f].at = "finish" /\ run[f].result = "completed" => closed[f]
  /\ run[f].at = "decide" /\ run[f].saw = "completed" => closed[f]
  /\ run[f].at = "decide" => run[f].saw # None
  /\ Looking(f) => wf[f].status # None

\* A feature that is loose is still to be seen closed by its thread,
Bound(f) == Loose(f) => /\ "fault" \in trouble
                        /\ Looking(f) \/ (run[f].at = "finish" /\ run[f].result = "completed")

\* which has not seen anything else, for the workflow is left alone meanwhile.
Going(f) == Quiet =>
  /\ wf[f].status = "active" /\ ~closed[f] => Looking(f)
  /\ Loose(f) /\ Looking(f) => wf[f].status \in {"active", "completed"}
  /\ run[f].at = "decide" /\ run[f].saw \in {"paused", "failed"} =>
       approved[f] \/ wf[f].by = "review" \/ (wf[f].status \in {"paused", "failed"} /\ ~closed[f])

Good(f) == Holding(f) /\ Through(f) /\ Bound(f) /\ Going(f)

\* What a thread that is about to launch has found of the features it is built on.
Behind(f) ==
  /\ run[f].at = "begin" => \A g \in DependsOn[f] : run[g].at = "resolved" /\ (row[g] = "completed" => approved[g])
  /\ run[f].at = "launch" => \A g \in DependsOn[f] : approved[g]

Sound == Signed /\ Rest /\ Grouped /\ \A f \in Features : Good(f) /\ Behind(f)
Inv   == Rows /\ (Calm => Sound)

\* What a step does to a feature it is not about.
Frame(f) == /\ wf'[f] = wf[f] /\ closed'[f] = closed[f] /\ approved'[f] = approved[f] /\ run'[f] = run[f]
            /\ row'[f] = "completed" => row[f] = "completed"

\* What must be true of every feature for the features built on it: an approval
\* stays, a feature that is over is completed by an approval only, and whoever
\* comes to launch it has found what it depends on approved.
Same(f) == /\ approved[f] => approved'[f]
           /\ run'[f].at = "idle" <=> run[f].at = "idle"
           /\ run[f].at = "resolved" => /\ run'[f].at = "resolved"
                                        /\ row'[f] = "completed" => row[f] = "completed" \/ approved'[f]
           /\ run'[f].at = "begin" => run[f].at = "begin"
           /\ run'[f].at = "launch" => run[f].at = "launch" \/ \A g \in DependsOn[f] : approved[g]
           /\ wf[f].status = None => wf'[f].status = None \/ run[f].at = "launch"

\* A step between calm states, and what it may rely on.
Context == /\ Rows /\ Rows' /\ Calm /\ Calm' /\ Sound /\ trouble \subseteq trouble'
           /\ \A what : Trouble(what) => trouble = {} /\ trouble' = {what}
           /\ "fault" \in trouble => trouble = {"fault"}

LEMMA KindsFinite == \A T \in SUBSET Kinds : IsFiniteSet(T)
<1>1. IsFiniteSet({"fault"})
  BY FS_Singleton
<1>2. IsFiniteSet({"fault"} \union {"stop"})
  BY <1>1, FS_AddElement
<1>3. IsFiniteSet({"fault"} \union {"stop"} \union {"crash"})
  BY <1>2, FS_AddElement
<1>4. IsFiniteSet({"fault"} \union {"stop"} \union {"crash"} \union {"click"})
  BY <1>3, FS_AddElement
<1>5. Kinds = {"fault"} \union {"stop"} \union {"crash"} \union {"click"}
  BY DEF Kinds
<1> QED
  BY <1>4, <1>5, FS_Subset

\* Two kinds of trouble are one too many.
LEMMA Few == ASSUME NEW T \in SUBSET Kinds, Cardinality(T) < 2, NEW x \in T, NEW y \in T PROVE x = y
<1>1. IsFiniteSet(T)
  BY KindsFinite
<1>2. ASSUME x # y PROVE FALSE
  <2>1. Cardinality({x}) = 1 /\ IsFiniteSet({x})
    BY FS_Singleton
  <2>2. Cardinality({x} \union {y}) = 2
    BY <1>2, <2>1, FS_AddElement
  <2>3. {x} \union {y} \subseteq T
    OBVIOUS
  <2>4. Cardinality({x} \union {y}) <= Cardinality(T)
    BY <1>1, <2>3, FS_Subset
  <2>5. Cardinality(T) \in Nat
    BY <1>1, FS_CardinalityType
  <2> QED
    BY <2>2, <2>4, <2>5
<1> QED
  BY <1>2

\* The steps that are trouble; the others leave the record of it alone.
LEMMA Troubled ==
  ASSUME [Next]_vars
  PROVE  \/ trouble' = trouble
         \/ ForgetCurrent \/ Stop \/ Crash
         \/ \E j \in Jobs : LaunchFails(j) \/ GivesUp(j) \/ GoesWrong(j)
                           \/ RequestChanges(j) \/ PauseWorkflow(j) \/ ResumeWorkflow(j)
<1>1. CASE Walk
  BY <1>1 DEF Walk, AbandonCurrent, Pick, Phase0, Resign, Harvest, Signoff, Dispatch, Collect, Aggregate, Persist, Shutdown
<1>2. ASSUME NEW j \in Jobs, Thread(j) \/ CloseWork(j) \/ Redone(j) PROVE trouble' = trouble
  BY <1>2 DEF Thread, Launch, Read, Decide, CloseWork, Redone
<1>3. ASSUME NEW f \in Features, Begin(f) \/ Finish(f) \/ Wait(f) \/ Gate(f) \/ Approve(f) \/ Approved(f)
                                 \/ SyncRow(f) \/ PauseStale(f)
      PROVE  trouble' = trouble
  BY <1>3 DEF Begin, Finish, Wait, Gate, Approve, Approved, SyncRow, PauseStale
<1>4. CASE ApprovePlan \/ StopWorkflows \/ Start \/ SyncDesign \/ RecoverDesign \/ Poll
  BY <1>4 DEF ApprovePlan, StopWorkflows, Start, SyncDesign, RecoverDesign, Poll
<1>5. CASE UNCHANGED vars
  BY <1>5 DEF vars
<1> QED
  BY <1>1, <1>2, <1>3, <1>4, <1>5, TheJobs DEF Next, FeatureThread, Click

LEMMA Grows == ASSUME Rows, [Next]_vars PROVE trouble \subseteq trouble'
BY Troubled DEF Trouble, ForgetCurrent, Stop, Crash, LaunchFails, GivesUp, GoesWrong, RequestChanges, PauseWorkflow,
                ResumeWorkflow

LEMMA Calmer == ASSUME Inv, [Next]_vars, Calm' PROVE Context
<1>1. Rows /\ Rows' /\ trouble \subseteq trouble'
  BY RowsKept, Grows DEF Inv
<1>2. Calm
  <2>1. IsFiniteSet(trouble')
    BY <1>1, KindsFinite DEF Rows, Types
  <2>2. Cardinality(trouble) <= Cardinality(trouble') /\ IsFiniteSet(trouble)
    BY <1>1, <2>1, FS_Subset
  <2>3. Cardinality(trouble) \in Nat /\ Cardinality(trouble') \in Nat
    BY <2>1, <2>2, FS_CardinalityType
  <2> QED
    BY <1>1, <2>2, <2>3 DEF Calm
<1>3. \A x, y \in trouble : x = y
  BY <1>1, <1>2, Few DEF Rows, Types, Calm
<1>4. \A x, y \in trouble' : x = y
  BY <1>1, Few DEF Rows, Types, Calm
<1>5. \A what : Trouble(what) => trouble = {} /\ trouble' = {what}
  BY <1>4 DEF Trouble
<1> QED
  BY <1>1, <1>2, <1>3, <1>5 DEF Inv, Context

\* Only a fault sets a feature loose.
LEMMA Unloosed == ASSUME Context, trouble = {} \/ ~Quiet \/ Stopping, NEW f \in Features
                  PROVE  ~Loose(f)
<1>1. Stopping => "stop" \in trouble
  BY DEF Context, Sound, Rest
<1>2. "fault" \notin trouble
  BY <1>1 DEF Context, Quiet
<1> QED
  BY <1>2 DEF Context, Sound, Good, Bound

LEMMA Framed == ASSUME Context, NEW f \in Features, Frame(f) PROVE Good(f)' /\ Same(f)
<1>1. Good(f)
  BY DEF Context, Sound
<1>2. Quiet' => Quiet
  BY DEF Context, Quiet
<1>3. Looking(f)' = Looking(f) /\ Loose(f)' = Loose(f)
  BY DEF Frame, Looking, Loose
<1>4. trouble \subseteq trouble'
  BY DEF Context
<1>5. Holding(f)' /\ Through(f)' /\ Bound(f)' /\ Going(f)'
  BY <1>1, <1>2, <1>3, <1>4 DEF Frame, Good, Holding, Through, Bound, Going
<1> QED
  BY <1>5 DEF Good, Frame, Same
-----------------------------------------------------------------------------
(* What the pieces of the steps write.                                    *)

LEMMA ToEffect ==
  ASSUME Rows, NEW j \in Jobs, NEW at, To(j, at)
  PROVE  /\ run'[j].at = at /\ run'[j].saw = None /\ run'[j].result = run[j].result
         /\ \A i \in Jobs : i # j => run'[i] = run[i]
BY DEF To, Rows, Types, RunRow

LEMMA OverEffect ==
  ASSUME Rows, NEW j \in Jobs, NEW what, Over(j, what)
  PROVE  /\ run'[j].at = "over" /\ run'[j].result = what
         /\ \A i \in Jobs : i # j => run'[i] = run[i]
BY DEF Over, Rows, Types, RunRow

LEMMA SetWfEffect ==
  ASSUME Rows, NEW j \in Jobs, NEW status, NEW by
  PROVE  /\ SetWf(j, status, by)[j].status = status /\ SetWf(j, status, by)[j].by = by
         /\ \A i \in Jobs : i # j => SetWf(j, status, by)[i] = wf[i]
BY DEF SetWf, Rows, Types

LEMMA RowEffect ==
  ASSUME Rows, NEW f \in Features
  PROVE  /\ \A js : PausedRows(row, js)[f] = "completed" => row[f] = "completed"
         /\ \A js : ResumedRows(row, js)[f] = "completed" => row[f] = "completed"
         /\ \A g, s : [row EXCEPT ![g] = s][f] = IF f = g THEN s ELSE row[f]
         /\ CreateRecords => (row'[f] = "completed" => row[f] = "completed")
BY DEF PausedRows, ResumedRows, CreateRecords, Rows, Types

LEMMA EndsEffect ==
  ASSUME Rows, NEW f \in Features, NEW what, Ends(f, what)
  PROVE  /\ run'[f].at = "finish" /\ run'[f].saw = None /\ run'[f].result = what
         /\ \A i \in Jobs : i # f => run'[i] = run[i] /\ wf'[i] = wf[i]
         /\ IF wf[f].status = "active" THEN wf'[f].status = "paused" /\ wf'[f].by = "system" ELSE wf'[f] = wf[f]
         /\ \A g \in Features : row'[g] = "completed" => row[g] = "completed"
<1>1. f \in Jobs /\ f # Architect
  BY TheJobs
<1>2. run'[f].at = "finish" /\ run'[f].saw = None /\ run'[f].result = what
  BY <1>1 DEF Ends, Rows, Types
<1>3. \A i \in Jobs : i # f => run'[i] = run[i]
  BY DEF Ends, Rows, Types
<1>4. /\ wf[f].status = "active" => wf'[f].status = "paused" /\ wf'[f].by = "system"
      /\ wf[f].status # "active" => wf'[f] = wf[f]
      /\ \A i \in Jobs : i # f => wf'[i] = wf[i]
  BY <1>1, SetWfEffect DEF Ends
<1>5. \A g \in Features : row'[g] = "completed" => row[g] = "completed"
  BY RowEffect DEF Ends
<1> QED
  BY <1>2, <1>3, <1>4, <1>5

LEMMA ArchitectEnds ==
  ASSUME Rows, NEW what, Ends(Architect, what), NEW f \in Features
  PROVE  run'[f] = run[f] /\ wf'[f] = wf[f] /\ (row'[f] = "completed" => row[f] = "completed")
<1>1. f \in Jobs /\ f # Architect /\ Architect \in Jobs
  BY TheJobs
<1>2. run'[f] = run[f]
  BY <1>1 DEF Ends, Rows, Types
<1>3. wf'[f] = wf[f]
  BY <1>1, SetWfEffect DEF Ends
<1> QED
  BY <1>2, <1>3, RowEffect DEF Ends

LEMMA ForReviewEffect ==
  ASSUME Rows, NEW f \in Features, ForReview(f)
  PROVE  /\ IF NeedsReview(f) THEN wf'[f].status = "paused" /\ wf'[f].by = "review" ELSE wf'[f] = wf[f]
         /\ \A i \in Jobs : i # f => wf'[i] = wf[i]
         /\ \A g \in Features : row'[g] = "completed" => row[g] = "completed"
<1>1. f \in Jobs
  BY TheJobs
<1>2. \A i \in Jobs : i # f => wf'[i] = wf[i]
  BY <1>1, SetWfEffect DEF ForReview
<1>3. IF NeedsReview(f) THEN wf'[f].status = "paused" /\ wf'[f].by = "review" ELSE wf'[f] = wf[f]
  BY <1>1, SetWfEffect DEF ForReview
<1>4. \A g \in Features : row'[g] = "completed" => row[g] = "completed"
  <2>1. \A g \in Features : [row EXCEPT ![f] = "paused"][g] = "completed" => row[g] = "completed"
    BY RowEffect
  <2> QED
    BY <2>1 DEF ForReview, WriteRow
<1> QED
  BY <1>2, <1>3, <1>4

LEMMA PauseAllEffect ==
  ASSUME Rows, NEW whom, PauseAll(whom), NEW f \in Features
  PROVE  /\ IF wf[f].status = "active" THEN wf'[f].status = "paused" /\ wf'[f].by = whom ELSE wf'[f] = wf[f]
         /\ row'[f] = "completed" => row[f] = "completed"
<1>1. f \in Jobs
  BY TheJobs
<1>2. IF wf[f].status = "active" THEN wf'[f].status = "paused" /\ wf'[f].by = whom ELSE wf'[f] = wf[f]
  BY <1>1 DEF PauseAll
<1> QED
  BY <1>2, RowEffect DEF PauseAll

-----------------------------------------------------------------------------
(* The walk.  A step that is about the queue or the architect leaves the  *)
(* features be.                                                           *)

Kept == Signed' /\ Rest' /\ \A f \in Features : Good(f)' /\ Same(f)

LEMMA Framing ==
  ASSUME Context, \A f \in Features : Frame(f), signing' = signing, stop' = stop,
         walk'.at = walk.at \/ walk'.at \in {"dispatch", "collect"}
                            \/ (walk.at \notin {"off", "dispatch", "collect"} /\ walk'.at # "off")
  PROVE  Kept
<1>1. \A f \in Features : Good(f)' /\ Same(f)
  BY Framed
<1>2. Signed'
  <2>1. signing \subseteq Features /\ \A f \in signing : approved[f]
    BY DEF Context, Rows, Types, Sound, Signed
  <2> QED
    BY <2>1 DEF Frame, Signed
<1>3. Rest'
  BY DEF Context, Sound, Rest, Frame, Stopping, Quiet
<1> QED
  BY <1>1, <1>2, <1>3 DEF Kept

LEMMA WalkKept ==
  ASSUME Context, AbandonCurrent \/ Pick \/ Phase0 \/ Resign \/ Harvest \/ Signoff \/ Persist
  PROVE  Kept
<1>0. /\ Rows /\ Architect \in Jobs /\ \A f \in Features : f \in Jobs /\ f # Architect
      /\ walk \in WalkRow /\ wf \in [Jobs -> WfRow] /\ run \in [Jobs -> RunRow]
  BY TheJobs DEF Context, Rows, Types
<1>1. UNCHANGED <<closed, approved, signing, stop, trouble>>
  BY DEF AbandonCurrent, Pick, Phase0, Resign, Harvest, Signoff, Persist
<1>2. \A f \in Features : run'[f] = run[f]
  BY <1>0 DEF AbandonCurrent, Pick, Phase0, Resign, Harvest, Signoff, Persist, FromFolder, Decompose
<1>3. \A f \in Features : wf'[f] = wf[f]
  <2>1. \A s, by : \A f \in Features : SetWf(Architect, s, by)[f] = wf[f]
    BY <1>0, SetWfEffect
  <2> QED
    BY <1>0, <2>1 DEF AbandonCurrent, Pick, Phase0, Resign, Harvest, Signoff, Persist
<1>4. \A f \in Features : row'[f] = "completed" => row[f] = "completed"
  BY <1>0, RowEffect DEF AbandonCurrent, Pick, Phase0, Resign, Harvest, Signoff, Persist, FromFolder, Decompose
<1>5. walk.at \notin {"off", "dispatch", "collect"} /\ walk'.at # "off"
  BY <1>0 DEF AbandonCurrent, Pick, Phase0, Resign, Harvest, Signoff, Persist, FromFolder, Decompose, WalkTo, Abort,
              WalkRow
<1> QED
  BY <1>1, <1>2, <1>3, <1>4, <1>5, Framing DEF Frame

\* After a stop nothing is loose, so a pause loses sight of nothing.
LEMMA PausingKept ==
  ASSUME Context, NEW whom \in {"system", "user"}, PauseAll(whom), Stopping, NEW f \in Features,
         UNCHANGED <<closed, approved, run, trouble>>
  PROVE  Good(f)' /\ Same(f)
<1>1. /\ Rows /\ Good(f) /\ ~Loose(f) /\ ~Quiet
  <2>1. ~Quiet
    BY DEF Context, Sound, Rest, Quiet
  <2> QED
    BY <2>1, Unloosed DEF Context, Sound
<1>2. /\ IF wf[f].status = "active" THEN wf'[f].status = "paused" /\ wf'[f].by = whom ELSE wf'[f] = wf[f]
      /\ row'[f] = "completed" => row[f] = "completed"
  BY <1>1, PauseAllEffect
<1>3. Holding(f)'
  BY <1>1, <1>2 DEF Good, Holding, None
<1>4. ~Loose(f)'
  BY <1>1, <1>2 DEF Good, Holding, Loose, Nobody
<1>5. Through(f)'
  BY <1>1, <1>2 DEF Good, Through, Looking, None
<1>6. ~Quiet'
  BY <1>1 DEF Quiet
<1> QED
  BY <1>2, <1>3, <1>4, <1>5, <1>6 DEF Good, Bound, Going, Same, None

LEMMA ShutdownKept == ASSUME Context, Shutdown \/ StopWorkflows PROVE Kept
<1>1. Stopping /\ UNCHANGED <<closed, approved, run, trouble, signing>>
  BY DEF Shutdown, StopWorkflows, Stopping
<1>2. \A f \in Features : Good(f)' /\ Same(f)
  BY <1>1, PausingKept DEF Shutdown, StopWorkflows
<1>3. Signed'
  BY <1>1 DEF Context, Sound, Signed
<1>4. Rest'
  BY <1>1 DEF Shutdown, StopWorkflows, Context, Sound, Rest, Stopping, Quiet, Off
<1> QED
  BY <1>2, <1>3, <1>4 DEF Kept

LEMMA CollectKept == ASSUME Context, Collect PROVE Kept
<1> USE DEF Context
<1>0. /\ run \in [Jobs -> RunRow] /\ \A f \in Features : f \in Jobs
      /\ walk \in WalkRow
  BY TheJobs DEF Rows, Types
<1>1. UNCHANGED <<row, wf, closed, approved, signing, stop, trouble>> /\ walk.at = "collect"
      /\ walk'.at \in {"dispatch", "collect"}
  BY <1>0 DEF Collect, WalkTo, WalkRow
<1>2. ASSUME NEW f \in Features PROVE Good(f)' /\ Same(f)
  <2>1. CASE run[f].at = "over"
    <3>1. run'[f].at = "resolved" /\ run'[f].result = run[f].result /\ run'[f].saw = run[f].saw
      BY <1>0, <2>1 DEF Collect, RunRow
    <3>2. Good(f)
      BY DEF Sound
    <3> QED
      BY <1>1, <2>1, <3>1, <3>2 DEF Good, Holding, Through, Bound, Going, Loose, Looking, Quiet, Same
  <2>2. CASE run[f].at # "over"
    <3>1. run'[f] = run[f]
      BY <1>0, <2>2 DEF Collect
    <3> QED
      BY <1>1, <3>1, Framed DEF Frame
  <2> QED
    BY <2>1, <2>2
<1>3. Signed' /\ Rest'
  BY <1>1 DEF Sound, Signed, Rest, Stopping, Quiet
<1> QED
  BY <1>2, <1>3 DEF Kept

-----------------------------------------------------------------------------
(* The threads of the features.                                           *)

LEMMA OthersFramed ==
  ASSUME Context, NEW f \in Features, Good(f)' /\ Same(f), \A g \in Features : g # f => Frame(g),
         signing' \in SUBSET signing, UNCHANGED stop,
         walk'.at = walk.at, run[f].at # "idle" \/ run'[f] = run[f]
  PROVE  Kept
<1>1. \A g \in Features : Good(g)' /\ Same(g)
  BY Framed
<1>2. Signed'
  BY <1>1 DEF Signed, Same, Context, Sound, Rows, Types
<1>3. Rest'
  <2>1. Stopping' => "stop" \in trouble'
    BY DEF Context, Sound, Rest, Stopping
  <2>2. walk'.at = "off" => ~Quiet'
    BY DEF Context, Sound, Rest, Quiet
  <2>3. walk'.at \notin {"dispatch", "collect"} => \A g \in Features : run'[g].at = "idle"
    BY <1>1 DEF Context, Sound, Rest, Same
  <2> QED
    BY <2>1, <2>2, <2>3 DEF Rest
<1> QED
  BY <1>1, <1>2, <1>3 DEF Kept

\* What a leaf about one feature needs of its context.
LEMMA Here ==
  ASSUME Context, NEW f \in Features
  PROVE  /\ Rows /\ Holding(f) /\ Through(f) /\ Bound(f) /\ Going(f) /\ Behind(f)
         /\ f \in Jobs /\ f # Architect /\ \A g \in Features : g \in Jobs
         /\ trouble \subseteq trouble' /\ (Quiet' => Quiet)
         /\ \A g \in DependsOn[f] : g \in Features
         /\ wf[f] \in WfRow /\ run[f] \in RunRow /\ ReviewMode
BY TheJobs, Constants DEF Context, Sound, Good, Rows, Types, Quiet, Calm

LEMMA BeginKept == ASSUME Context, NEW f \in Features, Begin(f) PROVE Kept
<1>1. Rows /\ Good(f) /\ Behind(f) /\ f \in Jobs /\ f # Architect /\ \A g \in Features : g \in Jobs
  BY Here DEF Good
<1>2. /\ run[f].at = "begin" /\ UNCHANGED <<wf, closed, approved, signing, stop, trouble, walk>>
      /\ run'[f].at \in {"over", "launch"}
      /\ run'[f].at = "launch" => \A g \in DependsOn[f] : row[g] = "completed"
      /\ \A i \in Jobs : i # f => run'[i] = run[i]
  BY <1>1, ToEffect, OverEffect DEF Begin
<1>3. /\ row'[f] = "completed" => row[f] = "completed" \/ wf[f].status = "completed"
      /\ \A g \in Features : g # f => row'[g] = row[g]
  BY <1>1 DEF Begin, WriteRow, Rows, Types
<1>4. Good(f)'
  BY <1>1, <1>2, <1>3, Here DEF Good, Holding, Through, Bound, Going, Loose, Looking
<1>5. Same(f)
  BY <1>1, <1>2, <1>3 DEF Behind, Same
<1> QED
  BY <1>1, <1>2, <1>3, <1>4, <1>5, OthersFramed DEF Frame

LEMMA LaunchKept == ASSUME Context, NEW f \in Features, Launch(f) PROVE Kept
<1>1. Rows /\ Good(f) /\ f \in Jobs /\ f # Architect /\ \A g \in Features : g \in Jobs
  BY Here DEF Good
<1>2. /\ run[f].at = "launch" /\ UNCHANGED <<row, approved, signing, stop, trouble>> /\ walk' = walk
      /\ run'[f].at = "read"
      /\ \A i \in Jobs : i # f => run'[i] = run[i]
  BY <1>1, ToEffect DEF Launch
<1>3. /\ wf[f].status = None => wf'[f].status = "active" /\ wf'[f].by = Nobody /\ closed'[f] = FALSE
      /\ wf[f].status = "failed" => wf'[f].status = "active" /\ wf'[f].by = Nobody /\ closed'[f] = closed[f]
      /\ wf[f].status \notin {None, "failed"} => wf'[f] = wf[f] /\ closed'[f] = closed[f]
      /\ \A i \in Jobs : i # f => wf'[i] = wf[i] /\ closed'[i] = closed[i]
  BY <1>1, SetWfEffect DEF Launch, None, Rows, Types
<1>4. Good(f)'
  BY <1>1, <1>2, <1>3, Here DEF Good, Holding, Through, Bound, Going, Loose, Looking, None, Nobody
<1>5. Same(f)
  BY <1>1, <1>2 DEF Same
<1> QED
  BY <1>1, <1>2, <1>3, <1>4, <1>5, OthersFramed DEF Frame

LEMMA LaunchFailsKept == ASSUME Context, NEW f \in Features, LaunchFails(f) PROVE Kept
<1>1. Rows /\ Good(f) /\ f \in Jobs /\ f # Architect /\ \A g \in Features : g \in Jobs
  BY Here DEF Good
<1>2. /\ run[f].at = "launch" /\ UNCHANGED <<wf, closed, approved, signing, stop, walk>>
      /\ run'[f].at = "over"
      /\ \A i \in Jobs : i # f => run'[i] = run[i]
  BY <1>1, OverEffect DEF LaunchFails
<1>3. \A g \in Features : row'[g] = "completed" => row[g] = "completed"
  BY <1>1 DEF LaunchFails, Rows, Types
<1>4. Good(f)'
  BY <1>1, <1>2, <1>3, Here DEF Good, Holding, Through, Bound, Going, Loose, Looking
<1>5. Same(f)
  BY <1>1, <1>2, <1>3 DEF Same
<1> QED
  BY <1>1, <1>2, <1>3, <1>4, <1>5, OthersFramed DEF Frame

\* A run ends as completed with the work closed, and otherwise leaves nothing loose.
LEMMA EndsKept ==
  ASSUME Context, NEW f \in Features, NEW what, Ends(f, what), Looking(f),
         UNCHANGED <<closed, approved, signing, stop>>, walk'.at = walk.at,
         what = "completed" => closed[f], what # "completed" => ~Loose(f)
  PROVE  Kept
<1>1. Rows /\ Good(f) /\ f \in Jobs /\ \A g \in Features : g \in Jobs
  BY Here DEF Good
<1>2. /\ run'[f].at = "finish" /\ run'[f].saw = None /\ run'[f].result = what
      /\ \A i \in Jobs : i # f => run'[i] = run[i] /\ wf'[i] = wf[i]
      /\ IF wf[f].status = "active" THEN wf'[f].status = "paused" /\ wf'[f].by = "system" ELSE wf'[f] = wf[f]
      /\ \A g \in Features : row'[g] = "completed" => row[g] = "completed"
  BY <1>1, EndsEffect
<1>3. Loose(f)' = Loose(f) /\ ~Looking(f)'
  BY <1>1, <1>2 DEF Loose, Looking, Good, Holding, Nobody
<1>4. Good(f)'
  BY <1>1, <1>2, <1>3, Here DEF Good, Holding, Through, Bound, Going, None, Nobody
<1>5. Same(f)
  BY <1>1, <1>2 DEF Same, Looking, Good, Through
<1> QED
  BY <1>1, <1>2, <1>4, <1>5, OthersFramed DEF Frame, Looking

LEMMA ReadKept == ASSUME Context, NEW f \in Features, Read(f) PROVE Kept
<1>1. Rows /\ Good(f) /\ f \in Jobs /\ f # Architect /\ \A g \in Features : g \in Jobs
  BY Here DEF Good
<1>2. UNCHANGED <<closed, approved, walk, signing, stop, trouble>> /\ run[f].at = "read"
  BY DEF Read
<1>3. CASE Stopping
  BY <1>2, <1>3, Unloosed, EndsKept DEF Read, Looking
<1>4. CASE ~Stopping
  <2>1. /\ UNCHANGED <<row, wf>> /\ run'[f].at = "decide" /\ run'[f].saw = wf[f].status
        /\ \A i \in Jobs : i # f => run'[i] = run[i]
    BY <1>1, <1>4 DEF Read, Rows, Types, RunRow
  <2>2. Good(f)'
    BY <1>1, <1>2, <2>1, Here DEF Good, Holding, Through, Bound, Going, Loose, Looking
  <2>3. Same(f)
    BY <1>2, <2>1 DEF Same
  <2> QED
    BY <1>1, <1>2, <2>1, <2>2, <2>3, OthersFramed DEF Frame
<1> QED
  BY <1>3, <1>4

LEMMA DecideKept == ASSUME Context, NEW f \in Features, Decide(f) \/ GivesUp(f) PROVE Kept
<1>1. Rows /\ Good(f) /\ f \in Jobs /\ f # Architect /\ \A g \in Features : g \in Jobs
  BY Here DEF Good
<1>2. UNCHANGED <<closed, approved, walk, signing, stop>> /\ run[f].at = "decide" /\ Looking(f)
  BY <1>1 DEF Decide, GivesUp, Looking
<1>3. CASE GivesUp(f)
  <2>1. trouble = {} /\ ~Loose(f)
    BY <1>3, Unloosed DEF GivesUp, Context
  <2> QED
    BY <1>2, <1>3, <2>1, EndsKept DEF GivesUp
<1>4. CASE Decide(f) /\ run[f].saw # "active"
  <2>1. run[f].saw \in {"paused", "completed", "failed"}
    BY <1>1, <1>2, <1>4, Here DEF RunRow, Statuses, Good, Through
  <2>2. run[f].saw = "completed" => closed[f]
    BY <1>1, <1>2 DEF Good, Through
  <2>3. run[f].saw # "completed" => ~Loose(f)
    <3>1. Loose(f) => Quiet
      BY Here DEF Bound, Context, Quiet
    <3> QED
      BY <1>1, <1>2, <2>1, <3>1 DEF Good, Going, Loose
  <2> QED
    BY <1>2, <1>4, <2>2, <2>3, EndsKept DEF Decide
<1>5. CASE Decide(f) /\ run[f].saw = "active" /\ closed[f]
  BY <1>2, <1>5, EndsKept DEF Decide
<1>6. CASE Decide(f) /\ run[f].saw = "active" /\ ~closed[f]
  <2>1. /\ UNCHANGED <<row, wf, trouble>> /\ run'[f].at = "read"
        /\ \A i \in Jobs : i # f => run'[i] = run[i]
    BY <1>1, <1>6, ToEffect DEF Decide
  <2>2. Good(f)'
    BY <1>1, <1>2, <2>1, Here DEF Good, Holding, Through, Bound, Going, Loose, Looking
  <2>3. Same(f)
    BY <1>2, <2>1 DEF Same
  <2> QED
    BY <1>1, <1>2, <2>1, <2>2, <2>3, OthersFramed DEF Frame
<1> QED
  BY <1>3, <1>4, <1>5, <1>6

LEMMA FinishKept == ASSUME Context, NEW f \in Features, Finish(f) \/ Gate(f) \/ Wait(f) PROVE Kept
<1>1. Rows /\ Good(f) /\ f \in Jobs /\ f # Architect /\ \A g \in Features : g \in Jobs
  BY Here DEF Good
<1>2. /\ UNCHANGED <<closed, approved, walk, signing, stop, trouble>>
      /\ run[f].at \in {"finish", "wait", "gate", "regate"}
  BY DEF Finish, Gate, Wait
<1>3. /\ run'[f].at \in {"wait", "gate", "regate", "over"}
      /\ run'[f].at # "over" => closed[f]
      /\ \A i \in Jobs : i # f => run'[i] = run[i]
  BY <1>1, ToEffect DEF Finish, Gate, Wait, Good, Through
<1>4. /\ wf'[f] = wf[f] \/ (wf'[f].status = "paused" /\ wf'[f].by = "review" /\ closed[f])
      /\ \A i \in Jobs : i # f => wf'[i] = wf[i]
  BY <1>1, ForReviewEffect DEF Finish, Gate, Wait, Good, Through
<1>5. /\ row'[f] = "completed" => row[f] = "completed" \/ closed[f]
      /\ \A g \in Features : g # f => (row'[g] = "completed" => row[g] = "completed")
  <2>1. \A s \in {"paused", "failed"} : WriteRow(f, s) => \A g \in Features : row'[g] = "completed" => row[g] = "completed"
    BY <1>1 DEF WriteRow, Rows, Types
  <2>2. ForReview(f) => \A g \in Features : row'[g] = "completed" => row[g] = "completed"
    BY <1>1, ForReviewEffect
  <2>3. Wait(f) => closed[f] /\ \A g \in Features : g # f => row'[g] = row[g]
    BY <1>1 DEF Wait, WriteRow, Good, Through, Rows, Types
  <2> QED
    BY <2>1, <2>2, <2>3 DEF Finish, Gate
<1>6. ~Loose(f)'
  <2>1. CASE Finish(f) /\ run[f].result = "completed"
    <3>1. ForReview(f) /\ closed[f]
      BY <1>1, <2>1 DEF Finish, Good, Through
    <3> QED
      BY <1>1, <1>2, <3>1, ForReviewEffect, Here DEF NeedsReview, Loose, Good, Holding
  <2>2. CASE ~(run[f].at = "finish" /\ run[f].result = "completed")
    <3>1. ~Loose(f)
      BY <1>1, <1>2, <2>2 DEF Good, Bound, Looking
    <3> QED
      BY <1>2, <1>4, <3>1 DEF Loose
  <2> QED
    BY <2>1, <2>2 DEF Gate, Wait
<1>7. Good(f)'
  BY <1>1, <1>2, <1>3, <1>4, <1>5, <1>6, Here DEF Good, Holding, Through, Bound, Going, Looking, None, Nobody
<1>8. Same(f)
  BY <1>1, <1>2, <1>3, <1>4, <1>5 DEF Same, Good, Holding
<1> QED
  BY <1>1, <1>2, <1>3, <1>4, <1>5, <1>7, <1>8, OthersFramed DEF Frame

-----------------------------------------------------------------------------
(* The architect's workflow and thread, and what is about the design.     *)

LEMMA ArchitectKept ==
  ASSUME Context,
         \/ Thread(Architect) \/ LaunchFails(Architect) \/ GivesUp(Architect)
         \/ CloseWork(Architect) \/ GoesWrong(Architect) \/ Redone(Architect)
         \/ ApprovePlan \/ SyncDesign \/ RecoverDesign \/ ForgetCurrent
  PROVE  Kept
<1>0. /\ Rows /\ Architect \in Jobs /\ \A f \in Features : f \in Jobs /\ f # Architect
      /\ walk \in WalkRow /\ closed \in [Jobs -> BOOLEAN]
  BY TheJobs DEF Context, Rows, Types
<1>1. UNCHANGED <<approved, signing, stop>> /\ walk'.at = walk.at
  BY <1>0 DEF Thread, Launch, Read, Decide, LaunchFails, GivesUp, CloseWork, GoesWrong, Redone, ApprovePlan, SyncDesign,
              RecoverDesign, ForgetCurrent, WalkRow
<1>2. \A f \in Features : closed'[f] = closed[f]
  BY <1>0 DEF Thread, Launch, Read, Decide, LaunchFails, GivesUp, CloseWork, GoesWrong, Redone, ApprovePlan, SyncDesign,
              RecoverDesign, ForgetCurrent, Closed
<1>a. \A what : Ends(Architect, what) => \A f \in Features : /\ run'[f] = run[f] /\ wf'[f] = wf[f]
                                                             /\ row'[f] = "completed" => row[f] = "completed"
  BY <1>0, ArchitectEnds
<1>b. /\ \A s, by : \A f \in Features : SetWf(Architect, s, by)[f] = wf[f]
      /\ \A at : To(Architect, at) => \A f \in Features : run'[f] = run[f]
      /\ \A what : Over(Architect, what) => \A f \in Features : run'[f] = run[f]
  BY <1>0, SetWfEffect, ToEffect, OverEffect
<1>3. CASE Thread(Architect) \/ LaunchFails(Architect) \/ GivesUp(Architect)
  <2> DEFINE Left == \A f \in Features : /\ run'[f] = run[f] /\ wf'[f] = wf[f]
                                         /\ row'[f] = "completed" => row[f] = "completed"
  <2>1. Launch(Architect) \/ LaunchFails(Architect) => Left
    BY <1>b DEF Launch, LaunchFails
  <2>2. Read(Architect) => Left
    BY <1>0, <1>a DEF Read, Rows, Types
  <2>3. Decide(Architect) => Left
    <3>1. (\E what : Ends(Architect, what)) => Left
      BY <1>a
    <3>2. To(Architect, "read") /\ UNCHANGED <<row, wf>> => Left
      BY <1>b
    <3>3. Decide(Architect) => (\E what : Ends(Architect, what)) \/ (To(Architect, "read") /\ UNCHANGED <<row, wf>>)
      BY DEF Decide
    <3> QED
      BY <3>1, <3>2, <3>3
  <2>4. GivesUp(Architect) => Left
    BY <1>a DEF GivesUp
  <2> QED
    BY <1>1, <1>2, <1>3, <2>1, <2>2, <2>3, <2>4, Framing DEF Frame, Thread
<1>4. CASE CloseWork(Architect) \/ GoesWrong(Architect) \/ Redone(Architect)
  <2>1. \A f \in Features : run'[f] = run[f] /\ wf'[f] = wf[f]
    BY <1>4, <1>b DEF CloseWork, GoesWrong, Redone
  <2>2. \A f \in Features : row'[f] = "completed" => row[f] = "completed"
    BY <1>0, <1>4, RowEffect DEF CloseWork, GoesWrong, Redone
  <2> QED
    BY <1>1, <1>2, <2>1, <2>2, Framing DEF Frame
<1>5. CASE ApprovePlan \/ SyncDesign \/ RecoverDesign \/ ForgetCurrent
  <2>1. \A f \in Features : run'[f] = run[f] /\ wf'[f] = wf[f]
    BY <1>5, <1>b DEF ApprovePlan, SyncDesign, RecoverDesign, ForgetCurrent
  <2>2. \A f \in Features : row'[f] = "completed" => row[f] = "completed"
    BY <1>0, <1>5, RowEffect DEF ApprovePlan, SyncDesign, RecoverDesign, ForgetCurrent
  <2> QED
    BY <1>1, <1>2, <2>1, <2>2, Framing DEF Frame
<1> QED
  BY <1>3, <1>4, <1>5

-----------------------------------------------------------------------------
(* A feature's workflow, its reviewer and the sweep.                      *)

LEMMA CloseWorkKept == ASSUME Context, NEW f \in Features, CloseWork(f) PROVE Kept
<1>1. Rows /\ Good(f) /\ f \in Jobs /\ f # Architect /\ \A g \in Features : g \in Jobs
  BY Here DEF Good
<1>2. /\ UNCHANGED <<approved, walk, signing, stop, trouble, run>>
      /\ wf[f].status = "active" /\ ~closed[f]
      /\ closed'[f] = TRUE /\ \A i \in Jobs : i # f => closed'[i] = closed[i]
  BY <1>1 DEF CloseWork, Closed, Rows, Types
<1>3. /\ \/ wf'[f].status = "paused" /\ wf'[f].by = "review"
         \/ wf'[f].status = "completed" /\ wf'[f].by = Nobody /\ approved[f]
      /\ \A i \in Jobs : i # f => wf'[i] = wf[i]
  BY <1>1, SetWfEffect, Here DEF CloseWork
<1>4. \A g \in Features : row'[g] = "completed" => row[g] = "completed"
  BY <1>1, RowEffect DEF CloseWork
<1>5. Good(f)'
  BY <1>1, <1>2, <1>3, <1>4, Here DEF Good, Holding, Through, Bound, Going, Loose, Looking, None, Nobody
<1>6. Same(f)
  BY <1>2, <1>4 DEF Same, None
<1> QED
  BY <1>1, <1>2, <1>3, <1>4, <1>5, <1>6, OthersFramed DEF Frame

LEMMA GoesWrongKept == ASSUME Context, NEW f \in Features, GoesWrong(f) PROVE Kept
<1>1. Rows /\ Good(f) /\ f \in Jobs /\ f # Architect /\ \A g \in Features : g \in Jobs
  BY Here DEF Good
<1>2. /\ UNCHANGED <<row, approved, walk, signing, stop, run>>
      /\ trouble = {} /\ trouble' = {"fault"}
      /\ wf[f].status = "active" /\ ~closed[f]
  BY DEF GoesWrong, Context
<1>3. /\ \/ wf'[f] = wf[f] /\ closed'[f] = TRUE
         \/ wf'[f].status = "failed" /\ wf'[f].by = Nobody /\ closed'[f] = closed[f]
      /\ \A i \in Jobs : i # f => wf'[i] = wf[i] /\ closed'[i] = closed[i]
  BY <1>1, SetWfEffect DEF GoesWrong, Closed, Rows, Types
<1>4. Good(f)'
  BY <1>1, <1>2, <1>3, Here DEF Good, Holding, Through, Bound, Going, Quiet, Loose, Looking, None, Nobody
<1>5. Same(f)
  BY <1>2 DEF Same, None
<1> QED
  BY <1>1, <1>2, <1>3, <1>4, <1>5, OthersFramed DEF Frame

LEMMA ApproveKept == ASSUME Context, NEW f \in Features, Approve(f) PROVE Kept
<1>1. Rows /\ Good(f) /\ f \in Jobs /\ f # Architect /\ \A g \in Features : g \in Jobs
  BY Here DEF Good
<1>2. /\ UNCHANGED <<closed, walk, stop, trouble, run>> /\ signing' = signing \union {f}
      /\ wf[f].status = "paused" /\ wf[f].by = "review"
      /\ approved'[f] = TRUE /\ \A g \in Features : g # f => approved'[g] = approved[g]
  BY <1>1 DEF Approve, Reviewing, Rows, Types
<1>3. /\ wf'[f].status = "active" /\ wf'[f].by = Nobody
      /\ \A i \in Jobs : i # f => wf'[i] = wf[i]
  BY <1>1, SetWfEffect DEF Approve
<1>4. \A g \in Features : row'[g] = "completed" => row[g] = "completed"
  BY <1>1 DEF Approve, WriteRow, Rows, Types
<1>5. Good(f)'
  BY <1>1, <1>2, <1>3, <1>4, Here DEF Good, Holding, Through, Bound, Going, Loose, Looking, None, Nobody
<1>6. Same(f)
  BY <1>2, <1>4 DEF Same, None
<1>7. \A g \in Features : Good(g)' /\ Same(g)
  BY <1>1, <1>2, <1>3, <1>4, <1>5, <1>6, Framed DEF Frame
<1>8. Signed' /\ Rest'
  BY <1>2, <1>7 DEF Same, Signed, Rest, Stopping, Quiet, Context, Sound, Rows, Types
<1> QED
  BY <1>7, <1>8 DEF Kept

LEMMA ApprovedKept == ASSUME Context, NEW f \in Features, Approved(f) PROVE Kept
<1>1. Rows /\ Good(f) /\ f \in Jobs /\ f # Architect /\ \A g \in Features : g \in Jobs
  BY Here DEF Good
<1>2. /\ UNCHANGED <<closed, approved, walk, stop, trouble, run>> /\ signing' \in SUBSET signing /\ approved[f]
  BY DEF Approved, Context, Sound, Signed
<1>3. /\ \/ wf'[f] = wf[f]
         \/ wf'[f].status = "completed" /\ wf'[f].by = Nobody /\ closed[f]
      /\ \A i \in Jobs : i # f => wf'[i] = wf[i]
  BY <1>1, SetWfEffect DEF Approved
<1>4. /\ row'[f] = "completed" => row[f] = "completed" \/ closed[f]
      /\ \A g \in Features : g # f => row'[g] = row[g]
  BY <1>1 DEF Approved, WriteRow, Rows, Types
<1>5. Good(f)'
  BY <1>1, <1>2, <1>3, <1>4, Here DEF Good, Holding, Through, Bound, Going, Loose, Looking, None, Nobody
<1>6. Same(f)
  BY <1>1, <1>2, <1>3, <1>4 DEF Same, Good, Holding
<1> QED
  BY <1>1, <1>2, <1>3, <1>4, <1>5, <1>6, OthersFramed DEF Frame

LEMMA SweepKept == ASSUME Context, NEW f \in Features, SyncRow(f) \/ PauseStale(f) PROVE Kept
<1>1. Rows /\ Good(f) /\ f \in Jobs /\ f # Architect /\ \A g \in Features : g \in Jobs
  BY Here DEF Good
<1>2. /\ UNCHANGED <<closed, approved, walk, signing, stop, trouble, run>> /\ closed[f]
  BY <1>1 DEF SyncRow, PauseStale, Good, Holding
<1>3. /\ wf'[f] = wf[f] \/ (wf'[f].status = "paused" /\ wf'[f].by = "review")
      /\ \A i \in Jobs : i # f => wf'[i] = wf[i]
  BY <1>1, ForReviewEffect DEF SyncRow, PauseStale
<1>4. \A g \in Features : g # f => (row'[g] = "completed" => row[g] = "completed")
  BY <1>1, ForReviewEffect DEF SyncRow, PauseStale, WriteRow, Rows, Types
<1>5. Good(f)'
  BY <1>1, <1>2, <1>3, <1>4, Here DEF Good, Holding, Through, Bound, Going, Loose, Looking, None, Nobody
<1>6. Same(f)
  <2>1. CASE SyncRow(f)
    <3>1. run[f].at = "resolved" => ~Loose(f) /\ wf[f].by # "review"
      BY <1>1, <2>1 DEF SyncRow, Good, Holding, Bound, Looking, Nobody
    <3> QED
      BY <1>1, <1>2, <1>3, <3>1 DEF Same, Loose, Good, Holding
  <2>2. CASE PauseStale(f)
    <3>1. row'[f] = "completed" => row[f] = "completed"
      BY <1>1, <2>2, ForReviewEffect DEF PauseStale
    <3> QED
      BY <1>1, <1>2, <1>3, <3>1 DEF Same, Good, Holding
  <2> QED
    BY <2>1, <2>2
<1> QED
  BY <1>1, <1>2, <1>3, <1>4, <1>5, <1>6, OthersFramed DEF Frame

\* Work that waits for its review is done, as long as nobody asks for changes.
LEMMA RedoneNever == ASSUME Context, NEW f \in Features, Redone(f) PROVE FALSE
BY Here DEF Redone, Reviewing, Holding

-----------------------------------------------------------------------------
(* A stop, the start after it, a dashboard's request and a crash.         *)

LEMMA StopKept == ASSUME Context, Stop PROVE Kept
<1>1. UNCHANGED <<row, wf, closed, approved, walk, run, signing>> /\ trouble' = {"stop"}
  BY DEF Stop, Context
<1>2. \A f \in Features : Good(f)' /\ Same(f)
  BY <1>1, Framed DEF Frame
<1>3. Signed' /\ Rest'
  BY <1>1 DEF Context, Sound, Signed, Rest, Quiet
<1> QED
  BY <1>2, <1>3 DEF Kept

LEMMA StartKept == ASSUME Context, Start PROVE Kept
<1>1. /\ UNCHANGED <<closed, approved, run, signing, trouble>>
      /\ walk.at = "off" /\ walk'.at = "scan" /\ ~Stopping' /\ ~Quiet
  BY DEF Start, Stopping, Off, Context, Sound, Rest
<1>2. ASSUME NEW f \in Features PROVE Good(f)' /\ Same(f)
  <2>1. Rows /\ Good(f) /\ f \in Jobs /\ ~Loose(f)
    BY <1>1, Here, Unloosed DEF Good
  <2>2. \/ wf'[f] = wf[f]
        \/ wf'[f].status = "active" /\ wf'[f].by = Nobody /\ wf[f].by = "user"
    BY <2>1 DEF Start
  <2>3. row'[f] = "completed" => row[f] = "completed"
    BY <2>1, RowEffect DEF Start
  <2>4. ~Quiet' /\ ~Loose(f)'
    BY <1>1, <2>1, <2>2 DEF Quiet, Loose
  <2>5. Good(f)'
    BY <1>1, <2>1, <2>2, <2>3, <2>4 DEF Good, Holding, Through, Bound, Going, Looking, None, Nobody
  <2> QED
    BY <1>1, <2>1, <2>2, <2>3, <2>5 DEF Same, Good, Holding, None, Nobody
<1>3. Signed' /\ Rest'
  BY <1>1 DEF Context, Sound, Signed, Rest
<1> QED
  BY <1>2, <1>3 DEF Kept

LEMMA PollKept == ASSUME Context, Poll PROVE Kept
<1>1. UNCHANGED <<closed, approved, walk, run, signing, stop, trouble>>
  BY DEF Poll
<1>2. ASSUME NEW f \in Features PROVE Good(f)' /\ Same(f)
  <2> DEFINE flow == [j \in Jobs |-> IF wf[j].status = "active" /\ closed[j]
                                    THEN [wf[j] EXCEPT !.status = "completed"] ELSE wf[j]]
  <2>1. Rows /\ Good(f) /\ f \in Jobs /\ wf[f] \in WfRow
    BY Here DEF Good
  <2>2. wf' = flow
    BY DEF Poll
  <2>3. /\ wf'[f].by = wf[f].by
        /\ wf'[f].status = IF wf[f].status = "active" /\ closed[f] THEN "completed" ELSE wf[f].status
    BY <2>1, <2>2 DEF WfRow
  <2>4. row'[f] = "completed" => wf'[f].status = "completed" \/ row[f] = "completed"
    <3>1. row'[f] = IF Made THEN FeatureStatus(f, flow, row, closed) ELSE None
      BY DEF Poll
    <3>2. FeatureStatus(f, wf', row, closed) = "completed" => wf'[f].status = "completed" \/ row[f] = "completed"
      BY <2>1, <2>3 DEF FeatureStatus
    <3> QED
      BY <2>2, <3>1, <3>2 DEF None
  <2>5. Loose(f)' = Loose(f) /\ Looking(f)' = Looking(f) /\ Quiet' = Quiet
    BY <1>1, <2>3 DEF Loose, Looking, Quiet
  <2>6. Good(f)'
    BY <1>1, <2>1, <2>3, <2>4, <2>5 DEF Good, Holding, Through, Bound, Going, None, Nobody
  <2>7. run[f].at = "resolved" /\ row'[f] = "completed" => approved'[f] \/ row[f] = "completed"
    <3>1. run[f].at = "resolved" => ~Loose(f)
      BY <2>1 DEF Good, Bound, Looking
    <3>2. wf'[f].status = "completed" => closed[f] /\ wf[f].by # "review"
      BY <2>1, <2>3 DEF Good, Holding, Nobody
    <3> QED
      BY <1>1, <2>4, <3>1, <3>2 DEF Loose
  <2> QED
    BY <1>1, <2>3, <2>6, <2>7 DEF Same, None
<1>3. Signed' /\ Rest'
  BY <1>1 DEF Context, Sound, Signed, Rest, Stopping, Quiet
<1> QED
  BY <1>2, <1>3 DEF Kept

\* A feature whose thread is gone, or has not begun.
LEMMA Resting ==
  ASSUME Context, NEW f \in Features, UNCHANGED <<wf, closed, approved, row>>,
         ~Looking(f), ~Loose(f), run'[f].at \in {"idle", "begin"}
  PROVE  Good(f)'
BY Here DEF Good, Holding, Through, Bound, Going, Loose, Looking

LEMMA CrashSound == ASSUME Context, Crash PROVE Sound'
<1>1. /\ UNCHANGED <<row, wf, closed, approved>> /\ signing' = {} /\ trouble = {} /\ trouble' = {"crash"}
      /\ walk'.at = "off" /\ \A f \in Features : run'[f].at = "idle"
  BY Here DEF Crash, Context, Off, Idle
<1>2. ~Stopping'
  BY <1>1 DEF Crash, Stopping, Context, Sound, Rest
<1>3. ASSUME NEW f \in Features PROVE Good(f)'
  BY <1>1, Here, Unloosed DEF Good, Holding, Through, Bound, Going, Loose, Looking, Quiet
<1>4. Signed' /\ Rest' /\ Grouped'
  BY <1>1, <1>2 DEF Signed, Rest, Grouped, Quiet
<1> QED
  BY <1>1, <1>3, <1>4 DEF Sound, Behind

LEMMA AggregateSound == ASSUME Context, Aggregate PROVE Sound'
<1>1. /\ UNCHANGED <<row, wf, closed, approved, signing, stop, trouble>>
      /\ walk'.at \notin {"off", "dispatch", "collect"} /\ \A f \in Features : run'[f].at = "idle"
      /\ \A f \in Features : run[f].at \in {"idle", "resolved"}
  <2>1. walk'.at = "persist"
    BY DEF Aggregate, Context, Rows, Types, WalkRow
  <2> QED
    BY <2>1, TheJobs DEF Aggregate, Idle, InFlight
<1>3. ASSUME NEW f \in Features PROVE Good(f)'
  <2>1. ~Looking(f) /\ ~Loose(f)
    BY <1>1, Here DEF Bound, Looking
  <2> QED
    BY <1>1, <2>1, Resting
<1>4. Signed' /\ Rest' /\ Grouped'
  BY <1>1 DEF Context, Sound, Signed, Rest, Grouped, Quiet, Stopping
<1> QED
  BY <1>1, <1>3, <1>4 DEF Sound, Behind

-----------------------------------------------------------------------------
(* The groups: being in one is an equivalence, and the walk picks one.    *)

LEMMA TogetherEquivalent ==
  ASSUME NEW f \in Features, NEW g \in Features, NEW h \in Features, Together(f, g), Together(g, h)
  PROVE  Together(f, h) /\ Together(g, f)
<1>1. f \in Nat /\ g \in Nat /\ h \in Nat /\ Features \subseteq Nat
  BY Constants
<1>2. Together(g, f)
  BY DEF Together
<1>3. CASE f = g \/ g = h
  BY <1>2, <1>3
<1>4. CASE f # g /\ g # h
  <2>1. Layer[f] = Layer[g] /\ Layer[g] = Layer[h]
    BY <1>4 DEF Together
  <2>2. ASSUME NEW k \in Features, Layer[k] = Layer[f], (f <= k /\ k <= h) \/ (h <= k /\ k <= f)
        PROVE  k \in Parallel
    <3>1. \/ (f <= k /\ k <= g) \/ (g <= k /\ k <= f)
          \/ (g <= k /\ k <= h) \/ (h <= k /\ k <= g)
      BY <1>1, <2>2
    <3> QED
      BY <1>4, <2>1, <2>2, <3>1 DEF Together
  <2> QED
    BY <1>2, <2>1, <2>2 DEF Together
<1> QED
  BY <1>3, <1>4

LEMMA MinIsLeast == ASSUME NEW S \in SUBSET Features, S # {} PROVE Min(S) \in S
<1> DEFINE below(n) == {m \in S : m < n}
           T == {below(n) : n \in S}
<1>0. IsFiniteSet(S) /\ \A n \in S : n \in Nat
  BY Constants, FS_Subset
<1>1. T \subseteq FiniteSubsetsOf(S)
  BY <1>0, FS_FiniteSubsetsOfFinite
<1>2. IsWellFoundedOn(StrictSubsetOrdering(S), FiniteSubsetsOf(S))
  BY <1>0, FS_StrictSubsetOrderingWellFounded
<1>3. T # {}
  OBVIOUS
<1> HIDE DEF T
<1>4. PICK U \in T : \A V \in T : ~ (<<V, U>> \in StrictSubsetOrdering(S))
  BY <1>1, <1>2, <1>3, WFMin
<1> USE DEF T
<1>5. PICK n \in S : U = below(n)
  OBVIOUS
<1>6. ASSUME NEW m \in S, m < n PROVE FALSE
  <2>1. m \in Nat /\ n \in Nat
    BY <1>0
  <2>2. below(m) \subseteq below(n)
    <3>1. \A k \in S : k < m => k < n
      BY <1>0, <1>6, <2>1
    <3> QED
      BY <3>1
  <2>3. m \in below(n) /\ m \notin below(m)
    BY <1>6, <2>1
  <2>4. <<below(m), below(n)>> \in StrictSubsetOrdering(S)
    BY <2>2, <2>3 DEF StrictSubsetOrdering
  <2> QED
    BY <1>4, <1>5, <2>4
<1>7. \A m \in S : n <= m
  BY <1>0, <1>6
<1> QED
  BY <1>7 DEF Min

LEMMA DispatchSound == ASSUME Context, Dispatch PROVE Sound'
<1>1. /\ UNCHANGED <<row, wf, closed, approved, signing, stop, trouble>> /\ walk.at = "dispatch"
      /\ walk'.at \in {"dispatch", "collect"}
  BY DEF Dispatch, WalkTo, Context, Rows, Types, WalkRow
<1>2. CASE Ready = {}
  <2>1. run' = run
    BY <1>2 DEF Dispatch
  <2>2. Kept
    BY <1>1, <2>1, Framing DEF Frame
  <2> QED
    BY <1>1, <2>1, <2>2 DEF Kept, Sound, Behind, Grouped, Context
<1>3. CASE Ready # {}
  <2> DEFINE least == Min(Ready)
             group == GroupOf(least)
  <2>1. least \in Ready /\ least \in Features /\ run[least].at = "idle"
    <3>1. Ready \in SUBSET Features
      BY DEF Ready
    <3> QED
      BY <1>3, <3>1, MinIsLeast DEF Ready
  <2>2. /\ \A f \in Features : IF f \in group THEN run'[f].at = "begin" ELSE run'[f] = run[f]
        /\ Reviewing = {}
    <3>1. \A f \in Features : f \in Jobs
      BY TheJobs
    <3>2. ReviewMode
      BY DEF Context, Calm
    <3>3. run' = [j \in Jobs |-> IF j \in group THEN [Idle EXCEPT !.at = "begin"] ELSE run[j]] /\ Reviewing = {}
      BY <1>3, <3>2 DEF Dispatch
    <3> HIDE DEF group
    <3> QED
      BY <3>1, <3>3 DEF Idle
  <2> HIDE DEF least
  <2>3. ASSUME NEW f \in Features, Together(least, f)
        PROVE  run[f].at = "idle" /\ f \in group /\ DependsOn[f] \subseteq Resolved
    <3>1. f \in group
      BY <2>3 DEF GroupOf
    <3> QED
      BY <2>1, <2>3, <3>1 DEF Ready, Context, Sound, Grouped
  <2>4. \A f \in group : f \in Features /\ Together(least, f)
    BY DEF GroupOf
  <2>5. \A f \in Features : ~Together(least, f) => run'[f] = run[f]
    BY <2>2, <2>4
  <2>6. ASSUME NEW f \in Features PROVE Good(f)'
    <3>1. CASE Together(least, f)
      BY <1>1, <2>2, <2>3, <3>1, Resting, Here DEF Bound, Looking
    <3>2. CASE ~Together(least, f)
      BY <1>1, <2>5, <3>2, Framed DEF Frame
    <3> QED
      BY <3>1, <3>2
  <2>7. Grouped'
    <3> SUFFICES ASSUME NEW f \in Features, NEW g \in Features, Together(f, g)
                 PROVE  run'[f].at = "idle" <=> run'[g].at = "idle"
      BY DEF Grouped
    <3>1. Together(least, f) <=> Together(least, g)
      <4>1. Together(least, f) => Together(least, g)
        BY <2>1, TogetherEquivalent
      <4>2. Together(g, f)
        BY TogetherEquivalent DEF Together
      <4>3. Together(least, g) => Together(least, f)
        BY <2>1, <4>2, TogetherEquivalent
      <4> QED
        BY <4>1, <4>3
    <3>2. run[f].at = "idle" <=> run[g].at = "idle"
      BY DEF Context, Sound, Grouped
    <3> QED
      BY <2>2, <2>3, <2>5, <3>1, <3>2
  <2>8. ASSUME NEW f \in Features PROVE Behind(f)'
    <3>1. \A g \in Features : run[g].at = "resolved" => run'[g] = run[g]
      BY <2>3, <2>5
    <3>2. CASE Together(least, f)
      <4>1. ASSUME NEW g \in DependsOn[f] PROVE run'[g].at = "resolved" /\ (row[g] = "completed" => approved[g])
        <5>1. g \in Features /\ run[g].at = "resolved"
          BY <2>3, <3>2, Here DEF Resolved
        <5>2. ~Loose(g)
          BY <5>1, Here DEF Bound, Looking
        <5>3. wf[g].by = "review" => g \in Reviewing
          BY <5>1, Here DEF Holding, Reviewing, WfRow, Nobody
        <5> QED
          BY <2>2, <3>1, <5>1, <5>2, <5>3, Here DEF Holding, Loose
      <4> QED
        BY <1>1, <2>2, <2>3, <3>2, <4>1 DEF Behind
    <3>3. CASE ~Together(least, f)
      BY <1>1, <2>5, <3>1, <3>3, Here DEF Behind
    <3> QED
      BY <3>2, <3>3
  <2>9. Signed' /\ Rest'
    BY <1>1 DEF Context, Sound, Signed, Rest, Stopping, Quiet
  <2> QED
    BY <2>6, <2>7, <2>8, <2>9 DEF Sound
<1> QED
  BY <1>2, <1>3

-----------------------------------------------------------------------------
(* All the steps together.                                                *)

\* What a step keeps of every feature, it keeps of what is built on it.
LEMMA KeptSound == ASSUME Context, Kept PROVE Sound'
<1>1. Grouped'
  BY DEF Context, Sound, Grouped, Kept, Same
<1>2. ASSUME NEW f \in Features PROVE Behind(f)'
  <2>1. Behind(f) /\ Same(f) /\ \A g \in DependsOn[f] : Same(g)
    BY Here DEF Kept
  <2> QED
    BY <2>1 DEF Behind, Same
<1> QED
  BY <1>1, <1>2 DEF Kept, Sound

LEMMA NextKept == ASSUME Context, [Next]_vars PROVE Kept \/ Dispatch \/ Aggregate \/ Crash
<1>0. "click" \notin trouble'
  BY DEF Context, Calm
<1>1. CASE Walk
  <2>1. AbandonCurrent \/ Pick \/ Phase0 \/ Resign \/ Harvest \/ Signoff \/ Persist \/ Shutdown \/ Collect => Kept
    BY WalkKept, ShutdownKept, CollectKept
  <2> QED
    BY <1>1, <2>1 DEF Walk
<1>2. ASSUME NEW j \in Jobs, Thread(j) \/ LaunchFails(j) \/ GivesUp(j) \/ CloseWork(j) \/ GoesWrong(j) \/ Redone(j)
      PROVE  Kept
  <2>1. CASE j = Architect
    BY <1>2, <2>1, ArchitectKept
  <2>2. CASE j \in Features
    BY <1>2, <2>2, LaunchKept, ReadKept, DecideKept, LaunchFailsKept, CloseWorkKept, GoesWrongKept, RedoneNever DEF Thread
  <2> QED
    BY <2>1, <2>2, TheJobs
<1>3. ASSUME NEW f \in Features, Begin(f) \/ Finish(f) \/ Wait(f) \/ Gate(f) \/ Approve(f) \/ Approved(f)
                                 \/ SyncRow(f) \/ PauseStale(f)
      PROVE  Kept
  BY <1>3, BeginKept, FinishKept, ApproveKept, ApprovedKept, SweepKept
<1>4. CASE ApprovePlan \/ Stop \/ StopWorkflows \/ Start \/ SyncDesign \/ RecoverDesign \/ Poll \/ ForgetCurrent
  BY <1>4, ArchitectKept, StopKept, ShutdownKept, StartKept, PollKept
<1>5. ~Click
  BY <1>0 DEF Click, RequestChanges, PauseWorkflow, ResumeWorkflow, Trouble
<1>6. CASE UNCHANGED vars
  BY <1>6, Framing DEF vars, Frame
<1> QED
  BY <1>1, <1>2, <1>3, <1>4, <1>5, <1>6, TheJobs DEF Next, FeatureThread

LEMMA SoundKept == ASSUME Context, [Next]_vars PROVE Sound'
BY NextKept, KeptSound, DispatchSound, AggregateSound, CrashSound

LEMMA InvKept == ASSUME Inv, [Next]_vars PROVE Inv'
<1>1. Rows'
  BY RowsKept DEF Inv
<1>2. Calm' => Sound'
  BY Calmer, SoundKept
<1> QED
  BY <1>1, <1>2 DEF Inv

LEMMA InvStart == Init => Inv
<1> SUFFICES ASSUME Init PROVE Sound
  BY RowsStart DEF Inv
<1>1. /\ walk.at = "scan" /\ ~Stopping /\ signing = {}
      /\ \A f \in Features : /\ run[f] = Idle /\ ~closed[f] /\ row[f] = None
                             /\ wf[f] = [status |-> None, by |-> Nobody]
  BY TheJobs DEF Init, Off, Stopping
<1>2. Signed /\ Rest /\ Grouped
  BY <1>1 DEF Signed, Rest, Grouped, Idle
<1>3. \A f \in Features : Good(f) /\ Behind(f)
  BY <1>1 DEF Good, Holding, Through, Bound, Going, Loose, Looking, Behind, Idle, None, Nobody
<1> QED
  BY <1>2, <1>3 DEF Sound

\* A workflow comes to be by a launch, and what it depends on is approved then.
LEMMA BuiltLate ==
  ASSUME Inv, [Next]_vars, NEW f \in Features, wf[f].status = None, wf'[f].status # None,
         ReviewMode, Cardinality(trouble) < 2, "click" \notin trouble
  PROVE  \A g \in DependsOn[f] : approved[g]
<1>1. Rows /\ Calm /\ Sound /\ Good(f) /\ Behind(f) /\ f \in Jobs /\ f # Architect
  BY TheJobs DEF Inv, Calm, Sound
<1>2. CASE trouble' = trouble
  <2>1. Context
    BY <1>1, <1>2, Calmer DEF Calm
  <2>2. CASE Kept
    BY <1>1, <2>2 DEF Kept, Same, Behind
  <2>3. CASE Dispatch \/ Aggregate \/ Crash
    BY <2>3 DEF Dispatch, Aggregate, Crash
  <2> QED
    BY <2>1, <2>2, <2>3, NextKept
<1>3. CASE trouble' # trouble
  <2>1. \/ ForgetCurrent \/ Stop \/ Crash
        \/ \E j \in Jobs : LaunchFails(j) \/ GivesUp(j) \/ GoesWrong(j)
                          \/ RequestChanges(j) \/ PauseWorkflow(j) \/ ResumeWorkflow(j)
    BY <1>3, Troubled
  <2>2. ~(ForgetCurrent \/ Stop \/ Crash)
    BY DEF ForgetCurrent, Stop, Crash
  <2>3. ASSUME NEW j \in Jobs, LaunchFails(j) \/ GivesUp(j) \/ GoesWrong(j)
                               \/ RequestChanges(j) \/ PauseWorkflow(j) \/ ResumeWorkflow(j)
        PROVE  FALSE
    <3>1. \A s, by : SetWf(j, s, by)[f] = IF f = j THEN [status |-> s, by |-> by] ELSE wf[f]
      BY <1>1 DEF SetWf, Rows, Types
    <3>2. ASSUME NEW what, Ends(j, what) PROVE FALSE
      <4>1. wf' = wf \/ (wf[j].status = "active" /\ wf' = SetWf(j, "paused", "system"))
        BY <3>2 DEF Ends
      <4> QED
        BY <3>1, <4>1 DEF None
    <3>3. CASE GivesUp(j)
      BY <3>2, <3>3 DEF GivesUp
    <3>4. CASE GoesWrong(j)
      BY <1>1, <3>1, <3>4 DEF GoesWrong, None
    <3>5. CASE LaunchFails(j) \/ RequestChanges(j)
      BY <3>5 DEF LaunchFails, RequestChanges
    <3>6. CASE PauseWorkflow(j) \/ ResumeWorkflow(j)
      BY <3>1, <3>6 DEF PauseWorkflow, ResumeWorkflow, None
    <3> QED
      BY <2>3, <3>3, <3>4, <3>5, <3>6
  <2> QED
    BY <2>1, <2>2, <2>3
<1> QED
  BY <1>2, <1>3

\* Reviews are on, and at most one kind of trouble has come, and no button has
\* been pressed: when the workflow of a feature is launched the features it is
\* built on have been approved.
THEOREM NothingUnapproved == Spec => BuiltOnApproved
<1> DEFINE Step == \A f \in Features :
       wf[f].status = None /\ wf'[f].status # None /\ ReviewMode /\ Cardinality(trouble) < 2 /\ "click" \notin trouble =>
         \A g \in DependsOn[f] : approved[g]
<1>1. Inv /\ [Next]_vars => [Step]_vars
  BY BuiltLate
<1>2. Inv /\ [Next]_vars => Inv'
  BY InvKept
<1>3. Spec => [][Step]_vars
  <2> HIDE DEF Step
  <2> QED
    BY <1>1, <1>2, InvStart, PTL DEF Spec
<1> QED
  BY <1>3 DEF BuiltOnApproved

\* With reviews on, one kind of trouble at most and no button pressed, no feature
\* is over behind the reviewers' back: one whose last phase has closed has been
\* approved or waits for its review, or a fault left it open to be seen by its
\* thread, which is still looking and will send it there.
Vouched == Calm => \A f \in Features :
  closed[f] => \/ approved[f]
               \/ wf[f] = [status |-> "paused", by |-> "review"]
               \/ "fault" \in trouble /\ (Looking(f) \/ (run[f].at = "finish" /\ run[f].result = "completed"))

THEOREM NothingSlipsBy == Spec => []Vouched
<1>1. Inv => Vouched
  <2> SUFFICES ASSUME Inv, Calm, NEW f \in Features, closed[f], ~approved[f]
               PROVE  \/ wf[f] = [status |-> "paused", by |-> "review"]
                      \/ "fault" \in trouble /\ (Looking(f) \/ (run[f].at = "finish" /\ run[f].result = "completed"))
    BY DEF Vouched
  <2>1. Rows /\ Holding(f) /\ Bound(f)
    BY DEF Inv, Sound, Good
  <2>2. CASE Loose(f)
    BY <2>1, <2>2 DEF Bound
  <2>3. CASE ~Loose(f)
    <3>1. wf[f].by = "review" /\ wf[f] \in WfRow
      BY <2>1, <2>3, TheJobs DEF Loose, Rows, Types
    <3>2. wf[f].status = "paused"
      BY <2>1, <3>1 DEF Holding, Nobody
    <3> QED
      BY <3>1, <3>2 DEF WfRow
  <2> QED
    BY <2>2, <2>3
<1>2. Inv /\ [Next]_vars => Inv'
  BY InvKept
<1> QED
  BY <1>1, <1>2, InvStart, PTL DEF Spec
=============================================================================
