------------------------ MODULE PullRequestGateProofs ------------------------
(***************************************************************************)
(* For every retry limit, with and without the local fallback, and for     *)
(* every combination of troubles: the type invariant, that no workflow is  *)
(* over that nobody has approved or merged, and that the tool merges only  *)
(* on a verdict that stands.                                               *)
(*                                                                         *)
(* Both rest on one invariant: unless both entrances were asking at once,  *)
(* the gate asks about a feature only while nobody reviews it and nobody   *)
(* has approved it, so that no answer it still waits for can take an       *)
(* approved workflow back to a person, who would then ask for changes      *)
(* while a merge is on its way.                                            *)
(***************************************************************************)
EXTENDS PullRequestGate, TLAPS

Statuses == [status : {"active", "paused", "completed", "failed"}, by : {None, "review"}]

\* What the gate and the workflow's derivation make of a row.
LEMMA RowsStayRows ==
  ASSUME wf \in Statuses
  PROVE  /\ Finished \in Statuses /\ Active \in Statuses /\ AtReview \in Statuses
         /\ Ended \in Statuses /\ [wf EXCEPT !.status = "failed"] \in Statuses
         /\ Finished = wf \/ Finished = [status |-> "completed", by |-> wf.by]
         /\ Finished # wf => wf.status \notin {"paused", "failed"}
BY DEF Statuses, Finished, Derived, Active, AtReview, Ended

\* What an entrance hears is what there is, or nothing.
LEMMA AsksType ==
  ASSUME TypeOK, NEW e \in Entrances, NEW also \in SUBSET Kinds, Asks(e, also)
  PROVE  /\ gate' \in [Entrances -> Open \union {None, Unknown, "merged", "closed"}]
         /\ gate[e] = None
         /\ \A f \in Entrances : f # e => gate'[f] = gate[f]
         /\ gate'[e] = pr \/ gate'[e] = Unknown
         /\ trouble' \subseteq Kinds
         /\ "overlap" \notin trouble' => \A f \in Entrances : gate[f] = None
<1>1. PICK heard \in Answers(url) :
        /\ gate' = [gate EXCEPT ![e] = heard]
        /\ Trouble(Lost(heard, url) \union also
                    \union (IF \E f \in Entrances : gate[f] # None THEN {"overlap"} ELSE {}))
  BY DEF Asks
<1>2. heard = Unknown \/ (heard = pr /\ pr # None)
  BY DEF Answers
<1>3. heard \in Open \union {Unknown, "merged", "closed"}
  BY <1>2 DEF TypeOK
<1>4. Lost(heard, url) \subseteq Kinds
  BY DEF Lost, Kinds
<1>5. trouble' \subseteq Kinds
  BY <1>1, <1>4 DEF TypeOK, Trouble, Kinds
<1>6. "overlap" \notin trouble' => \A f \in Entrances : gate[f] = None
  BY <1>1 DEF Trouble
<1> QED  BY <1>1, <1>2, <1>3, <1>5, <1>6 DEF TypeOK, Asks

\* The end of the last phase, in whichever way it is closed.
LEMMA CloseLastType ==
  ASSUME TypeOK, NEW also \in SUBSET Kinds, CloseLast(also)
  PROVE  /\ closed' \in BOOLEAN /\ wf' \in Statuses /\ trouble' \subseteq Kinds
         /\ gate' \in [Entrances -> Open \union {None, Unknown, "merged", "closed"}]
<1>1. CASE UNCHANGED <<wf, gate>> /\ Trouble(also)
  BY <1>1 DEF TypeOK, Statuses, CloseLast, Trouble
<1>2. CASE wf' = Ended /\ Trouble(also) /\ UNCHANGED gate
  BY <1>2 DEF TypeOK, Statuses, CloseLast, Trouble, Ended
<1>3. CASE Asks("completion", also) /\ UNCHANGED wf
  <2>1. "completion" \in Entrances
    BY DEF Entrances
  <2> QED  BY <1>3, <2>1, AsksType DEF TypeOK, Statuses, CloseLast
<1> QED  BY <1>1, <1>2, <1>3 DEF CloseLast, Completes

LEMMA InitType == Init => TypeOK
<1> SUFFICES ASSUME Init PROVE TypeOK
  OBVIOUS
<1>1. retries \in 0..MaxRetries /\ spent \in Nat
  BY GateAssumption DEF Init
<1>2. wf \in [status : {"active", "paused", "completed", "failed"}, by : {None, "review"}]
  BY DEF Init, Active
<1>3. gate \in [Entrances -> Open \union {None, Unknown, "merged", "closed"}]
  BY DEF Init
<1> QED  BY <1>1, <1>2, <1>3 DEF Init, TypeOK

LEMMA NextType == TypeOK /\ [Next]_vars => TypeOK'
<1> SUFFICES ASSUME TypeOK, [Next]_vars PROVE TypeOK'
  OBVIOUS
<1>w. wf \in Statuses
  BY DEF TypeOK, Statuses
<1>1. CASE GitHub
  BY <1>1 DEF TypeOK, Open, GitHub, Checks, AutoMerge, work
<1>2. CASE Push
  BY <1>2 DEF TypeOK, Open, Push
<1>3. CASE Report
  BY <1>3 DEF TypeOK, Report, git
<1>4. CASE Verify
  <2>1. trouble' \subseteq Kinds
    BY <1>4 DEF TypeOK, Verify, Lost, Trouble, Kinds
  <2>2. /\ url' \in BOOLEAN /\ task' \in {"working", "parked", "done", "failed"}
        /\ verifying' \in BOOLEAN /\ UNCHANGED <<pushed, retries, spent>>
    BY <1>4 DEF TypeOK, Verify
  <2>3. UNCHANGED <<pr, armed, main, closed, rework, wf, verdict, gate, signing, sync>>
    BY <1>4 DEF Verify, git
  <2> QED  BY <2>1, <2>2, <2>3 DEF TypeOK
<1>5. CASE Resolve
  BY <1>5 DEF TypeOK, Resolve, git
<1>6. CASE Retry
  <2>1. retries' \in 0..MaxRetries /\ spent' = spent
    BY <1>6, GateAssumption DEF TypeOK, Retry
  <2>2. task' \in {"working", "parked", "done", "failed"} /\ pushed' \in BOOLEAN
    BY <1>6 DEF Retry
  <2>3. UNCHANGED <<pr, armed, main, url, verifying, closed, rework, wf, verdict, gate, signing,
                    sync, trouble>>
    BY <1>6 DEF Retry, git
  <2> QED  BY <2>1, <2>2, <2>3 DEF TypeOK
<1>7. CASE Close
  <2>1. (IF verifying THEN {"early"} ELSE {}) \in SUBSET Kinds
    BY DEF Kinds
  <2>2. CloseLast(IF verifying THEN {"early"} ELSE {})
    BY <1>7 DEF Close
  <2> QED  BY <2>1, <2>2, CloseLastType DEF TypeOK, Statuses, CloseLast, git, work
<1>8. CASE GiveUp
  <2>1. CASE CloseLast({})
    BY <2>1, CloseLastType DEF TypeOK, Statuses, CloseLast, git, work
  <2>2. CASE ~CloseLast({})
    BY <1>w, <1>8, <2>2, RowsStayRows DEF TypeOK, Statuses, GiveUp, git, work
  <2> QED  BY <2>1, <2>2
<1>9. CASE PauseForReview
  <2>1. "pause" \in Entrances /\ Asks("pause", {})
    BY <1>9 DEF Entrances, PauseForReview
  <2> QED  BY <1>9, <2>1, AsksType DEF TypeOK, PauseForReview, git, work
<1>10. ASSUME NEW e \in Entrances, Decide(e) PROVE TypeOK'
  <2>1. task' \in {"working", "parked", "done", "failed"} /\ closed' \in BOOLEAN
    BY <1>10 DEF TypeOK, Decide, Reopen
  <2>2. wf' \in Statuses
    BY <1>w, <1>10, RowsStayRows DEF Decide
  <2> QED  BY <1>10, <2>1, <2>2 DEF TypeOK, Statuses, Decide, git
<1>11. CASE Signed
  <2>1. CASE CheckFirst
    BY <2>1 DEF TypeOK, CheckFirst, Answers, Lost, Trouble, Kinds, git, work
  <2>2. CASE Merge
    <3>1. /\ pr' \in Open \union {None, "merged", "closed"}
          /\ armed' \in BOOLEAN /\ sync' \in BOOLEAN
          /\ signing' \in {"no", "check", "merge", "sync", "settle"}
      BY <2>2 DEF TypeOK, Merge
    <3> QED  BY <2>2, <3>1 DEF TypeOK, Merge, work
  <2>3. CASE MergeLocally
    <3>1. trouble' \subseteq Kinds
      BY <2>3 DEF TypeOK, MergeLocally, Trouble, Kinds
    <3>2. main' \in BOOLEAN /\ signing' \in {"no", "check", "merge", "sync", "settle"}
      BY <2>3 DEF TypeOK, MergeLocally
    <3> QED  BY <2>3, <3>1, <3>2 DEF TypeOK, MergeLocally, work
  <2>4. CASE Conflict
    BY <2>4 DEF TypeOK, Conflict, Trouble, Kinds, git, work
  <2>5. CASE SyncAfterMerge
    <3>1. trouble' \subseteq Kinds /\ main' \in BOOLEAN
      BY <2>5 DEF TypeOK, SyncAfterMerge, Trouble, Kinds
    <3> QED  BY <2>5, <3>1 DEF TypeOK, SyncAfterMerge, work
  <2>6. CASE Settle
    BY <1>w, <2>6, RowsStayRows DEF TypeOK, Statuses, Settle, git, work
  <2> QED  BY <1>11, <2>1, <2>2, <2>3, <2>4, <2>5, <2>6 DEF Signed
<1>12. CASE Person
  <2>1. CASE Approve
    BY <1>w, <2>1, RowsStayRows DEF TypeOK, Statuses, Approve, git, work
  <2>2. CASE RequestChanges
    <3>1. trouble' \subseteq Kinds
      BY <2>2 DEF TypeOK, RequestChanges, Trouble, Kinds
    <3>2. task' \in {"working", "parked", "done", "failed"} /\ pushed' \in BOOLEAN /\ rework' \in BOOLEAN
      BY <2>2 DEF TypeOK, RequestChanges
    <3> QED  BY <2>2, <3>1, <3>2 DEF TypeOK, RequestChanges, git
  <2>3. CASE Resume
    BY <1>w, <2>3, RowsStayRows DEF TypeOK, Statuses, Resume, git, work
  <2>4. CASE Poll
    BY <1>w, <2>4, RowsStayRows DEF TypeOK, Statuses, Poll, Trouble, Kinds, git, work
  <2>5. CASE Drift
    BY <2>5 DEF TypeOK, Open, Drift, Trouble, Kinds, work
  <2>6. CASE OnGitHub
    BY <2>6 DEF TypeOK, Open, OnGitHub, Trouble, Kinds, work
  <2> QED  BY <1>12, <2>1, <2>2, <2>3, <2>4, <2>5, <2>6 DEF Person
<1>13. CASE Reworked
  <2>1. retries' \in 0..MaxRetries /\ spent' \in Nat
    BY <1>13, GateAssumption DEF TypeOK, Reworked
  <2> QED  BY <1>13, <2>1 DEF TypeOK, Reworked, git
<1>14. CASE SyncMain
  <2>1. /\ main' \in BOOLEAN /\ sync' \in BOOLEAN /\ trouble' \subseteq Kinds
    BY <1>14 DEF TypeOK, SyncMain, Landed, Lost, Trouble, Kinds
  <2> QED  BY <1>14, <2>1 DEF TypeOK, SyncMain, work
<1>15. CASE UNCHANGED vars
  BY <1>15 DEF TypeOK, vars, git, work
<1> QED
  BY <1>1, <1>2, <1>3, <1>4, <1>5, <1>6, <1>7, <1>8, <1>9, <1>10, <1>11, <1>12, <1>13, <1>14,
     <1>15 DEF Next, Task, Gate

\* Type correctness: no interleaving of the gate, the approval and git_expert
\* takes the retries past the workflow's limit.
THEOREM TypeCorrect == Spec => []TypeOK
BY InitType, NextType, PTL DEF Spec

-----------------------------------------------------------------------------
(* The invariant both safety properties rest on. *)

\* Only a paused workflow waits for a person, and a merged request stays merged.
PausedForReview == wf.by = "review" => wf.status = "paused"
MergedStays     == \A e \in Entrances : gate[e] = "merged" => pr = "merged"

\* One entrance asks at a time, about a feature nobody reviews and nobody has
\* approved; an approval takes the workflow from the person, and what it has
\* set going, a merge or an auto-merge, goes on under its verdict.
AskedOnce ==
  /\ \A e \in Entrances : gate[e] # None =>
       /\ wf.by # "review" /\ verdict # "approved"
       /\ \A f \in Entrances : f # e => gate[f] = None
  /\ verdict = "approved" => wf.by # "review"
  /\ armed \/ signing # "no" => verdict = "approved"
Calm == "overlap" \in trouble \/ AskedOnce

IInv == TypeOK /\ PausedForReview /\ MergedStays /\ Calm /\ NobodySkipped

\* What has gone wrong has gone wrong.
LEMMA TroubleStays ==
  ASSUME TypeOK, [Next]_vars PROVE trouble \subseteq trouble'
<1> USE DEF Trouble
<1>a. ASSUME NEW e \in Entrances, NEW also \in SUBSET Kinds, Asks(e, also)
      PROVE  trouble \subseteq trouble'
  BY <1>a DEF Asks
<1>c. ASSUME NEW also \in SUBSET Kinds, CloseLast(also) PROVE trouble \subseteq trouble'
  <2>1. "completion" \in Entrances
    BY DEF Entrances
  <2> QED  BY <1>c, <1>a, <2>1 DEF CloseLast, Completes
<1>1. CASE GitHub
  BY <1>1 DEF GitHub, Checks, AutoMerge
<1>2. CASE Task
  BY <1>2 DEF Task, Push, Report, Verify, Resolve, Retry
<1>3. CASE Close
  <2>1. (IF verifying THEN {"early"} ELSE {}) \in SUBSET Kinds
    BY DEF Kinds
  <2> QED  BY <1>3, <1>c, <2>1 DEF Close
<1>4. CASE GiveUp
  BY <1>4, <1>c DEF GiveUp
<1>5. CASE PauseForReview
  <2>1. "pause" \in Entrances /\ Asks("pause", {})
    BY <1>5 DEF Entrances, PauseForReview
  <2> QED  BY <1>a, <2>1
<1>6. ASSUME NEW e \in Entrances, Decide(e) PROVE trouble \subseteq trouble'
  BY <1>6 DEF Decide
<1>7. CASE Signed
  BY <1>7 DEF Signed, CheckFirst, Merge, MergeLocally, Conflict, SyncAfterMerge, Settle
<1>8. CASE Person
  BY <1>8 DEF Person, Approve, RequestChanges, Resume, Poll, Drift, OnGitHub
<1>9. CASE Reworked \/ SyncMain \/ UNCHANGED vars
  BY <1>9 DEF Reworked, SyncMain, vars
<1> QED
  BY <1>1, <1>2, <1>3, <1>4, <1>5, <1>6, <1>7, <1>8, <1>9 DEF Next, Gate

\* A feature that nobody reviews and nobody has approved is asked about, by one.
LEMMA AskingIsCalm ==
  ASSUME TypeOK, AskedOnce, MergedStays, NEW e \in Entrances, NEW also \in SUBSET Kinds, Asks(e, also),
         "overlap" \notin trouble', wf.by # "review", verdict # "approved",
         UNCHANGED <<pr, armed, wf, verdict, signing>>
  PROVE  AskedOnce'
BY AsksType DEF AskedOnce

\* An answer that says merged says it of a request that is.
LEMMA AskingIsTrue ==
  ASSUME TypeOK, MergedStays, NEW e \in Entrances, NEW also \in SUBSET Kinds, Asks(e, also),
         pr' = pr
  PROVE  MergedStays'
<1>1. gate'[e] = "merged" => pr = "merged"
  BY AsksType DEF Unknown
<1> QED  BY <1>1, AsksType DEF MergedStays

LEMMA NextFinal == TypeOK /\ PausedForReview /\ MergedStays /\ [Next]_vars
                     => PausedForReview' /\ MergedStays'
<1> SUFFICES ASSUME TypeOK, PausedForReview, MergedStays, [Next]_vars
             PROVE  PausedForReview' /\ MergedStays'
  OBVIOUS
<1>w. /\ wf \in Statuses
      /\ Finished.by = "review" => Finished.status = "paused"
  <2>1. wf \in Statuses
    BY DEF TypeOK, Statuses
  <2> QED  BY <2>1, RowsStayRows DEF PausedForReview, Statuses, Finished, Derived
<1>a. ASSUME NEW also \in SUBSET Kinds, CloseLast(also) PROVE PausedForReview' /\ MergedStays'
  <2>1. "completion" \in Entrances /\ pr' = pr
    BY <1>a DEF Entrances, CloseLast, git
  <2>2. CASE UNCHANGED <<wf, gate>>
    BY <2>1, <2>2 DEF PausedForReview, MergedStays
  <2>3. CASE wf' = Ended /\ UNCHANGED gate
    BY <2>1, <2>3 DEF PausedForReview, MergedStays, Ended, None
  <2>4. CASE Asks("completion", also) /\ UNCHANGED wf
    BY <2>1, <2>4, AskingIsTrue DEF PausedForReview
  <2> QED  BY <1>a, <2>2, <2>3, <2>4 DEF CloseLast, Completes
<1>1. CASE GitHub
  BY <1>1 DEF PausedForReview, MergedStays, GitHub, Checks, AutoMerge
<1>2. CASE Task
  BY <1>2 DEF PausedForReview, MergedStays, Task, Push, Report, Verify, Resolve, Retry, git
<1>3. CASE Close
  <2>1. (IF verifying THEN {"early"} ELSE {}) \in SUBSET Kinds
    BY DEF Kinds
  <2> QED  BY <1>3, <1>a, <2>1 DEF Close
<1>4. CASE GiveUp
  <2>1. CASE CloseLast({})  BY <1>a, <2>1
  <2>2. CASE ~CloseLast({})
    <3>1. wf.status = "active" /\ wf' = [wf EXCEPT !.status = "failed"] /\ UNCHANGED <<pr, gate>>
      BY <1>4, <2>2 DEF GiveUp, git
    <3> QED  BY <1>w, <3>1 DEF PausedForReview, MergedStays, Statuses
  <2> QED  BY <2>1, <2>2
<1>5. CASE PauseForReview
  <2>1. "pause" \in Entrances /\ Asks("pause", {}) /\ UNCHANGED <<pr, wf>>
    BY <1>5 DEF Entrances, PauseForReview, git
  <2> QED  BY <2>1, AskingIsTrue DEF PausedForReview
<1>6. ASSUME NEW e \in Entrances, Decide(e) PROVE PausedForReview' /\ MergedStays'
  <2>1. pr' = pr /\ gate' = [gate EXCEPT ![e] = None]
    BY <1>6 DEF Decide, git
  <2>2. wf' = wf \/ wf' = Finished \/ wf' = AtReview
    BY <1>6 DEF Decide
  <2> QED  BY <1>w, <2>1, <2>2 DEF TypeOK, PausedForReview, MergedStays, AtReview, None
<1>7. CASE Signed
  <2>1. gate' = gate /\ (pr' = pr \/ pr' = "merged") /\ (wf' = wf \/ wf' = Finished)
    BY <1>7 DEF Signed, CheckFirst, Merge, MergeLocally, Conflict, SyncAfterMerge, Settle, git
  <2> QED  BY <1>w, <2>1 DEF PausedForReview, MergedStays
<1>8. CASE Person
  <2>1. CASE Approve
    BY <2>1 DEF PausedForReview, MergedStays, Approve, Active, None, git
  <2>2. CASE Poll
    BY <1>w, <2>2 DEF PausedForReview, MergedStays, Poll, git
  <2>3. CASE RequestChanges \/ Resume \/ Drift \/ OnGitHub
    BY <2>3 DEF PausedForReview, MergedStays, RequestChanges, Resume, Drift, OnGitHub, Active, None,
                Open, git
  <2> QED  BY <1>8, <2>1, <2>2, <2>3 DEF Person
<1>9. CASE Reworked \/ SyncMain \/ UNCHANGED vars
  BY <1>9 DEF PausedForReview, MergedStays, Reworked, SyncMain, vars, git
<1> QED
  BY <1>1, <1>2, <1>3, <1>4, <1>5, <1>6, <1>7, <1>8, <1>9 DEF Next, Gate

LEMMA NextCalm == TypeOK /\ PausedForReview /\ MergedStays /\ Calm /\ [Next]_vars => Calm'
<1> SUFFICES ASSUME TypeOK, PausedForReview, MergedStays, AskedOnce, [Next]_vars,
                    "overlap" \notin trouble'
             PROVE  AskedOnce'
  BY TroubleStays DEF Calm
<1>w. /\ wf \in Statuses
      /\ Finished.by = wf.by
  <2>1. wf \in Statuses
    BY DEF TypeOK, Statuses
  <2> QED  BY <2>1, RowsStayRows
<1>a. ASSUME NEW also \in SUBSET Kinds, CloseLast(also) PROVE AskedOnce'
  <2>1. "completion" \in Entrances /\ wf.status = "active" /\ UNCHANGED <<pr, armed, verdict, signing>>
    BY <1>a DEF Entrances, CloseLast, git
  <2>2. CASE UNCHANGED <<wf, gate>>
    BY <2>1, <2>2 DEF AskedOnce
  <2>3. CASE wf' = Ended /\ UNCHANGED gate
    BY <2>1, <2>3 DEF AskedOnce, Ended, None
  <2>4. CASE Asks("completion", also) /\ UNCHANGED wf /\ verdict # "approved"
    <3>1. wf.by # "review"
      BY <2>1 DEF PausedForReview
    <3> QED  BY <2>1, <2>4, <3>1, AskingIsCalm
  <2> QED  BY <1>a, <2>2, <2>3, <2>4 DEF CloseLast, Completes
<1>1. CASE GitHub
  BY <1>1 DEF AskedOnce, GitHub, Checks, AutoMerge
<1>2. CASE Task
  BY <1>2 DEF AskedOnce, Task, Push, Report, Verify, Resolve, Retry, git
<1>3. CASE Close
  <2>1. (IF verifying THEN {"early"} ELSE {}) \in SUBSET Kinds
    BY DEF Kinds
  <2> QED  BY <1>3, <1>a, <2>1 DEF Close
<1>4. CASE GiveUp
  <2>1. CASE CloseLast({})  BY <1>a, <2>1
  <2>2. CASE ~CloseLast({})
    <3>1. /\ wf' = [wf EXCEPT !.status = "failed"]
          /\ UNCHANGED <<armed, verdict, signing, gate>>
      BY <1>4, <2>2 DEF GiveUp, git
    <3> QED  BY <1>w, <3>1 DEF AskedOnce, Statuses
  <2> QED  BY <2>1, <2>2
<1>5. CASE PauseForReview
  <2>1. /\ "pause" \in Entrances /\ Asks("pause", {}) /\ UNCHANGED <<pr, armed, wf, verdict, signing>>
        /\ verdict # "approved" /\ wf.by # "review"
    BY <1>5 DEF Entrances, PauseForReview, Unreviewed, git
  <2> QED  BY <2>1, AskingIsCalm
<1>6. ASSUME NEW e \in Entrances, Decide(e) PROVE AskedOnce'
  <2>1. gate[e] # None /\ UNCHANGED <<armed, verdict, signing>>
    BY <1>6 DEF Decide, git
  <2>2. \A f \in Entrances : gate'[f] = None
    BY <1>6, <2>1 DEF TypeOK, AskedOnce, Decide
  <2>3. verdict # "approved"
    BY <2>1 DEF AskedOnce
  <2> QED  BY <2>1, <2>2, <2>3 DEF AskedOnce
<1>7. CASE Signed
  <2>1. /\ verdict' = verdict /\ gate' = gate
        /\ wf' = wf \/ wf' = Finished
        /\ signing # "no"
    BY <1>7 DEF Signed, CheckFirst, Merge, MergeLocally, Conflict, SyncAfterMerge, Settle, git
  <2> QED  BY <1>w, <2>1 DEF AskedOnce
<1>8. CASE Person
  <2>1. CASE Approve
    <3>1. wf' = Active /\ wf'.by = None
      BY <2>1 DEF Approve, PausedForReview, Active
    <3>2. UNCHANGED <<armed, gate>> /\ wf.by = "review" /\ verdict' = "approved"
      BY <2>1 DEF Approve, git
    <3> QED  BY <3>1, <3>2 DEF AskedOnce, None
  <2>2. CASE Poll
    BY <1>w, <2>2 DEF AskedOnce, Poll, git
  <2>3. CASE RequestChanges
    BY <2>3 DEF AskedOnce, RequestChanges, git
  <2>4. CASE Resume \/ Drift \/ OnGitHub
    BY <2>4 DEF AskedOnce, Resume, Drift, OnGitHub, Active, None, git
  <2> QED  BY <1>8, <2>1, <2>2, <2>3, <2>4 DEF Person
<1>9. CASE Reworked \/ SyncMain \/ UNCHANGED vars
  <2>1. UNCHANGED <<armed, wf, verdict, gate, signing>>
    BY <1>9 DEF Reworked, SyncMain, vars, git
  <2> QED  BY <2>1 DEF AskedOnce
<1> QED
  BY <1>1, <1>2, <1>3, <1>4, <1>5, <1>6, <1>7, <1>8, <1>9 DEF Next, Gate

LEMMA NextSkipped == IInv /\ [Next]_vars => NobodySkipped'
<1> SUFFICES ASSUME IInv, [Next]_vars, wf'.status = "completed", verdict' # "approved", pr' # "merged",
                    "poll" \notin trouble', "overlap" \notin trouble'
             PROVE  FALSE
  BY DEF NobodySkipped
<1>t. "poll" \notin trouble /\ "overlap" \notin trouble
  BY TroubleStays DEF IInv
<1>c. AskedOnce
  BY <1>t DEF IInv, Calm
<1>n. wf.status = "completed" => verdict = "approved" \/ pr = "merged"
  BY <1>t DEF IInv, NobodySkipped
<1>m. PausedForReview /\ MergedStays /\ wf \in Statuses
  BY DEF IInv, TypeOK, Statuses
<1>a. ASSUME NEW also \in SUBSET Kinds, CloseLast(also) PROVE FALSE
  BY <1>a, <1>n DEF CloseLast, Completes, git
<1>1. CASE GitHub
  BY <1>1, <1>n DEF GitHub, Checks, AutoMerge
<1>2. CASE Task
  <2>1. UNCHANGED <<wf, verdict>> /\ (pr = "merged" => pr' = "merged")
    BY <1>2 DEF Task, Push, Report, Verify, Resolve, Retry, git
  <2> QED  BY <1>n, <2>1
<1>3. CASE Close
  <2>1. (IF verifying THEN {"early"} ELSE {}) \in SUBSET Kinds
    BY DEF Kinds
  <2> QED  BY <1>3, <1>a, <2>1 DEF Close
<1>4. CASE GiveUp
  <2>1. CASE CloseLast({})  BY <1>a, <2>1
  <2>2. CASE ~CloseLast({})
    <3>1. wf' = [wf EXCEPT !.status = "failed"]
      BY <1>4, <2>2 DEF GiveUp
    <3> QED  BY <1>m, <3>1 DEF Statuses
  <2> QED  BY <2>1, <2>2
<1>5. CASE PauseForReview
  BY <1>5, <1>n DEF PauseForReview, git
<1>6. ASSUME NEW e \in Entrances, Decide(e) PROVE FALSE
  <2>1. UNCHANGED <<pr, verdict>>
    BY <1>6 DEF Decide, git
  <2>2. wf' = wf \/ (gate[e] = "merged" /\ wf' = Finished) \/ wf' = AtReview
    BY <1>6 DEF Decide
  <2> QED  BY <1>m, <1>n, <2>1, <2>2 DEF MergedStays, AtReview
<1>7. CASE Signed
  BY <1>7, <1>c DEF AskedOnce, Signed, CheckFirst, Merge, MergeLocally, Conflict, SyncAfterMerge,
                    Settle
<1>8. CASE Person
  <2>1. CASE Approve
    BY <2>1 DEF Approve
  <2>2. CASE Poll
    BY <2>2 DEF Poll, Trouble
  <2>3. CASE RequestChanges
    BY <2>3, <1>m DEF RequestChanges, PausedForReview
  <2>4. CASE Resume \/ Drift \/ OnGitHub
    BY <2>4, <1>n DEF Resume, Drift, OnGitHub, Active, Open, git
  <2> QED  BY <1>8, <2>1, <2>2, <2>3, <2>4 DEF Person
<1>9. CASE Reworked \/ SyncMain \/ UNCHANGED vars
  BY <1>9, <1>n DEF Reworked, SyncMain, vars, git
<1> QED
  BY <1>1, <1>2, <1>3, <1>4, <1>5, <1>6, <1>7, <1>8, <1>9 DEF Next, Gate

LEMMA InitInv == Init => IInv
<1> SUFFICES ASSUME Init PROVE IInv
  OBVIOUS
<1>1. wf.by = None /\ wf.status = "active"
  BY DEF Init, Active
<1>2. \A e \in Entrances : gate[e] = None
  BY DEF Init
<1> QED
  BY <1>1, <1>2, InitType
     DEF Init, IInv, PausedForReview, MergedStays, Calm, AskedOnce, NobodySkipped, None

LEMMA NextInv == IInv /\ [Next]_vars => IInv'
BY NextType, NextFinal, NextCalm, NextSkipped DEF IInv

\* NobodySkipped: the closing of the last phase, the approval with all it does
\* afterwards, a rework and GitHub, in any order, complete no workflow without
\* an approval or a merge, but for the two troubles the property names.
THEOREM NobodyIsSkipped == Spec => []NobodySkipped
<1>1. IInv => NobodySkipped  BY DEF IInv
<1> QED  BY <1>1, InitInv, NextInv, PTL DEF Spec

\* LandsApproved: whenever the tool lands a request, at once or by an auto-merge
\* armed long before, the verdict it was given still stands.
THEOREM LandsOnlyApproved == Spec => LandsApproved
<1>1. IInv /\ [Next]_vars =>
        [pr' = "merged" /\ pr # "merged" /\ trouble' = trouble
           => verdict = "approved" \/ "overlap" \in trouble]_vars
  <2> SUFFICES ASSUME IInv, [Next]_vars, pr' = "merged", pr # "merged", trouble' = trouble,
                      "overlap" \notin trouble
               PROVE  verdict = "approved"
    OBVIOUS
  <2>c. armed \/ signing # "no" => verdict = "approved"
    BY DEF IInv, Calm, AskedOnce
  <2>1. CASE GitHub
    BY <2>1, <2>c DEF GitHub, Checks, AutoMerge
  <2>2. CASE Task
    BY <2>2 DEF Task, Push, Report, Verify, Resolve, Retry, git
  <2>3. CASE Gate
    BY <2>3 DEF Gate, Close, GiveUp, PauseForReview, Decide, CloseLast, git
  <2>4. CASE Signed
    BY <2>4, <2>c DEF Signed, CheckFirst, Merge, MergeLocally, Conflict, SyncAfterMerge, Settle, git
  <2>5. CASE Person
    BY <2>5 DEF Person, Approve, RequestChanges, Resume, Poll, Drift, OnGitHub, Trouble, git
  <2>6. CASE Reworked \/ SyncMain \/ UNCHANGED vars
    BY <2>6 DEF Reworked, SyncMain, vars, git
  <2> QED
    BY <2>1, <2>2, <2>3, <2>4, <2>5, <2>6 DEF Next
<1> QED  BY <1>1, InitInv, NextInv, PTL DEF Spec, LandsApproved
=============================================================================
