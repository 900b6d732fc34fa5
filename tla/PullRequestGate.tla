--------------------------- MODULE PullRequestGate ---------------------------
(***************************************************************************)
(* The end of a feature in review mode: git_expert pushes a pull request   *)
(* and reports, the report is verified against GitHub, the last phase is   *)
(* closed and the workflow comes to the review gate, where it waits for a  *)
(* person, goes back to git_expert, or is over because the request has     *)
(* been merged.  A person approves, which merges the request or arms its   *)
(* auto-merge, or asks for changes.                                        *)
(*                                                                         *)
(* Everybody asks GitHub, which takes up to half a minute, and acts on the *)
(* answer afterwards; the gate has two entrances, the completion of the    *)
(* workflow and the pause for review, which do not know of each other.     *)
(* The earlier phases are done throughout; the row of the feature and the  *)
(* pipeline's thread are DesignPipeline.                                   *)
(***************************************************************************)
EXTENDS Naturals

CONSTANTS
  MaxRetries,     \* max_task_retries of the workflow
  LocalFallback,  \* git.allow_local_merge_fallback
  Troubles        \* bound of a run: the kinds of trouble that come together, once each

\* A lookup fails; a request that was fine no longer is; somebody acts on
\* GitHub; the sweep closes the phase before the report has been verified;
\* both entrances are in use; the status is polled; git fails; somebody asks
\* for changes.
Kinds == {"outage", "drift", "human", "early", "overlap", "poll", "git", "changes"}

ASSUME GateAssumption ==
  /\ MaxRetries \in Nat \ {0}
  /\ LocalFallback \in BOOLEAN
  /\ Troubles \subseteq SUBSET Kinds

VARIABLES
  pr,        \* the pull request on GitHub
  armed,     \* its auto-merge
  main,      \* the local main has the feature
  url,       \* Feature.pr_url is recorded
  task,      \* Task.status of git_expert's task; "parked": in progress, no agent
  pushed,    \* its agent has pushed
  verifying, \* "done" has been committed, the verification is still to come
  retries,   \* Task.retry_count
  spent,     \* the attempts of git_expert's earlier tasks
  closed,    \* git_expert's phase execution is completed
  rework,    \* development's is not: changes have been asked for
  wf,        \* Workflow.status and paused_by
  verdict,   \* Feature.review_status
  gate,      \* what each entrance to the gate has heard from GitHub
  signing,   \* where a person's approval has got to
  sync,      \* Feature.auto_merge_sync_pending
  trouble    \* the kinds of trouble there has been

git  == <<pr, armed, main>>
work == <<task, pushed, verifying, retries, spent>>
vars == <<git, url, work, closed, rework, wf, verdict, gate, signing, sync, trouble>>

None     == "none"
Unknown  == "unknown"
Open     == {"pending", "ready", "work", "stuck"}
Entrances == {"completion", "pause"}
AtReview == [status |-> "paused", by |-> "review"]
Active   == [status |-> "active", by |-> None]
Ended    == [status |-> "completed", by |-> None]

TypeOK ==
  /\ pr \in Open \union {None, "merged", "closed"}
  /\ armed \in BOOLEAN /\ main \in BOOLEAN /\ url \in BOOLEAN
  /\ task \in {"working", "parked", "done", "failed"}
  /\ pushed \in BOOLEAN /\ verifying \in BOOLEAN /\ retries \in 0..MaxRetries /\ spent \in Nat
  /\ closed \in BOOLEAN /\ rework \in BOOLEAN
  /\ wf \in [status : {"active", "paused", "completed", "failed"}, by : {None, "review"}]
  /\ verdict \in {None, "approved", "changes"}
  /\ gate \in [Entrances -> Open \union {None, Unknown, "merged", "closed"}]
  /\ signing \in {"no", "check", "merge", "sync", "settle"}
  /\ sync \in BOOLEAN
  /\ trouble \subseteq Kinds

Init ==
  /\ pr = None /\ armed = FALSE /\ main = FALSE /\ url = FALSE
  /\ task = "working" /\ pushed = FALSE /\ verifying = FALSE /\ retries = 0 /\ spent = 0
  /\ closed = FALSE /\ rework = FALSE
  /\ wf = Active /\ verdict = None
  /\ gate = [e \in Entrances |-> None]
  /\ signing = "no" /\ sync = FALSE
  /\ trouble = {}

Trouble(kinds) == /\ kinds \intersect trouble = {}
                  /\ \E all \in Troubles : trouble \union kinds \subseteq all
                  /\ trouble' = trouble \union kinds

\* get_pr_status: the request as it is, or nothing, which is trouble if there
\* is one and it was asked about.
Answers(asked)     == {IF asked /\ pr # None THEN pr ELSE Unknown, Unknown}
Lost(heard, asked) == IF heard = Unknown /\ asked /\ pr # None THEN {"outage"} ELSE {}

\* derive_workflow_status over the phases.
Derived == IF wf.status \in {"paused", "failed"} \/ ~closed \/ rework THEN wf.status ELSE "completed"
Finished == IF Derived = "completed" THEN [wf EXCEPT !.status = "completed"] ELSE wf

\* evaluate_review_gate asks if there is a recorded request.
Asks(e, also) ==
  /\ gate[e] = None
  /\ \E heard \in Answers(url) :
       /\ gate' = [gate EXCEPT ![e] = heard]
       /\ Trouble(Lost(heard, url) \union also
                   \union (IF \E f \in Entrances : gate[f] # None THEN {"overlap"} ELSE {}))

-----------------------------------------------------------------------------
(* What a bug in the code would make of five of the definitions below. *)

\* The retries are counted, their limit is not asked for.
RetryForever ==
  /\ task = "failed" /\ wf.status = "active"
  /\ task' = "working" /\ pushed' = FALSE /\ retries' = retries + 1
  /\ UNCHANGED <<git, url, verifying, spent, closed, rework, wf, verdict, gate, signing, sync, trouble>>

\* The gate is held, git_expert is not told.
ReopenNothing == UNCHANGED <<task, closed>>

\* An open request has not been merged either.
LandedOrNot(heard) ==
  /\ heard # Unknown
  /\ sync' = FALSE
  /\ main' = (main \/ heard = "merged")

\* A feature that has been approved is asked about again.
UnreviewedOrNot == wf.by # "review" /\ wf.status # "failed"

\* Any verdict will do.
CompletesReviewed(also) ==
  IF verdict # None
  THEN wf' = Ended /\ Trouble(also) /\ UNCHANGED gate
  ELSE Asks("completion", also) /\ UNCHANGED wf

-----------------------------------------------------------------------------
(* GitHub. *)

\* The checks and the reviewers come to a result.
Checks ==
  /\ pr = "pending"
  /\ \E result \in {"ready", "work", "stuck"} : pr' = result
  /\ UNCHANGED <<armed, main, url, work, closed, rework, wf, verdict, gate, signing, sync, trouble>>

\* The request is merged by its auto-merge.
AutoMerge ==
  /\ armed /\ pr = "ready" /\ pr' = "merged"
  /\ UNCHANGED <<armed, main, url, work, closed, rework, wf, verdict, gate, signing, sync, trouble>>

\* Its base moves on, a check is run again.
Drift ==
  /\ pr \in {"ready", "stuck"} /\ Trouble({"drift"})
  /\ pr' \in {"pending", "work"}
  /\ UNCHANGED <<armed, main, url, work, closed, rework, wf, verdict, gate, signing, sync>>

\* A person merges or closes it on GitHub.
OnGitHub ==
  /\ pr \in Open /\ Trouble({"human"})
  /\ pr' \in {"merged", "closed"}
  /\ UNCHANGED <<armed, main, url, work, closed, rework, wf, verdict, gate, signing, sync>>

-----------------------------------------------------------------------------
(* git_expert's task. *)

\* The agent pushes: a request is opened, or an open one has new commits.
Push ==
  /\ task = "working" /\ ~pushed
  /\ pushed' = TRUE
  /\ pr' = IF pr \in {"merged", "closed"} THEN pr ELSE "pending"
  /\ UNCHANGED <<armed, main, url, task, verifying, retries, spent, closed, rework, wf, verdict, gate, signing, sync, trouble>>

\* The report commits "done"; the verification comes later.
Report ==
  /\ task = "working" /\ ~verifying
  /\ task' = "done" /\ verifying' = TRUE
  /\ UNCHANGED <<git, url, pushed, retries, spent, closed, rework, wf, verdict, gate, signing, sync, trouble>>

\* The verification rejects what is not pushed or needs work, and parks what
\* is pending; it writes whatever has become of the task meanwhile.
Verify ==
  /\ verifying /\ verifying' = FALSE
  /\ \E heard \in Answers(pushed) :
       /\ Trouble(Lost(heard, pushed))
       /\ url' = (url \/ heard # Unknown)
       /\ task' = CASE ~pushed \/ heard = "work" -> "failed"
                    [] heard = "pending"         -> "parked"
                    [] OTHER                     -> task
  /\ UNCHANGED <<git, pushed, retries, spent, closed, rework, wf, verdict, gate, signing, sync>>

\* The sweep fails or completes a parked task once its request is resolved.
Resolve ==
  /\ task = "parked" /\ ~closed /\ wf.status = "active" /\ url
  /\ pr # "pending"
  /\ task' = IF pr = "work" THEN "failed" ELSE "done"
  /\ UNCHANGED <<git, url, pushed, verifying, retries, spent, closed, rework, wf, verdict, gate, signing, sync, trouble>>

\* A failed task is given a new agent, whatever its phase.
Retry ==
  /\ task = "failed" /\ wf.status = "active" /\ retries < MaxRetries
  /\ task' = "working" /\ pushed' = FALSE /\ retries' = retries + 1
  /\ UNCHANGED <<git, url, verifying, spent, closed, rework, wf, verdict, gate, signing, sync, trouble>>

-----------------------------------------------------------------------------
(* The gate. *)

\* The last phase is closed, or the arbiter closes that of a task without
\* retries, or gives the workflow up.  An approved feature is over then, another
\* is asked about.
Completes(also) ==
  IF verdict = "approved"
  THEN wf' = Ended /\ Trouble(also) /\ UNCHANGED gate
  ELSE Asks("completion", also) /\ UNCHANGED wf

CloseLast(also) ==
  /\ wf.status = "active" /\ ~closed /\ closed' = TRUE
  /\ IF rework THEN Trouble(also) /\ UNCHANGED <<wf, gate>> ELSE Completes(also)
  /\ UNCHANGED <<git, url, work, rework, verdict, signing, sync>>

Close  == task = "done" /\ CloseLast(IF verifying THEN {"early"} ELSE {})

GiveUp ==
  /\ task = "failed" /\ retries >= MaxRetries
  /\ \/ CloseLast({})
     \/ /\ wf.status = "active" /\ ~closed
        /\ wf' = [wf EXCEPT !.status = "failed"]
        /\ UNCHANGED <<git, url, work, closed, rework, verdict, gate, signing, sync, trouble>>

\* _pause_feature_for_review looks once before it asks.
Unreviewed == verdict # "approved" /\ wf.by # "review" /\ wf.status # "failed"

\* The sweep, or the pipeline's thread, whose workflow may be completed.
PauseForReview ==
  /\ closed /\ ~rework /\ Unreviewed /\ Asks("pause", {})
  /\ UNCHANGED <<git, url, work, closed, rework, wf, verdict, signing, sync>>

AttemptsLeft == spent + 1 + retries < MaxRetries

\* reopen_git_expert_for_pr_fix: only a task that is done.
Reopen ==
  IF task = "done" THEN task' = "failed" /\ closed' = FALSE ELSE UNCHANGED <<task, closed>>

\* evaluate_review_gate and what its caller does with it: the workflow is over,
\* goes back to git_expert while that has attempts left, or waits for a person.
Decide(e) ==
  LET heard == gate[e]
      hold  == heard = "work" /\ AttemptsLeft IN
  /\ heard # None
  /\ gate' = [gate EXCEPT ![e] = None]
  /\ IF hold THEN Reopen ELSE UNCHANGED <<task, closed>>
  /\ wf' = CASE hold             -> wf
             [] heard = "merged" -> Finished
             [] OTHER            -> AtReview
  /\ UNCHANGED <<git, url, pushed, verifying, retries, spent, rework, verdict, signing, sync, trouble>>

\* get_design_status derives the workflow.
Poll ==
  /\ wf.status = "active" /\ Derived = "completed" /\ Trouble({"poll"})
  /\ wf' = Finished
  /\ UNCHANGED <<git, url, work, closed, rework, verdict, gate, signing, sync>>

-----------------------------------------------------------------------------
(* A person at the dashboard. *)

\* The approval resumes the workflow and records the verdict, before anything.
Approve ==
  /\ wf.by = "review" /\ signing = "no"
  /\ verdict' = "approved" /\ signing' = "check"
  /\ wf' = IF wf.status = "paused" THEN Active ELSE wf
  /\ UNCHANGED <<git, url, work, closed, rework, gate, sync, trouble>>

\* What is not ready is refused, what is not known is left to GitHub.
CheckFirst ==
  /\ signing = "check"
  /\ \E heard \in Answers(url) :
       /\ Trouble(Lost(heard, url))
       /\ signing' = IF heard \in {"ready", Unknown} THEN "merge" ELSE "no"
  /\ UNCHANGED <<git, url, work, closed, rework, wf, verdict, gate, sync>>

\* gh pr merge --auto merges the request or arms its auto-merge.
Merge ==
  /\ signing = "merge" /\ url
  /\ \/ /\ pr \in {"ready", "merged"}
        /\ pr' = "merged" /\ signing' = "sync"
        /\ UNCHANGED <<armed, sync>>
     \/ /\ pr \in Open
        /\ armed' = TRUE /\ sync' = TRUE /\ signing' = "settle"
        /\ UNCHANGED pr
  /\ UNCHANGED <<main, url, work, closed, rework, wf, verdict, gate, trouble>>

\* Without a request, or if it cannot be merged, the branch is merged locally.
MergeLocally ==
  /\ signing = "merge"
  /\ \/ ~url /\ UNCHANGED trouble
     \/ url /\ pr = "closed" /\ UNCHANGED trouble
     \/ url /\ pr # "closed" /\ Trouble({"outage"})
  /\ IF ~url \/ LocalFallback
     THEN main' = TRUE /\ signing' = "sync"
     ELSE signing' = "settle" /\ UNCHANGED main
  /\ UNCHANGED <<pr, armed, url, work, closed, rework, wf, verdict, gate, sync>>

\* A conflict leaves the branch as it is.
Conflict ==
  /\ signing = "merge" /\ ~url /\ Trouble({"git"})
  /\ signing' = "settle"
  /\ UNCHANGED <<git, url, work, closed, rework, wf, verdict, gate, sync>>

\* A failure is logged, no more.
SyncAfterMerge ==
  /\ signing = "sync" /\ signing' = "settle"
  /\ \/ main' = TRUE /\ UNCHANGED trouble
     \/ Trouble({"git"}) /\ UNCHANGED main
  /\ UNCHANGED <<pr, armed, url, work, closed, rework, wf, verdict, gate, sync>>

Settle ==
  /\ signing = "settle" /\ signing' = "no"
  /\ wf' = Finished
  /\ UNCHANGED <<git, url, work, closed, rework, verdict, gate, sync, trouble>>

\* Changes are asked for: a failed task of the workflow starts again, else
\* development does.  The workflow stays paused.
RequestChanges ==
  /\ wf.by = "review" /\ Trouble({"changes"})
  /\ verdict' = "changes"
  /\ IF task = "failed" THEN task' = "working" /\ pushed' = FALSE /\ UNCHANGED rework
     ELSE rework' = TRUE /\ UNCHANGED <<task, pushed>>
  /\ UNCHANGED <<git, url, verifying, retries, spent, closed, wf, gate, signing, sync>>

\* Play, while a person is awaited.
Resume ==
  /\ wf.by = "review" /\ verdict = "changes" /\ wf.status = "paused"
  /\ wf' = Active
  /\ UNCHANGED <<git, url, work, closed, rework, verdict, gate, signing, sync, trouble>>

\* Development is done again, and the phases after it up to git_expert's,
\* which has a new task.
Reworked ==
  /\ rework /\ wf.status = "active" /\ ~verifying
  /\ rework' = FALSE /\ closed' = FALSE
  /\ task' = "working" /\ pushed' = FALSE /\ retries' = 0 /\ spent' = spent + 1 + retries
  /\ UNCHANGED <<git, url, verifying, wf, verdict, gate, signing, sync, trouble>>

-----------------------------------------------------------------------------
(* _sync_local_main_for_landed_auto_merges. *)

Landed(heard) ==
  /\ heard \notin Open \union {Unknown}
  /\ sync' = FALSE
  /\ main' = (main \/ heard = "merged")

SyncMain ==
  /\ sync /\ url
  /\ \/ \E heard \in Answers(TRUE) : Trouble(Lost(heard, TRUE)) /\ Landed(heard)
     \/ pr = "merged" /\ Trouble({"git"}) /\ UNCHANGED <<main, sync>>
  /\ UNCHANGED <<pr, armed, url, work, closed, rework, wf, verdict, gate, signing>>

-----------------------------------------------------------------------------
GitHub == Checks \/ AutoMerge
Task   == Push \/ Report \/ Verify \/ Resolve \/ Retry
Gate   == Close \/ GiveUp \/ PauseForReview \/ \E e \in Entrances : Decide(e)
Signed == CheckFirst \/ Merge \/ MergeLocally \/ Conflict \/ SyncAfterMerge \/ Settle
Person == Approve \/ RequestChanges \/ Resume \/ Poll \/ Drift \/ OnGitHub

Next == GitHub \/ Task \/ Gate \/ Signed \/ Person \/ Reworked \/ SyncMain

\* GitHub's checks come to a result and an armed request is merged; agents come
\* to an end; the sweep runs every few seconds, requests and threads go on.
\* Nobody has to approve, or to look at the dashboard.
Fairness ==
  /\ WF_vars(GitHub) /\ WF_vars(Push) /\ WF_vars(Report) /\ WF_vars(Verify)
  /\ WF_vars(Resolve) /\ WF_vars(Retry) /\ WF_vars(GiveUp) /\ WF_vars(Reworked)
  /\ WF_vars(Close) /\ WF_vars(PauseForReview /\ wf.status = "active")
  /\ \A e \in Entrances : WF_vars(Decide(e))
  /\ WF_vars(Signed) /\ WF_vars(SyncMain)

Spec == Init /\ [][Next]_vars /\ Fairness

-----------------------------------------------------------------------------
(* What the gate is for. *)

\* Work that has come to its end does not stay there unseen: it gets to a
\* person, or is over.  Holding the gate and handing the task back to git_expert
\* (evaluate_review_gate, reopen_git_expert_for_pr_fix) ends with the attempts,
\* whatever GitHub answers.  Unless the sweep has closed the phase before the
\* report was verified: then the task may be parked where nobody looks for it.
ReachesReviewer ==
  closed /\ verdict # "approved"
    ~> wf.by = "review" \/ wf.status \in {"completed", "failed"} \/ "early" \in trouble

\* The tool merges a request only on a verdict that still stands, also when it
\* lands later, by the auto-merge an approval has armed (review_feature), and
\* although a pause for review may be under way.  Unless both entrances to the
\* gate were asking at once: the second then puts an approved feature back.
LandsApproved ==
  [][pr' = "merged" /\ pr # "merged" /\ trouble' = trouble
       => verdict = "approved" \/ "overlap" \in trouble]_vars

\* In review mode no workflow is over that nobody has approved or merged, however
\* the closing, an approval, a rework and what GitHub does fall together.  Unless
\* the status is polled while the gate is asking (status_derivation), or both
\* entrances were asking at once.
NobodySkipped ==
  wf.status = "completed"
    => verdict = "approved" \/ pr = "merged" \/ trouble \intersect {"poll", "overlap"} # {}

\* An approval that was left to the auto-merge reaches the local main once it
\* lands (_sync_local_main_for_landed_auto_merges), whatever fails in between.
QueuedLands == armed /\ pr = "merged" ~> main
=============================================================================
