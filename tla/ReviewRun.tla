------------------------------ MODULE ReviewRun ------------------------------
(***************************************************************************)
(* One AI review run, from the spawned task to the last word to the        *)
(* requester: the reviews the note selected, one after another, the rows   *)
(* they leave in SQLite and the discussions they open on GitLab.  Every    *)
(* store call and every GitLab call may fail; the task or its process may  *)
(* die between any two of them, and nothing picks the run up again.  A     *)
(* second task writes the progress an execution reports.                   *)
(*                                                                         *)
(* Store calls whose error is only logged (progress) write or do not;      *)
(* `broken' remembers that one whose error is returned has failed.         *)
(***************************************************************************)
EXTENDS Naturals, FiniteSets


CONSTANTS Reviews,      \* the AI reviews the note selected
          NoReview,
          MaxFindings,  \* bound: findings of one execution
          MaxQueued     \* bound: progress reports not yet written

ASSUME ReviewRunAssumption ==
  /\ IsFiniteSet(Reviews) /\ Reviews # {} /\ NoReview \notin Reviews
  /\ MaxFindings \in Nat /\ MaxQueued \in Nat

VARIABLES
  at,        \* where the run's task stands
  todo,      \* reviews the loop has not reached
  cur,       \* the review in hand
  outcome,   \* what its execution came to
  found,     \* findings it returned
  left,      \* of those, not yet recorded
  drafts,    \* comments not yet tried
  published, \* comments published for the review in hand
  total,     \* the summary's findings and comments
  failing,   \* whether the run returns an error
  run,       \* the status of its row in review_requests
  sums,      \* the findings and comments of that row
  row,       \* the status of its rows in review_task_runs
  detail,    \* their error code, findings and comments
  phase,     \* their progress_phase
  stored,    \* rows in review_findings
  records,   \* rows in review_comment_records
  queued,    \* progress reports in the channel
  posted,    \* discussions of the run on GitLab
  notified,  \* whether the requester was told of a failure
  broken     \* whether a store call whose error is returned has failed

book == <<found, left, drafts, published>>
loop == <<todo, cur, outcome, total>>
tables == <<run, sums, row, detail, phase, stored, records>>
outside == <<posted, notified>>
vars == <<at, book, loop, failing, tables, queued, outside, broken>>

Failures == {"archive_error",    \* AppError::Archive: download, unzip
             "archive_refused",  \* archive timeout or permission: AppError::GitLab
             "ai_timeout",       \* the three timeouts that allow a second try
             "ai_error"}         \* any other, file system errors included
Outcomes == {"none", "ok"} \cup Failures
Ended == {"completed", "failed"}
RowStates == {"none", "running"} \cup Ended
Phases == {"none", "working"} \cup Ended
Executing == {"context", "fallback"}
Steps == {"accepted", "fetching", "choosing", "preparing", "recording",
          "publishing", "failing", "summarising", "closing", "reporting",
          "over", "dead"} \cup Executing

Zero == [findings |-> 0, comments |-> 0]
Blank == [code |-> "none", findings |-> 0, comments |-> 0]

Init ==
  /\ at = "accepted" /\ failing = FALSE
  /\ todo = Reviews /\ cur = NoReview /\ outcome = "none"
  /\ found = 0 /\ left = 0 /\ drafts = 0 /\ published = 0
  /\ total = Zero
  /\ run = "none" /\ sums = Zero
  /\ row = [r \in Reviews |-> "none"]
  /\ detail = [r \in Reviews |-> Blank]
  /\ phase = [r \in Reviews |-> "none"]
  /\ stored = 0 /\ records = 0
  /\ queued = [r \in Reviews |-> 0]
  /\ posted = 0 /\ notified = FALSE /\ broken = FALSE

\* A progress write: its error is only logged.
Show(r, p) == \E q \in {phase[r], p} : phase' = [phase EXCEPT ![r] = q]

\* A store call whose error is returned fails: the run is cut short.
Break(step) == at' = step /\ failing' = TRUE /\ broken' = TRUE
Go(step) == at' = step /\ UNCHANGED <<failing, broken>>

-----------------------------------------------------------------------------
\* review_merge_request_note writes the run's row first.
OpenRun ==
  /\ at = "accepted"
  /\ \/ Go("fetching") /\ run' = "running"
     \/ Break("reporting") /\ UNCHANGED run
  /\ UNCHANGED <<book, loop, sums, row, detail, phase, stored, records, queued,
                 outside>>

\* The emoji, then the diff.  Without complete diff refs every review is
\* skipped; without a diff the run fails.
Fetch ==
  /\ at = "fetching"
  /\ \/ at' \in {"choosing", "summarising"} /\ UNCHANGED failing
     \/ at' = "closing" /\ failing' = TRUE
  /\ UNCHANGED <<book, loop, tables, queued, outside, broken>>

\* The head of the loop; the reviews come in any configured order.
StartTask(r) ==
  /\ at = "choosing" /\ r \in todo
  /\ todo' = todo \ {r} /\ cur' = r
  /\ outcome' = "none" /\ found' = 0 /\ published' = 0
  /\ \/ /\ Go("preparing")
        /\ row' = [row EXCEPT ![r] = "running"]
        /\ Show(r, "working")
     \/ Break("closing") /\ UNCHANGED <<row, phase>>
  /\ UNCHANGED <<left, drafts, total, run, sums, detail, stored, records, queued,
                 outside>>

LoopEnds ==
  /\ at = "choosing" /\ todo = {}
  /\ Go("summarising")
  /\ UNCHANGED <<book, loop, tables, queued, outside>>

\* The archive of the head commit: unpacked, over a limit (the review goes
\* on with the diff only), or not to be had.
PrepareContext ==
  /\ at = "preparing"
  /\ \/ /\ at' \in Executing
        /\ Show(cur, "working")
        /\ UNCHANGED outcome
     \/ /\ at' = "failing"
        /\ outcome' \in {"archive_error", "archive_refused", "ai_error"}
        /\ UNCHANGED phase
  /\ UNCHANGED <<book, todo, cur, total, failing, run, sums, row, detail, stored,
                 records, queued, outside, broken>>

\* The execution reports progress into an unbounded channel.
ReportProgress ==
  /\ at \in Executing /\ outcome = "none" /\ queued[cur] < MaxQueued
  /\ queued' = [queued EXCEPT ![cur] = @ + 1]
  /\ UNCHANGED <<at, book, loop, failing, tables, outside, broken>>

\* The writer task takes one report out of the channel.
WriteProgress(r) ==
  /\ queued[r] > 0
  /\ queued' = [queued EXCEPT ![r] = @ - 1]
  /\ Show(r, "working")
  /\ UNCHANGED <<at, book, loop, failing, run, sums, row, detail, stored, records,
                 outside, broken>>

\* The execution returns and drops its end of the channel.
ExecutionReturns ==
  /\ at \in Executing /\ outcome = "none"
  /\ \/ outcome' = "ok" /\ found' \in 0..MaxFindings
     \/ outcome' \in {"ai_timeout", "ai_error"} /\ UNCHANGED found
  /\ UNCHANGED <<at, left, drafts, published, todo, cur, total, failing, tables,
                 queued, outside, broken>>

\* Faulty variant: the writer task is not awaited.
WriterIgnored == at \in Executing /\ outcome # "none"

\* The writer task is awaited after the execution.
WriterDone == at \in Executing /\ outcome # "none" /\ queued[cur] = 0

\* Faulty variant: a timeout of the fallback starts another one.
FallBackAgain ==
  /\ WriterDone /\ outcome = "ai_timeout"
  /\ Go("fallback")
  /\ outcome' = "none"
  /\ Show(cur, "working")
  /\ UNCHANGED <<book, todo, cur, total, run, sums, row, detail, stored, records,
                 queued, outside>>

\* A timeout with repository context allows one execution with the diff only.
FallBack ==
  /\ WriterDone /\ at = "context" /\ outcome = "ai_timeout"
  /\ Go("fallback")
  /\ outcome' = "none"
  /\ Show(cur, "working")
  /\ UNCHANGED <<book, todo, cur, total, run, sums, row, detail, stored, records,
                 queued, outside>>

TakeResult ==
  /\ WriterDone
  /\ \/ /\ outcome = "ok"
        /\ Go("recording")
        /\ left' = found
        /\ total' = [total EXCEPT !.findings = @ + found]
     \/ /\ outcome # "ok" /\ ~(at = "context" /\ outcome = "ai_timeout")
        /\ Go("failing")
        /\ UNCHANGED <<left, total>>
  /\ UNCHANGED <<found, drafts, published, todo, cur, outcome, tables, queued,
                 outside>>

-----------------------------------------------------------------------------
(* A successful review: its findings are recorded, then published.         *)

RecordFinding ==
  /\ at = "recording" /\ left > 0
  /\ \/ Go("recording") /\ stored' = stored + 1 /\ left' = left - 1
     \/ Break("closing") /\ UNCHANGED <<stored, left>>
  /\ UNCHANGED <<found, drafts, published, loop, run, sums, row, detail, phase,
                 records, queued, outside>>

\* Findings of one line share a comment.
Draft ==
  /\ at = "recording" /\ left = 0
  /\ Go("publishing")
  /\ drafts' \in 0..found /\ (drafts' = 0 <=> found = 0)
  /\ Show(cur, "working")
  /\ UNCHANGED <<found, left, published, loop, run, sums, row, detail, stored,
                 records, queued, outside>>

\* What becomes of a discussion: opened and recorded; opened, but its record
\* lost; or not acknowledged, whether GitLab has opened it or not.
Recorded == posted' = posted + 1 /\ records' = records + 1
Unrecorded == posted' = posted + 1 /\ UNCHANGED records
Unacknowledged == posted' \in {posted, posted + 1} /\ UNCHANGED records

\* Faulty variant: a comment that GitLab refused is counted.
PublishUnchecked ==
  /\ at = "publishing" /\ drafts > 0
  /\ drafts' = drafts - 1
  /\ \/ Go("publishing") /\ Recorded /\ published' = published + 1
     \/ Go("publishing") /\ Unacknowledged /\ published' = published + 1
     \/ Break("closing") /\ Unrecorded /\ UNCHANGED published
  /\ UNCHANGED <<found, left, loop, run, sums, row, detail, phase, stored, queued,
                 notified>>

\* publish_comment_drafts: an unacknowledged comment is passed over.
Publish ==
  /\ at = "publishing" /\ drafts > 0
  /\ drafts' = drafts - 1
  /\ \/ Go("publishing") /\ Recorded /\ published' = published + 1
     \/ Go("publishing") /\ Unacknowledged /\ UNCHANGED published
     \/ Break("closing") /\ Unrecorded /\ UNCHANGED published
  /\ UNCHANGED <<found, left, loop, run, sums, row, detail, phase, stored, queued,
                 notified>>

\* finish_ai_task_run, one transaction.
CompleteTask ==
  /\ at = "publishing" /\ drafts = 0
  /\ total' = [total EXCEPT !.comments = @ + published]
  /\ Show(cur, "completed")
  /\ \/ /\ Go("choosing")
        /\ row' = [row EXCEPT ![cur] = "completed"]
        /\ detail' = [detail EXCEPT ![cur] =
             [code |-> "none", findings |-> found, comments |-> published]]
     \/ Break("closing") /\ UNCHANGED <<row, detail>>
  /\ UNCHANGED <<book, todo, cur, outcome, run, sums, stored, records, queued,
                 outside>>

-----------------------------------------------------------------------------
(* A failed review: the loop goes on, unless its archive was the reason.   *)

FailRow ==
  /\ row' = [row EXCEPT ![cur] = "failed"]
  /\ detail' = [detail EXCEPT ![cur] = [Blank EXCEPT !.code = outcome]]

\* Faulty variant: the row of a review without an archive is left open.
FailTaskAbruptly ==
  /\ at = "failing" /\ at' = "choosing"
  /\ \/ outcome = "archive_error" /\ UNCHANGED <<row, detail>>
     \/ outcome # "archive_error" /\ FailRow
  /\ UNCHANGED <<book, loop, failing, run, sums, phase, stored, records, queued,
                 outside, broken>>

\* Faulty variant: a failed review ends the loop, whatever the reason.
FailTaskAndRun ==
  /\ at = "failing" /\ at' = "closing" /\ failing' = TRUE
  /\ Show(cur, "failed")
  /\ FailRow
  /\ UNCHANGED <<book, loop, run, sums, stored, records, queued, outside, broken>>

FailTask ==
  /\ at = "failing"
  /\ Show(cur, "failed")
  /\ \/ FailRow /\ outcome # "archive_error" /\ Go("choosing")
     \/ /\ FailRow /\ outcome = "archive_error"
        /\ at' = "closing" /\ failing' = TRUE /\ UNCHANGED broken
     \/ Break("closing") /\ UNCHANGED <<row, detail>>
  /\ UNCHANGED <<book, loop, run, sums, stored, records, queued, outside>>

-----------------------------------------------------------------------------
\* publish_manual_review_summary: one more comment.
Summarise ==
  /\ at = "summarising"
  /\ \/ /\ Go("closing") /\ Recorded
        /\ total' = [total EXCEPT !.comments = @ + 1]
     \/ Go("closing") /\ Unacknowledged /\ UNCHANGED total
     \/ Break("closing") /\ Unrecorded /\ UNCHANGED total
  /\ UNCHANGED <<book, todo, cur, outcome, run, sums, row, detail, phase, stored,
                 queued, notified>>

\* Faulty variant: an error of the last write is ignored.
CloseCarelessly ==
  /\ at = "closing"
  /\ run' \in {run, IF failing THEN "failed" ELSE "completed"}
  /\ sums' = IF failing THEN Zero ELSE total
  /\ at' = IF failing THEN "reporting" ELSE "over"
  /\ UNCHANGED <<book, loop, failing, row, detail, phase, stored, records, queued,
                 outside, broken>>

\* The run's row is finished.  A failed write makes a successful run fail.
CloseRun ==
  /\ at = "closing"
  /\ \/ /\ ~failing /\ Go("over")
        /\ run' = "completed" /\ sums' = total
     \/ /\ failing /\ Go("reporting")
        /\ run' = "failed" /\ sums' = Zero
     \/ Break("reporting") /\ UNCHANGED <<run, sums>>
  /\ UNCHANGED <<book, loop, row, detail, phase, stored, records, queued, outside>>

\* run_webhook_review tells the requester of the failure, as far as it can.
Notify ==
  /\ at = "reporting"
  /\ Go("over")
  /\ notified' = TRUE
  /\ UNCHANGED <<book, loop, tables, queued, posted>>

\* The task panics, or the process is stopped: the tables stay as they are.
Die ==
  /\ at \notin {"over", "dead"}
  /\ Go("dead")
  /\ queued' = [r \in Reviews |-> 0]
  /\ UNCHANGED <<book, loop, tables, outside>>

-----------------------------------------------------------------------------
Advance ==
  \/ OpenRun \/ Fetch \/ LoopEnds \/ PrepareContext
  \/ \E r \in Reviews : StartTask(r)
  \/ ExecutionReturns \/ FallBack \/ TakeResult
  \/ RecordFinding \/ Draft \/ Publish \/ CompleteTask \/ FailTask
  \/ Summarise \/ CloseRun \/ Notify

Next ==
  \/ Advance
  \/ ReportProgress
  \/ \E r \in Reviews : WriteProgress(r)
  \/ Die

(* The run's task never waits for anything without a timeout: every HTTP   *)
(* call and the execution as a whole have one.  The writer task waits for  *)
(* the store alone.                                                        *)
Fairness ==
  /\ WF_vars(Advance)
  /\ \A r \in Reviews : WF_vars(WriteProgress(r))

Safe == Init /\ [][Next]_vars
Spec == Safe /\ Fairness
-----------------------------------------------------------------------------
(* Properties.                                                             *)

ControlOK ==
  /\ at \in Steps /\ failing \in BOOLEAN
  /\ todo \subseteq Reviews /\ cur \in Reviews \cup {NoReview}
  /\ outcome \in Outcomes
  /\ notified \in BOOLEAN /\ broken \in BOOLEAN

CountsOK ==
  /\ found \in 0..MaxFindings /\ left \in 0..MaxFindings
  /\ drafts \in 0..MaxFindings /\ published \in Nat
  /\ total \in [findings : Nat, comments : Nat]
  /\ sums \in [findings : Nat, comments : Nat]
  /\ stored \in Nat /\ records \in Nat /\ posted \in Nat

RowsOK ==
  /\ run \in RowStates /\ row \in [Reviews -> RowStates]
  /\ detail \in [Reviews -> [code : {"none"} \cup Failures,
                             findings : Nat, comments : Nat]]
  /\ phase \in [Reviews -> Phases]
  /\ queued \in [Reviews -> 0..MaxQueued]

\* Type invariant.
TypeOK == ControlOK /\ CountsOK /\ RowsOK

Ledger == INSTANCE RunLedger WITH
            run <- run, rows <- row

(* The rows keep the promise of the ledger: none is reopened or settled    *)
(* twice, reviews run one at a time inside an open run, and a completed    *)
(* run has settled all its reviews or run none (service.rs:                *)
(* review_merge_request_note, run_selected_ai_reviews).                    *)
ImplementsLedger == Ledger!Spec

(* A completed run's totals are the number of its finding rows and of its  *)
(* comment records, whatever GitLab refused (service.rs: record_findings,  *)
(* publish_comment_drafts, run_selected_ai_reviews).                       *)
BooksBalance ==
  run = "completed" => sums.findings = stored /\ sums.comments = records

\* Every comment on record exists on GitLab (service.rs: publish_comment_drafts).
RecordsArePosted == records <= posted

(* A run of this process that is over leaves a row open, or opened none,   *)
(* only after a store call failed; a completed one was not reported as     *)
(* failed, and any other was.                                              *)
NothingLeftOpen ==
  at = "over" =>
    /\ run \in {"none", "running"} => broken
    /\ (\E r \in Reviews : row[r] = "running") => broken
    /\ notified <=> run # "completed"

(* While the store works, one failing review does not fail the run: it     *)
(* fails only when there was no diff, or when the archive of the one       *)
(* review after which nothing was started could not be had.                *)
FailureHasCause ==
  run = "failed" /\ ~broken =>
    \/ Ledger!NoneStarted
    \/ \E r \in Reviews :
         /\ \A q \in Reviews : detail[q].code = "archive_error" <=> q = r
         /\ \A q \in Reviews : row[q] = "none" <=> q \in todo

(* Progress reported by an execution is never written over what was shown  *)
(* when the review ended (service.rs: execute_ai_review awaits the writer). *)
EndIsShownLast ==
  [][\A r \in Reviews : row[r] \in Ended => phase'[r] = phase[r]]_vars

(* What docs/design.md says of archive failures other than limits: the     *)
(* review run fails.                                                       *)
ArchiveFailureFailsRun ==
  (\E r \in Reviews : detail[r].code \in {"archive_error", "archive_refused"}) =>
    run # "completed"

\* Every accepted run comes to its end, unless it dies on the way (service.rs:
\* the loop of run_selected_ai_reviews and the one fallback of each review).
RunEnds == at = "accepted" ~> at \in {"over", "dead"}
=============================================================================
