------------------------------ MODULE ScriptRun ------------------------------
(***************************************************************************)
(* One script task, from the spawned task to the last word to the          *)
(* requester: its rows in SQLite, its working directory, the script's      *)
(* processes, the result file they write and the comments made of it.      *)
(* Around it the hourly cleanup of old working directories.  A task for    *)
(* which there was no permit is only recorded and reported.                *)
(*                                                                         *)
(* The script does to its result file what it likes, and so do processes   *)
(* it leaves behind.  A failed store call has no effect; `broken' says one *)
(* has failed, `lost' that a comment was not acknowledged.                 *)
(***************************************************************************)
EXTENDS Naturals

CONSTANT MaxFindings   \* bound: lines of the form path:line:message

ASSUME ScriptRunAssumption == MaxFindings \in Nat

VARIABLES
  at,        \* where the task stands
  refused,   \* whether there was no permit for it
  verdict,   \* how it ends
  request,   \* the status of its row in review_requests
  task,      \* the status of its row in review_task_runs
  counts,    \* the findings and comments of the request's row
  stored,    \* rows in review_findings
  records,   \* rows in review_comment_records
  posted,    \* its discussions on GitLab
  word,      \* what the last acknowledged comment said
  proc,      \* the script's own process
  stray,     \* a process it left behind: in its group, or out of it
  result,    \* result.txt
  status,    \* ScriptTaskStatus
  text,      \* what was read of the result
  found,     \* findings in it
  left,      \* of those, not yet recorded, then not yet placed
  aside,     \* of those, set aside for the comment on the merge request
  other,     \* whether there is other text in it
  shown,     \* findings shown in comments, and whether the other text was
  otherShown,
  active,    \* whether the directory is in ACTIVE_SCRIPT_WORK_DIRS
  dir,       \* the directory
  stale,     \* whether it is older than a day
  pass,      \* what the cleanup's snapshot says of the directory
  broken, lost

rows == <<request, task, counts, stored>>
comments == <<records, posted, word, lost, shown, otherShown>>
script == <<proc, stray, result>>
reading == <<status, text, found, left, aside, other>>
disk == <<active, dir, stale>>
vars == <<at, refused, verdict, rows, comments, script, reading, disk, pass, broken>>

Ended == {"completed", "failed"}
Results == {"absent", "empty", "lines", "large"}
Processes == {"none", "running", "zero", "nonzero", "killed"}
Statuses == {"none", "passed", "failed", "timed_out", "output_limit"}
\* Where the runner holds the directory.
Working == {"executing", "draining", "checking_result", "reading_result",
            "recording", "placing", "combining"}
Steps == {"accepted", "registered", "checking", "preparing", "settling",
          "closing", "telling", "over", "dead"} \cup Working

Zero == [findings |-> 0, comments |-> 0]

Init ==
  /\ at = "accepted" /\ refused \in BOOLEAN /\ verdict = "none"
  /\ request = "none" /\ task = "none" /\ counts = Zero /\ stored = 0
  /\ records = 0 /\ posted = 0 /\ word = "none" /\ lost = FALSE
  /\ proc = "none" /\ stray = "none" /\ result = "absent"
  /\ status = "none" /\ text = "none" /\ found = 0 /\ left = 0
  /\ aside = 0 /\ other = FALSE /\ shown = 0 /\ otherShown = FALSE
  /\ active = FALSE /\ dir = "absent" /\ stale = FALSE /\ pass = "idle"
  /\ broken = FALSE

Go(step) == at' = step /\ UNCHANGED <<verdict, broken>>
\* The run returns an error, from the store or from elsewhere.
Fail == at' = "settling" /\ verdict' = "failed" /\ UNCHANGED broken
Break == at' = "settling" /\ verdict' = "failed" /\ broken' = TRUE

\* The run returns, and lets the directory go.
Abandon == Fail /\ active' = FALSE
BreakOff == Break /\ active' = FALSE
Done == at' = "settling" /\ verdict' = "completed" /\ active' = FALSE /\ UNCHANGED broken

-----------------------------------------------------------------------------
(* The rows, and what has to be known before anything is run.              *)

OpenRequest ==
  /\ at = "accepted"
  /\ \/ request' = "running" /\ Go("registered")
     \/ /\ at' = "telling" /\ verdict' = "failed" /\ broken' = TRUE
        /\ UNCHANGED request
  /\ UNCHANGED <<refused, task, counts, stored, comments, script, reading, disk, pass>>

OpenTask ==
  /\ at = "registered" /\ ~refused
  /\ \/ task' = "running" /\ Go("checking")
     \/ /\ at' = "closing" /\ verdict' = "failed" /\ broken' = TRUE
        /\ UNCHANGED task
  /\ UNCHANGED <<refused, request, counts, stored, comments, script, reading, disk, pass>>

\* A task without a permit has its row opened, if that succeeds, and ended at
\* once; its failure is reported like any other.
RefuseTask ==
  /\ at = "registered" /\ refused
  /\ \/ task' = "running" /\ Fail
     \/ Break /\ UNCHANGED task
  /\ UNCHANGED <<refused, request, counts, stored, comments, script, reading, disk, pass>>

\* The commit id, the source project, its URL and its archive.
Check ==
  /\ at = "checking"
  /\ Go("preparing") \/ Fail
  /\ UNCHANGED <<refused, rows, comments, script, reading, disk, pass>>

\* The directory is registered, then made; what fails after that leaves it
\* there, without protection.
Prepare ==
  /\ at = "preparing"
  /\ \/ /\ Go("executing")
        /\ active' = TRUE /\ dir' = "present"
        /\ proc' = "running" /\ result' = "empty"
     \/ /\ Fail
        /\ dir' \in {"absent", "present"}
        /\ UNCHANGED <<active, proc, result>>
  /\ UNCHANGED <<refused, rows, comments, stray, reading, stale, pass>>

-----------------------------------------------------------------------------
(* The script.                                                             *)

Alive == proc = "running" \/ stray # "none"

Write ==
  /\ Alive /\ dir = "present"
  /\ result' \in Results
  /\ UNCHANGED <<at, refused, verdict, rows, comments, proc, stray, reading, disk,
                 pass, broken>>

LeaveBehind ==
  /\ proc = "running"
  /\ stray' \in {"grouped", "detached"}
  /\ UNCHANGED <<at, refused, verdict, rows, comments, proc, result, reading, disk,
                 pass, broken>>

Exit ==
  /\ \/ proc = "running" /\ proc' \in {"zero", "nonzero"} /\ UNCHANGED stray
     \/ stray # "none" /\ stray' = "none" /\ UNCHANGED proc
  /\ UNCHANGED <<at, refused, verdict, rows, comments, result, reading, disk, pass,
                 broken>>

-----------------------------------------------------------------------------
(* The runner waits for it: select! over the exit, the timeout and a look  *)
(* at the size every 50 ms.                                                *)

\* Faulty variant: whatever the exit code, the result is read and published.
ExitedAnyhow ==
  /\ at = "executing" /\ proc \in {"zero", "nonzero"}
  /\ Go("draining") /\ status' = "passed"
  /\ UNCHANGED <<refused, rows, comments, script, text, found, left, aside, other, disk, pass>>

\* If the wait itself fails the child is dropped, and killed with it.
Exited ==
  /\ at = "executing"
  /\ \/ /\ proc \in {"zero", "nonzero"} /\ Go("draining")
        /\ status' = IF proc = "zero" THEN "passed" ELSE "failed"
        /\ UNCHANGED <<proc, active>>
     \/ /\ Abandon /\ UNCHANGED status
        /\ proc' = IF proc = "running" THEN "killed" ELSE proc
  /\ UNCHANGED <<refused, rows, comments, stray, result, text, found, left, aside, other,
                 dir, stale, pass>>

Oversized == result = "large"

\* terminate_and_reap: the group is killed, or the direct child only, or not
\* even that in the time allowed.
Terminated ==
  \/ /\ proc' = IF proc = "running" THEN "killed" ELSE proc
     /\ stray' = IF stray = "grouped" THEN "none" ELSE stray
  \/ /\ proc' \in {proc, IF proc = "running" THEN "killed" ELSE proc}
     /\ UNCHANGED stray

TimesOut ==
  /\ at = "executing"
  /\ Go("draining")
  /\ Terminated
  /\ status' = "timed_out"
  /\ UNCHANGED <<refused, rows, comments, result, text, found, left, aside, other, disk, pass>>

TooLarge ==
  /\ at = "executing" /\ Oversized
  /\ Go("draining")
  /\ Terminated
  /\ status' = "output_limit"
  /\ UNCHANGED <<refused, rows, comments, result, text, found, left, aside, other, disk, pass>>

\* The source snapshot is removed, or cannot be: a change of the directory
\* makes it a young one.
SourceRemoved == UNCHANGED stale \/ stale' = FALSE

\* Faulty variant: the output is read until whoever holds it open is gone.
JudgeWhenClosed ==
  /\ at = "draining" /\ stray = "none"
  /\ SourceRemoved
  /\ Go("checking_result")
  /\ status' = IF Oversized THEN "output_limit" ELSE status
  /\ UNCHANGED <<refused, rows, comments, script, text, found, left, aside, other,
                 active, dir, pass>>

\* Faulty variant: the directory is let go as soon as the script is done.
JudgeUnguarded ==
  /\ at = "draining"
  /\ Go("checking_result")
  /\ active' = FALSE
  /\ status' = IF Oversized THEN "output_limit" ELSE status
  /\ UNCHANGED <<refused, rows, comments, script, text, found, left, aside, other,
                 dir, stale, pass>>

\* The output is drained as far as it comes, the note is appended to the log,
\* which may fail, and the size is looked at again.
Judge ==
  /\ at = "draining"
  /\ SourceRemoved
  /\ \/ /\ Go("checking_result")
        /\ \/ Oversized /\ status' = "output_limit"
           \/ ~Oversized /\ UNCHANGED status
        /\ result' \in IF status' = "output_limit" THEN {"absent", result} ELSE {result}
        /\ UNCHANGED active
     \/ Abandon /\ UNCHANGED <<status, result>>
  /\ UNCHANGED <<refused, rows, comments, proc, stray, text, found, left, aside, other,
                 dir, pass>>

-----------------------------------------------------------------------------
(* The result is read and published.                                       *)

CheckResult ==
  /\ at = "checking_result"
  /\ \/ status # "output_limit" /\ result \notin {"absent", "large"}
        /\ Go("reading_result") /\ UNCHANGED active
     \/ /\ status = "output_limit" \/ result \in {"absent", "large"}
        /\ Abandon
  /\ UNCHANGED <<refused, rows, comments, script, reading, dir, stale, pass>>

\* What is read is what the file holds by now, and a file that is not UTF-8
\* is an error.  A line that parses is a finding; if none does there is other
\* text.
ReadResult ==
  /\ at = "reading_result"
  /\ \/ /\ status = "passed" /\ result # "absent"
        /\ text' = result
        /\ UNCHANGED active
        /\ \/ /\ result = "empty" /\ Go("combining")
              /\ UNCHANGED <<found, left, other>>
           \/ /\ result # "empty" /\ Go("recording")
              /\ found' \in 0..MaxFindings /\ left' = found'
              /\ other' \in BOOLEAN /\ (found' = 0 => other')
     \/ Abandon /\ UNCHANGED <<text, found, left, other>>
  /\ UNCHANGED <<refused, rows, comments, script, status, aside, dir, stale, pass>>

RecordFinding ==
  /\ at = "recording"
  /\ \/ /\ left > 0
        /\ \/ stored' = stored + 1 /\ left' = left - 1 /\ Go("recording") /\ UNCHANGED active
           \/ BreakOff /\ UNCHANGED <<stored, left>>
     \/ /\ left = 0 /\ left' = found
        /\ Go("placing") /\ UNCHANGED <<stored, active>>
  /\ UNCHANGED <<refused, request, task, counts, comments, script, status, text,
                 found, aside, other, dir, stale, pass>>

\* A comment is made, and then its record: Then follows when both succeed.
\* A comment that is not acknowledged may be there all the same.
Publish(findings, text_too, Then) ==
  \/ /\ posted' = posted + 1 /\ word' = "result" /\ UNCHANGED lost
     /\ shown' = shown + findings /\ otherShown' = text_too
     /\ \/ records' = records + 1 /\ Then
        \/ BreakOff /\ UNCHANGED records
  \/ /\ posted' \in {posted, posted + 1} /\ lost' = TRUE
     /\ Abandon /\ UNCHANGED <<records, word, shown, otherShown>>

\* Faulty variant: a finding whose line is not in the diff is dropped.
PlaceOrDrop ==
  /\ at = "placing" /\ left > 0
  /\ left' = left - 1
  /\ \/ Publish(1, FALSE, Go("placing") /\ UNCHANGED active)
     \/ Go("placing") /\ UNCHANGED <<comments, active>>
  /\ UNCHANGED <<refused, rows, script, status, text, found, aside, other, dir, stale, pass>>

\* A finding on an added line of the diff gets a comment there; any other is
\* set aside for the comment on the merge request.
Place ==
  /\ at = "placing" /\ left > 0
  /\ left' = left - 1
  /\ \/ Publish(1, FALSE, Go("placing") /\ UNCHANGED active) /\ UNCHANGED aside
     \/ aside' = aside + 1 /\ Go("placing") /\ UNCHANGED <<comments, active>>
  /\ UNCHANGED <<refused, rows, script, status, text, found, other, dir, stale, pass>>

Placed ==
  /\ at = "placing" /\ left = 0
  /\ IF aside > 0 \/ other \/ found = 0
     THEN Go("combining") /\ UNCHANGED active ELSE Done
  /\ UNCHANGED <<refused, rows, comments, script, reading, dir, stale, pass>>

\* The comment on the merge request shows the findings set aside or, only if
\* there are none, the other text.
Combine ==
  /\ at = "combining"
  /\ Publish(aside, other /\ aside = 0, Done)
  /\ UNCHANGED <<refused, rows, script, reading, dir, stale, pass>>

-----------------------------------------------------------------------------
(* The end: the task's row, the request's row, a comment if it failed.     *)

\* Faulty variant: the task's row is updated on success only.
SettleCompleted ==
  /\ at = "settling"
  /\ at' = "closing" /\ UNCHANGED verdict
  /\ \/ /\ task' = (IF verdict = "completed" THEN verdict ELSE task)
        /\ UNCHANGED broken
     \/ broken' = TRUE /\ UNCHANGED task
  /\ UNCHANGED <<refused, request, counts, stored, comments, script, reading, disk, pass>>

Settle ==
  /\ at = "settling"
  /\ at' = "closing" /\ UNCHANGED verdict
  /\ \/ task' = (IF task = "running" THEN verdict ELSE task) /\ UNCHANGED broken
     \/ broken' = TRUE /\ UNCHANGED task
  /\ UNCHANGED <<refused, request, counts, stored, comments, script, reading, disk, pass>>

\* Faulty variant: the findings are counted, whether they were shown or not,
\* and the comments are taken to be as many.
CloseRequestCountingFindings ==
  /\ at = "closing"
  /\ at' = (IF verdict = "completed" THEN "over" ELSE "telling") /\ UNCHANGED verdict
  /\ \/ /\ request' = verdict /\ UNCHANGED broken
        /\ counts' = IF verdict = "completed"
                     THEN [findings |-> found, comments |-> found] ELSE Zero
     \/ broken' = TRUE /\ UNCHANGED <<request, counts>>
  /\ UNCHANGED <<refused, task, stored, comments, script, reading, disk, pass>>

CloseRequest ==
  /\ at = "closing"
  /\ at' = (IF verdict = "completed" THEN "over" ELSE "telling") /\ UNCHANGED verdict
  /\ \/ /\ request' = verdict /\ UNCHANGED broken
        /\ counts' = IF verdict = "completed"
                     THEN [findings |-> found, comments |-> records] ELSE Zero
     \/ broken' = TRUE /\ UNCHANGED <<request, counts>>
  /\ UNCHANGED <<refused, task, stored, comments, script, reading, disk, pass>>

Tell ==
  /\ at = "telling" /\ Go("over")
  /\ \/ posted' = posted + 1 /\ word' = "failure" /\ UNCHANGED lost
     \/ posted' \in {posted, posted + 1} /\ lost' = TRUE /\ UNCHANGED word
  /\ UNCHANGED <<refused, rows, records, shown, otherShown, script, reading, disk, pass>>

\* The service stops at any moment; the script does not stop with it.
Die ==
  /\ at \notin {"over", "dead"} /\ Go("dead")
  /\ active' = FALSE
  /\ UNCHANGED <<refused, rows, comments, script, reading, dir, stale, pass>>

-----------------------------------------------------------------------------
(* The cleanup, which looks once at what is active and then at the age of  *)
(* every directory.                                                        *)

TakeSnapshot ==
  /\ pass = "idle"
  /\ pass' = IF active THEN "spare" ELSE "may"
  /\ UNCHANGED <<at, refused, verdict, rows, comments, script, reading, disk, broken>>

Removed == pass = "may" /\ dir = "present" /\ stale /\ dir' = "swept" /\ result' = "absent"

\* The removal may fail, and then waits for another pass.
Sweep ==
  /\ pass # "idle" /\ pass' = "idle"
  /\ Removed \/ UNCHANGED <<dir, result>>
  /\ UNCHANGED <<at, refused, verdict, rows, comments, proc, stray, reading, active,
                 stale, broken>>

\* A day goes by, which is longer than a pass of the cleanup takes.
Age ==
  /\ dir = "present" /\ pass = "idle"
  /\ stale' = TRUE
  /\ UNCHANGED <<at, refused, verdict, rows, comments, script, reading, active, dir,
                 pass, broken>>

-----------------------------------------------------------------------------
Runner ==
  \/ OpenRequest \/ OpenTask \/ RefuseTask \/ Check \/ Prepare
  \/ Exited \/ TimesOut \/ TooLarge \/ Judge
  \/ CheckResult \/ ReadResult \/ RecordFinding \/ Place \/ Placed \/ Combine
  \/ Settle \/ CloseRequest \/ Tell

Script == Write \/ LeaveBehind \/ Exit
Cleanup == TakeSnapshot \/ Sweep \/ Age

Next == Runner \/ Script \/ Cleanup \/ Die

Safe == Init /\ [][Next]_vars

\* The runner is scheduled and all its waits are timed; the script owes it
\* nothing.  The cleanup's timer ticks, days go by, and a removal that is
\* tried often enough succeeds.
Spec ==
  /\ Safe
  /\ WF_vars(Runner)
  /\ WF_vars(TakeSnapshot) /\ WF_vars(Sweep)
  /\ SF_vars(Age) /\ SF_vars(Sweep /\ Removed)

-----------------------------------------------------------------------------
(* Properties.                                                             *)

ControlOK ==
  /\ at \in Steps /\ verdict \in Ended \cup {"none"}
  /\ request \in Ended \cup {"none", "running"} /\ task \in Ended \cup {"none", "running"}
  /\ word \in {"none", "result", "failure"}
  /\ dir \in {"absent", "present", "swept"} /\ pass \in {"idle", "spare", "may"}

ScriptOK ==
  /\ proc \in Processes /\ stray \in {"none", "grouped", "detached"}
  /\ result \in Results /\ status \in Statuses /\ text \in Results \cup {"none"}

FlagsOK ==
  /\ refused \in BOOLEAN /\ broken \in BOOLEAN /\ lost \in BOOLEAN
  /\ active \in BOOLEAN /\ stale \in BOOLEAN
  /\ other \in BOOLEAN /\ otherShown \in BOOLEAN

CountsOK ==
  /\ counts \in [findings : Nat, comments : Nat]
  /\ stored \in Nat /\ records \in Nat /\ posted \in Nat
  /\ found \in Nat /\ left \in Nat /\ aside \in Nat /\ shown \in Nat

\* Type invariant.
TypeOK == ControlOK /\ ScriptOK /\ FlagsOK /\ CountsOK

\* The two rows never end differently, however many of their updates fail, and
\* when none has failed both have ended once the task is over
\* (script_service.rs: run and record_busy, which ignore what the updates return).
RowsAgree ==
  /\ {request, task} \subseteq Ended => request = task
  /\ at = "over" /\ ~broken => {request, task} \subseteq Ended

\* A request said to be completed has its findings in review_findings, its
\* comments in review_comment_records and on GitLab, each as often as the row
\* counts, and at least one comment to show for it (publish_results).
CompletedTellsAll ==
  request = "completed" =>
    /\ counts = [findings |-> stored, comments |-> records]
    /\ records = posted /\ records >= 1

\* Every finding of a completed request is shown in a comment: on its line,
\* or in the comment on the merge request, and never in both (publish_results,
\* build_result_comment).
FindingsShown == request = "completed" => shown = found

\* The requester's last word is the outcome: the result if and only if the
\* script ended by itself with zero and the run went through, and otherwise,
\* unless GitLab did not acknowledge it, that it failed (execute,
\* notify_failure).
Truthful ==
  /\ verdict = "completed" => word = "result" /\ proc = "zero"
  /\ at = "over" /\ ~lost => (word = "failure" <=> verdict = "failed")

\* The cleanup never takes the directory from under the task, not even when
\* it looked before the task was there or the script runs for days
\* (register_active_script_work_dir, cleanup_stale_script_task_work).
DirKept == at \in Working => dir = "present"

\* A task always ends, whatever the script and its offspring do (scripts.rs: the
\* timeouts of the wait, the termination and the drain).
TaskEnds == at = "accepted" ~> at \in {"over", "dead"}

\* README.en.md:284, "A `result.txt` larger than 1 MiB is rejected": it is never
\* read for publication.
OversizedRejected == text # "large"

\* README.en.md:276, "other text or results that cannot be located become
\* MR-level comments": when the request is completed the other text was shown.
OtherTextShown == request = "completed" /\ other => otherShown
=============================================================================
