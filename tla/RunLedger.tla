------------------------------ MODULE RunLedger ------------------------------
(***************************************************************************)
(* What the two SQLite tables promise of one AI review run, to those who   *)
(* read them (the dashboard, the operator): a row opens once and ends at   *)
(* most once, reviews run one at a time and only inside an open run, and a *)
(* run that ended "completed" has settled every review it selected, or ran *)
(* none of them.  A run that fails, or whose process dies, may leave a     *)
(* review's row open.                                                      *)
(***************************************************************************)
CONSTANT Reviews

VARIABLES run,    \* review_requests.status of the run, "none" without a row
          rows    \* review_task_runs.status of its reviews

vars == <<run, rows>>

Ended == {"completed", "failed"}
RowStates == {"none", "running"} \cup Ended

AllSettled == \A r \in Reviews : rows[r] \in Ended
NoneStarted == \A r \in Reviews : rows[r] = "none"

Init ==
  /\ run = "none"
  /\ rows = [r \in Reviews |-> "none"]

Open ==
  /\ run = "none"
  /\ run' = "running"
  /\ UNCHANGED rows

Start(r) ==
  /\ run = "running" /\ rows[r] = "none"
  /\ \A q \in Reviews : rows[q] # "running"
  /\ rows' = [rows EXCEPT ![r] = "running"]
  /\ UNCHANGED run

End(r) ==
  /\ run = "running" /\ rows[r] = "running"
  /\ \E s \in Ended : rows' = [rows EXCEPT ![r] = s]
  /\ UNCHANGED run

Complete ==
  /\ run = "running"
  /\ AllSettled \/ NoneStarted
  /\ run' = "completed"
  /\ UNCHANGED rows

Fail ==
  /\ run = "running"
  /\ run' = "failed"
  /\ UNCHANGED rows

Next == Open \/ Complete \/ Fail \/ \E r \in Reviews : Start(r) \/ End(r)

Spec == Init /\ [][Next]_vars
-----------------------------------------------------------------------------
TypeOK ==
  /\ run \in RowStates
  /\ rows \in [Reviews -> RowStates]

\* A run shown as completed hides no review that is still open or was skipped
\* halfway, and at most one review of a run is ever open.
CompletedMeansSettled ==
  /\ run = "completed" => AllSettled \/ NoneStarted
  /\ \A q, r \in Reviews : rows[q] = "running" /\ rows[r] = "running" => q = r
=============================================================================
