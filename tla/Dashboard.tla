------------------------------ MODULE Dashboard ------------------------------
(***************************************************************************)
(* What the dashboard shows of the runs, while they go on.  The service    *)
(* writes its rows with one statement at a time, only the end of an AI     *)
(* review with a transaction; the dashboard reads them from a process of   *)
(* its own, also with one statement at a time, and puts the page of a run  *)
(* together from several.  AI reviews and script tasks use the same tables *)
(* but differ in what becomes of an error of the store.                    *)
(*                                                                         *)
(* A list is the number of its rows: the limits cut lists of any content.  *)
(***************************************************************************)
EXTENDS Schema, FiniteSets, FiniteSetsExt, SequencesExt

CONSTANTS Runs,          \* the runs
          Selected,      \* the tasks of each run
          Scripts,       \* the runs of a script task
          Placements,    \* [Runs -> project and merge request], those looked at
          MaxFindings,   \* bound: findings of one task
          ListLimit,     \* limit 500 of the lists on the page of a run
          RequestLimits  \* limits of the list of merge requests; the code's is 300

ASSUME DashboardAssumption ==
  /\ IsFiniteSet(Runs) /\ Scripts \subseteq Runs
  /\ \A x \in Runs : IsFiniteSet(Selected[x])
  /\ \A x \in Scripts : Cardinality(Selected[x]) = 1
  /\ \A where \in Placements, x \in Runs :
       where[x] = [project |-> where[x].project, mr |-> where[x].mr]
  /\ MaxFindings \in Nat /\ ListLimit \in Nat /\ RequestLimits \subseteq Nat \ {0}

VARIABLES
  request,    \* the row of each run in review_requests
  task,       \* its rows in review_task_runs
  files,      \* the rows of each in review_coverage_files
  findings,   \* the rows of each run in review_findings
  comments,   \* its rows in review_comment_records
  opened,     \* the runs in the order of started_at
  desk,       \* where the task of the run stands, and its counters
  broken,     \* the runs for which a store call has failed
  page        \* the page of a run, as far as it is read

tables == <<request, task, files, findings, comments, opened>>
rowVars == <<tables, desk, broken, page>>
vars == <<schemaVars, rowVars>>

Tasks == UNION {Selected[x] : x \in Runs}
Ended == {"completed", "failed"}
Fresh == [status |-> "none", findings |-> 0, comments |-> 0, error |-> FALSE]
NoRow == [status |-> "none", findings |-> 0, comments |-> 0, error |-> FALSE,
          incomplete |-> 0]
NoPage == [at |-> "idle"]

\* The locals of a task that stands at a step with none in hand; once it is over
\* nothing is left of them.
Clear(step) ==
  [at |-> step, todo |-> {}, task |-> "none", left |-> 0, found |-> 0,
   published |-> 0, findings |-> 0, comments |-> 0, verdict |-> "none"]

RowsInit ==
  /\ request = [x \in Runs |-> Fresh]
  /\ task = [x \in Runs |-> [t \in Selected[x] |-> NoRow]]
  /\ files = [x \in Runs |-> [t \in Selected[x] |-> 0]]
  /\ findings = [x \in Runs |-> 0]
  /\ comments = [x \in Runs |-> 0]
  /\ opened = <<>>
  /\ desk = [x \in Runs |-> [Clear("new") EXCEPT !.todo = Selected[x]]]
  /\ broken = {}
  /\ page = NoPage

-----------------------------------------------------------------------------
(* The service writes.                                                     *)

At(x, step) == desk[x].at = step
Go(x, step) == desk' = [desk EXCEPT ![x].at = step] /\ UNCHANGED broken
\* The run comes to its end with an error.
Abort(x) == desk' = [desk EXCEPT ![x] = [Clear("closing") EXCEPT !.verdict = "failed"]]
Leave(x) == desk' = [desk EXCEPT ![x] = Clear("over")]
\* A store call fails: an AI review run ends, a script task is settled as failed.
Break(x) ==
  /\ broken' = broken \cup {x}
  /\ IF x \in Scripts /\ ~At(x, "choosing")
     THEN desk' = [desk EXCEPT ![x].at = "settling", ![x].verdict = "failed"]
     ELSE Abort(x)

\* start_review_request
OpenRun(x) ==
  /\ At(x, "new")
  /\ \/ /\ Go(x, "choosing")
        /\ request' = [request EXCEPT ![x].status = "running"]
        /\ opened' = Append(opened, x)
     \/ /\ Leave(x) /\ broken' = broken \cup {x}
        /\ UNCHANGED <<request, opened>>
  /\ UNCHANGED <<task, files, findings, comments, page>>

\* start_task_run
OpenTask(x) ==
  /\ At(x, "choosing")
  /\ \E t \in desk[x].todo :
       \/ /\ task' = [task EXCEPT ![x][t].status = "running"]
          /\ desk' = [desk EXCEPT ![x].at = "executing", ![x].task = t,
                                  ![x].todo = @ \ {t}, ![x].published = 0]
          /\ UNCHANGED broken
       \/ Break(x) /\ UNCHANGED task
  /\ UNCHANGED <<request, files, findings, comments, opened, page>>

\* Without a diff an AI run ends before its first task; after the last one, and
\* when its reviews are skipped, it writes a summary.
LoopEnds(x) ==
  /\ At(x, "choosing") /\ x \notin Scripts
  /\ \/ desk[x].todo \in {{}, Selected[x]} /\ Go(x, "summarising")
     \/ desk[x].todo = Selected[x] /\ Abort(x) /\ UNCHANGED broken
  /\ UNCHANGED <<tables, page>>

Execute(x) ==
  /\ At(x, "executing")
  /\ \/ \E n \in 0..MaxFindings :
          desk' = [desk EXCEPT ![x].at = "recording", ![x].found = n, ![x].left = n,
                               ![x].verdict = "completed"]
     \/ desk' = [desk EXCEPT ![x].at = "settling", ![x].verdict = "failed"]
  /\ UNCHANGED <<tables, broken, page>>

\* record_finding; the comments are next.
RecordFinding(x) ==
  /\ At(x, "recording")
  /\ \/ /\ desk[x].left > 0
        /\ \/ /\ findings' = [findings EXCEPT ![x] = @ + 1]
              /\ desk' = [desk EXCEPT ![x].left = @ - 1] /\ UNCHANGED broken
           \/ Break(x) /\ UNCHANGED findings
     \/ /\ desk[x].left = 0
        /\ LET n == desk[x].found IN
             \E drafts \in IF x \in Scripts THEN 1..n + 1 ELSE {k \in 0..n : k = 0 <=> n = 0} :
               desk' = [desk EXCEPT ![x].at = "publishing", ![x].left = drafts]
        /\ UNCHANGED <<findings, broken>>
  /\ UNCHANGED <<request, task, files, comments, opened, page>>

\* A comment that GitLab has refused is passed over by an AI review, and is the
\* end of a script task; then record_comment.
Publish(x) ==
  /\ At(x, "publishing") /\ desk[x].left > 0
  /\ \/ /\ comments' = [comments EXCEPT ![x] = @ + 1]
        /\ desk' = [desk EXCEPT ![x].left = @ - 1, ![x].published = @ + 1]
        /\ UNCHANGED broken
     \/ /\ desk' = IF x \in Scripts
                   THEN [desk EXCEPT ![x].at = "settling", ![x].verdict = "failed"]
                   ELSE [desk EXCEPT ![x].left = @ - 1]
        /\ UNCHANGED <<comments, broken>>
     \/ Break(x) /\ UNCHANGED comments
  /\ UNCHANGED <<request, task, files, findings, opened, page>>

Published(x) ==
  /\ At(x, "publishing") /\ desk[x].left = 0
  /\ Go(x, "settling")
  /\ UNCHANGED <<tables, page>>

\* What the row of the task in hand comes to, with n incomplete files.
Outcome(x, n) ==
  LET ok == desk[x].verdict = "completed" IN
    [status |-> desk[x].verdict, error |-> ~ok, incomplete |-> n,
     findings |-> IF ok THEN desk[x].found ELSE 0,
     comments |-> IF ok THEN desk[x].published ELSE 0]

\* After a task: a completed one is counted; a failed one is passed over, or is
\* the end when it is the archive that failed, or the script.
Counted(x) ==
  desk' = [desk EXCEPT
    ![x] = [Clear(IF x \in Scripts THEN "closing" ELSE "choosing") EXCEPT
              !.todo = desk[x].todo,
              !.verdict = IF x \in Scripts THEN desk[x].verdict ELSE "none",
              !.findings = desk[x].findings + Outcome(x, 0).findings,
              !.comments = desk[x].comments + Outcome(x, 0).comments]]

\* Faulty variant: the files are written after the transaction.
SettleInTwo(x) ==
  LET t == desk[x].task IN
  /\ At(x, "settling")
  /\ \/ /\ task[x][t].status = "running"
        /\ \E n \in 0..1 : task' = [task EXCEPT ![x][t] = Outcome(x, n)]
        /\ UNCHANGED <<desk, files>>
     \/ /\ task[x][t].status # "running"
        /\ files' = [files EXCEPT ![x][t] = task[x][t].incomplete]
        /\ Counted(x)
        /\ UNCHANGED task
  /\ UNCHANGED <<request, findings, comments, opened, broken, page>>

\* finish_ai_task_run, one transaction with the files that are not covered;
\* finish_task_run of a script task, whose error is ignored.
Settle(x) ==
  LET t == desk[x].task IN
  /\ At(x, "settling")
  /\ \/ /\ \E n \in IF x \in Scripts THEN {0} ELSE 0..1 :
             /\ task' = [task EXCEPT ![x][t] = Outcome(x, n)]
             /\ files' = [files EXCEPT ![x][t] = n]
        /\ Counted(x) \/ (desk[x].verdict = "failed" /\ Abort(x))
        /\ UNCHANGED broken
     \/ /\ broken' = broken \cup {x}
        /\ IF x \in Scripts THEN Counted(x) ELSE Abort(x)
        /\ UNCHANGED <<task, files>>
  /\ UNCHANGED <<request, findings, comments, opened, page>>

\* publish_manual_review_summary: the AI run's last comment.
Summarise(x) ==
  /\ At(x, "summarising")
  /\ \/ /\ comments' = [comments EXCEPT ![x] = @ + 1]
        /\ desk' = [desk EXCEPT ![x].at = "closing", ![x].comments = @ + 1,
                                ![x].verdict = "completed"]
        /\ UNCHANGED broken
     \/ /\ desk' = [desk EXCEPT ![x].at = "closing", ![x].verdict = "completed"]
        /\ UNCHANGED <<comments, broken>>
     \/ Break(x) /\ UNCHANGED comments
  /\ UNCHANGED <<request, task, files, findings, opened, page>>

\* What the run's row comes to.
Total(x) ==
  LET ok == desk[x].verdict = "completed" IN
    [status |-> desk[x].verdict, error |-> ~ok,
     findings |-> IF ok THEN desk[x].findings ELSE 0,
     comments |-> IF ok THEN desk[x].comments ELSE 0]

\* Faulty variant: the run's row of a script is finished before the task's.
CloseEarly(x) ==
  /\ At(x, "closing") \/ (At(x, "settling") /\ request[x].status = "running")
  /\ request' = [request EXCEPT ![x] = Total(x)]
  /\ IF At(x, "closing") THEN Leave(x) ELSE UNCHANGED desk
  /\ UNCHANGED broken
  /\ UNCHANGED <<task, files, findings, comments, opened, page>>

\* finish_review_request
Close(x) ==
  /\ At(x, "closing")
  /\ Leave(x)
  /\ \/ UNCHANGED broken /\ request' = [request EXCEPT ![x] = Total(x)]
     \/ broken' = broken \cup {x} /\ UNCHANGED request
  /\ UNCHANGED <<task, files, findings, comments, opened, page>>

\* The task panics, or the service stops.
Die(x) ==
  /\ ~At(x, "over")
  /\ Leave(x)
  /\ UNCHANGED <<tables, broken, page>>

-----------------------------------------------------------------------------
(* The dashboard reads: the lists and counts, each one statement.          *)

Listed == {opened[i] : i \in 1..Len(opened)}
TaskRows(x) == {t \in Selected[x] : task[x][t].status # "none"}
AnotherThanCompleted(x) == \E t \in TaskRows(x) : task[x][t].status # "completed"

\* The case expression of the lists, of the filter and of summary.
Shown(x) ==
  IF request[x].status = "running" THEN "running"
  ELSE IF request[x].status = "completed" /\ ~AnotherThanCompleted(x) THEN "completed"
  ELSE "failed"

Amount(field, xs) == MapThenSumSet(LAMBDA x : request[x][field], xs)

Summary(where) ==
  [runs |-> Cardinality(Listed),
   running |-> Cardinality({x \in Listed : Shown(x) = "running"}),
   completed |-> Cardinality({x \in Listed : Shown(x) = "completed"}),
   failed |-> Cardinality({x \in Listed : Shown(x) = "failed"}),
   projects |-> Cardinality({where[x].project : x \in Listed}),
   mergeRequests |-> Cardinality({where[x] : x \in Listed}),
   findings |-> Amount("findings", Listed),
   comments |-> Amount("comments", Listed)]

\* Faulty variant: a failed task does not count.
FailedByRequest(xs) == Cardinality({x \in xs : request[x].status = "failed"})

\* The condition of projects and merge_requests.
FailedIn(xs) ==
  Cardinality({x \in xs :
    /\ request[x].status # "running"
    /\ ~(request[x].status = "completed" /\ ~AnotherThanCompleted(x))})

\* The place of a group's last run in the order of started_at: last_review_at.
Latest(xs) == Max({i \in 1..Len(opened) : opened[i] \in xs})

\* A row of projects or merge_requests, for the runs of the group.
Group(xs, where) ==
  [runs |-> Cardinality(xs),
   running |-> Cardinality({x \in xs : request[x].status = "running"}),
   failed |-> FailedIn(xs),
   mergeRequests |-> Cardinality({where[x].mr : x \in xs}),
   findings |-> Amount("findings", xs),
   comments |-> Amount("comments", xs),
   lastStatus |-> Shown(opened[Latest(xs)])]

Projects(where) ==
  [p \in {where[x].project : x \in Listed} |->
    Group({x \in Listed : where[x].project = p}, where)]

\* merge_requests: the merge requests by their last run, the first most of them.
Spots(where) == {where[x] : x \in Listed}
RunsAt(where, m) == {x \in Listed : where[x] = m}
Newer(where, m) == {k \in Spots(where) : Latest(RunsAt(where, k)) > Latest(RunsAt(where, m))}
MergeRequests(where, most) ==
  [m \in {k \in Spots(where) : Cardinality(Newer(where, k)) < most} |->
    Group(RunsAt(where, m), where)]

\* What is asked for of a list: the status, the project, the merge request.  A
\* project is named by its number, or by a text that the names of several may
\* contain; what is not asked for may be anything.
Statuses == {"running"} \cup Ended
Asked(statuses, projects, mrs) == [statuses |-> statuses, projects |-> projects, mrs |-> mrs]
Of_(where, filter) ==
  {x \in Listed : where[x].project \in filter.projects /\ where[x].mr \in filter.mrs}

\* How much of n rows a list shows, with a limit from 1 to some maximum and an
\* offset from 0.
From(offset) == Max({0, offset})
UpTo(n, limit, most, offset) == Min({n, From(offset) + Min({most, Max({1, limit})})})

\* The runs, the latest first.
RunList(where, filter, limit, offset) ==
  LET matching == {x \in Of_(where, filter) : Shown(x) \in filter.statuses}
      Before(list, x) == IF x \in matching THEN <<x>> \o list ELSE list
      list == FoldLeft(Before, <<>>, opened)
  IN  SubSeq(list, From(offset) + 1, UpTo(Len(list), limit, 200, offset))

\* findings_list and comments_list, with the rows of their table; the status of
\* the run is not asked for.
RowList(rows, where, filter, limit, offset) ==
  LET n == MapThenSumSet(LAMBDA x : rows[x], Of_(where, filter))
  IN  Max({0, UpTo(n, limit, 500, offset) - From(offset)})

\* finding_summary counts the rows themselves.
FindingTotal == MapThenSumSet(LAMBDA x : findings[x], Runs)

-----------------------------------------------------------------------------
(* The dashboard reads the page of a run: run_detail.                      *)

\* The run's row, with the status and the numbers of tasks computed in the same
\* statement; nothing of the rest is read yet.  A run without a row is not found.
ReadRun(x) ==
  /\ page.at = "idle" /\ x \in Listed
  /\ page' = [at |-> "tasks", of |-> x, status |-> Shown(x), row |-> request[x],
              tasks |-> Cardinality(TaskRows(x)),
              completed |-> Cardinality({t \in TaskRows(x) :
                                           task[x][t].status = "completed"}),
              list |-> <<>>, unread |-> {}, files |-> <<>>, failure |-> FALSE,
              findings |-> 0, comments |-> 0]
  /\ UNCHANGED <<tables, desk, broken>>

\* Faulty variant: only the run's own failure is shown.
ReadTasksOnly ==
  /\ page.at = "tasks"
  /\ LET rows == [t \in TaskRows(page.of) |-> task[page.of][t]]
     IN  page' = [page EXCEPT !.at = "files", !.list = rows, !.unread = DOMAIN rows,
                              !.files = [t \in DOMAIN rows |-> 0],
                              !.failure = page.row.error]
  /\ UNCHANGED <<tables, desk, broken>>

\* dashboard_task_failure
TaskFailure(row) == row.status # "completed" /\ row.error

\* The rows of its tasks; a failed run without a failure of its own shows the
\* first of theirs.
ReadTasks ==
  /\ page.at = "tasks"
  /\ LET rows == [t \in TaskRows(page.of) |-> task[page.of][t]]
     IN  page' = [page EXCEPT !.at = "files", !.list = rows, !.unread = DOMAIN rows,
                              !.files = [t \in DOMAIN rows |-> 0],
                              !.failure = \/ page.row.error
                                          \/ page.status = "failed"
                                             /\ \E t \in DOMAIN rows : TaskFailure(rows[t])]
  /\ UNCHANGED <<tables, desk, broken>>

\* The files of each task, a statement each.
ReadFiles ==
  /\ page.at = "files"
  /\ \/ \E t \in page.unread :
          page' = [page EXCEPT !.unread = @ \ {t}, !.files[t] = files[page.of][t]]
     \/ page.unread = {} /\ page' = [page EXCEPT !.at = "findings"]
  /\ UNCHANGED <<tables, desk, broken>>

ReadFindings ==
  /\ page.at = "findings"
  /\ page' = [page EXCEPT !.at = "comments", !.findings = Min({ListLimit, findings[page.of]})]
  /\ UNCHANGED <<tables, desk, broken>>

ReadComments ==
  /\ page.at = "comments"
  /\ page' = [page EXCEPT !.at = "sent", !.comments = Min({ListLimit, comments[page.of]})]
  /\ UNCHANGED <<tables, desk, broken>>

-----------------------------------------------------------------------------
\* Bounds: the runs write one after the other, which gives the tables all the
\* states they can have together, since one may die anywhere and none reads or
\* writes rows of another.  One page is read, that of the first run; nothing
\* happens after it is sent.
Alone(x, steps) == \A y \in Runs \ {x} : desk[y].at \in steps
MayWork(x) ==
  /\ Alone(x, {"new", "over"})
  /\ IF page.at = "idle" THEN TRUE ELSE page.at # "sent" /\ page.of = x

Work(x) ==
  \/ OpenRun(x) \/ OpenTask(x) \/ LoopEnds(x) \/ Execute(x) \/ RecordFinding(x)
  \/ Publish(x) \/ Published(x) \/ Settle(x) \/ Summarise(x) \/ Close(x) \/ Die(x)

Read ==
  \/ \E x \in Runs : Alone(x, {"new"}) /\ ReadRun(x)
  \/ ReadTasks \/ ReadFiles \/ ReadFindings \/ ReadComments

\* Bound: the runs are looked at where all has started, and nothing starts any
\* more.
AllServe == reader = "serving" /\ \A s \in Starters : place[s].at = "serving"
Untouched == \A x \in Runs : At(x, "new")

\* The state all this leads to is one to begin with, too.
Started ==
  /\ schema = WrittenColumns /\ reader = "serving"
  /\ place = [s \in Starters |-> [at |-> "serving"]]

Init == (SchemaInit \/ Started) /\ RowsInit

Next ==
  \/ Untouched /\ SchemaNext /\ UNCHANGED rowVars
  \/ AllServe /\ (Read \/ \E x \in Runs : MayWork(x) /\ Work(x)) /\ UNCHANGED schemaVars

Spec == Init /\ [][Next]_vars

-----------------------------------------------------------------------------
(* Properties.                                                             *)

(* The status rule is written five times, the sums three times and the     *)
(* conditions of the lists twice: all views of the same rows agree.  The   *)
(* runs of the projects add up to the summary's; so do those of the merge  *)
(* requests, where there are no more than their list shows (300), and else *)
(* it shows as many as it can, and none it leaves out has been reviewed    *)
(* after one it shows.  The list asked for one of them, and a status, has  *)
(* as many runs as are counted there, up to the limit, the latest first; a *)
(* list that does not change is shown whole page after page; and the       *)
(* findings of the projects, where none has as many as the limit, are all  *)
(* there are (summary, projects, merge_requests, runs, findings_list,      *)
(* finding_summary).                                                       *)
CountsAgree ==
  \A where \in Placements, most \in RequestLimits :
    LET summary == Summary(where)
        projects == Projects(where)
        requests == MergeRequests(where, most)
        Ids == DOMAIN projects
        Mrs == {where[x].mr : x \in Listed}
        AddUp(rows) ==
          \A field \in {"runs", "running", "failed", "findings", "comments"} :
            MapThenSumSet(LAMBDA g : rows[g][field], DOMAIN rows) = summary[field]
        List(status, p, mrs) == RunList(where, Asked({status}, {p}, mrs), 200, 0)
        All(limit, offset) == RunList(where, Asked(Statuses, Ids, Mrs), limit, offset)
        Rows(p) == RowList(findings, where, Asked({}, {p}, Mrs), 500, 0)
    IN  /\ AddUp(projects)
        /\ summary.mergeRequests <= most => AddUp(requests)
        /\ Cardinality(DOMAIN requests) = Min({most, summary.mergeRequests})
        /\ \A i \in 1..Len(opened), m \in DOMAIN requests :
             where[opened[i]] \notin DOMAIN requests => i < Latest(RunsAt(where, m))
        /\ summary.runs = summary.running + summary.completed + summary.failed
        /\ Cardinality(Ids) = summary.projects
        /\ MapThenSumSet(LAMBDA p : projects[p].mergeRequests, Ids) = summary.mergeRequests
        /\ \A p \in Ids, status \in {"running", "failed"} :
             Len(List(status, p, Mrs)) = Min({200, projects[p][status]})
        /\ \A m \in DOMAIN requests :
             LET list == RunList(where, Asked(Statuses, {m.project}, {m.mr}), 200, 0)
             IN  /\ Len(list) = Min({200, requests[m].runs})
                 /\ Shown(list[1]) = requests[m].lastStatus
        /\ All(2, 0) = All(0, -1) \o All(1, 1)
        /\ (\A p \in Ids : Rows(p) < 500) => FindingTotal = MapThenSumSet(Rows, Ids)

(* A run, once it is shown as ended, is shown so for ever, and nothing of  *)
(* its rows changes any more (the order in which the tasks' rows and the   *)
(* run's row are finished).                                                *)
ShownStatusSettles ==
  [][\A x \in Runs : request[x].status # "none" /\ Shown(x) \in Ended =>
       /\ Shown(x)' = Shown(x) /\ task'[x] = task[x] /\ findings'[x] = findings[x]
       /\ comments'[x] = comments[x]]_rowVars

(* The page of an ended run is whole, though it is read in pieces: a       *)
(* completed run lists the tasks, the findings and the comments its row    *)
(* counts, as far as the limit, and its tasks add up to it but for the     *)
(* summary's comment; a failed one has a failure to show, unless a store   *)
(* call has failed (run_detail, dashboard_task_failure).                   *)
PageWhole ==
  page.at = "sent" =>
    /\ page.status = "completed" =>
         /\ page.tasks = Cardinality(DOMAIN page.list) /\ page.completed = page.tasks
         /\ page.findings = Min({ListLimit, page.row.findings})
         /\ page.comments = Min({ListLimit, page.row.comments})
         /\ page.row.findings = SumFunction([t \in DOMAIN page.list |-> page.list[t].findings])
         /\ page.row.comments - SumFunction([t \in DOMAIN page.list |-> page.list[t].comments])
              \in {0, 1}
    /\ page.status = "failed" => page.failure \/ page.of \in broken

(* The files shown with an ended review are those its row counts, also     *)
(* while its run goes on and though row and files are read one after the   *)
(* other (finish_task_run_with_optional_coverage_and_metadata, tasks).     *)
CoverageShownWhole ==
  page.at = "sent" =>
    \A t \in DOMAIN page.list :
      page.list[t].status \in Ended => page.files[t] = page.list[t].incomplete
=============================================================================
