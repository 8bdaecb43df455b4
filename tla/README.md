# Verification of GitLabWorkRunner

GitLabWorkRunner is a Rust service that listens to GitLab webhooks. A comment on
a merge request that names a configured task (`@ai-review @lint`) starts AI
reviews of the commit, script tasks, or both; results become discussions on the
merge request and rows in SQLite. These TLA+ modules model what the service
does between the webhook and the last comment. TLC checks them on small
instances, and TLAPS proves the main results for all values of the constants.

Run TLC with `tlc -workers 2 -config <cfg> <module>`, the proofs with
`tlapm <module>` on `FoldFacts.tla` and the modules `*Proofs.tla`. `PROJECT.json` lists the runs, the source lines of
every definition (`map`), the hazards, the theorems and the faulty variants.

## 1. The system

| Component | State | Operations | What makes it correct |
|---|---|---|---|
| Webhook dispatch (`app/server.rs`) | none of its own; reads `rules.toml` anew for every webhook | `gitlab_webhook`, `handle_note`, spawned runs, `run_webhook_review` | exactly the runs that may start are started; a refusal has a reason; a guard lives as long as its run |
| AI review registry (`app/active_reviews.rs`) | map commit → run | `try_start`, `finish` by the guard's drop | one review per commit, limit kept, nothing left blocked |
| Script slots (`app/script_scheduler.rs`) | count per script | `try_acquire`, the permit's drop | count = live runs, limit kept |
| AI review run (`review/service.rs`) | rows, the review in hand, progress channel | run the selected reviews one after another, fall back once after a timeout, record, publish, report | tables agree with what happened; one review's failure is not another's; the run ends |
| AI tool loop (`review/ai.rs`) | conversation, budgets, cache of look-ups | request, tool round, finalize, retry, compact | budgets hold, the loop ends, evidence and instructions survive |
| AI batches and coverage (`review/ai.rs`, `review/diff.rs`) | plan of batches and hunks, covered files | plan, run, take coverage back, filter findings | no changed line lost or counted twice; nothing called covered that was not read and sent |
| AI HTTP (`review/ai_http.rs`) | a thread per attempt | attempt, retry | threads bounded |
| Script task (`review/script_service.rs`) | two rows, findings and comments | `run`, `record_busy`, `execute`, `publish_results` | rows agree, all findings shown, the last word is true |
| Script process (`review/scripts.rs`) | processes, `result.txt`, `run.log`, directory | start, wait, time out, terminate, drain, judge | ends whatever the script does; only a clean exit publishes |
| Cleanup (`review/work_cleanup.rs`) | set of directories in use | register, hourly pass | nothing in use removed, everything else removed in the end |
| GitLab client (`gitlab/client.rs`) | none; a blocking worker per call | discussions with fallback, diff pages, archive | at most one discussion per call, true answers; a diff is whole or said to be short |
| Context (`review/archive.rs`, `review/ai_tools.rs`) | the unpacked repository | unpack, list, search, read | limits kept; what is cut is said to be cut |
| State store (`storage/mod.rs`) | SQLite tables | guarded inserts and updates, schema at start | a row ends once; every start reaches the full schema |
| Dashboard (`bin/`, `dashboard/`) | none; reads the tables | queries, HTML | what it shows is consistent |
| Start, log rotation (`main.rs`) | log file and its generations | rotate | the log has no gap and no file is too large |
| Configuration, parsing, texts, prompts | none | pure functions and file access | – |

How they interact:

    webhook ──> dispatch ──> registry / slots          (shared maps under a lock)
                   │ spawn                 ▲ guard, permit dropped at the end
                   ├──> AI review run ──> tool loop ──> AI HTTP
                   └──> script task ───> script process ──> processes of the script
                          │   │                └─ result.txt, directory <── cleanup, hourly
                          │   └──> GitLab client ──> GitLab    (timed calls, late workers)
                          └──────> SQLite <── dashboard (another process, reads only)

The hard behaviours:

- Handlers of several webhooks interleave, and the rules file may change
  between them.
- A run makes dozens of calls to SQLite and GitLab. Each may fail, a GitLab
  call may take effect although it is reported as failed, and the process may
  stop between any two. Nothing resumes a run.
- Progress is written by a second task behind an unbounded channel.
- The model may answer anything: malformed text, unknown tools, calls after the
  tools are closed; requests time out with part of the evidence gathered.
- A script, and what it leaves behind, writes to its result file whenever it
  likes, holds its output open, or cannot be killed. An exit, a timeout and a
  size limit race.
- The cleanup works from a snapshot while tasks start and end, and removes
  emptied parents while other tasks make their directories below them.
- A merge request is pushed to between two pages of its diff, and GitLab hides
  or cuts what is large.
- A diff is cut at line and even character boundaries, and cut again when a
  batch fails; what was covered is counted from the pieces.
- A service and a dashboard of another release start on the same database, and
  a page is read while its rows are written.
- A rename of the log rotation fails half-way.

Every such place is listed in `PROJECT.json` under `hazards`, with the
properties that would catch it going wrong, or the reason why none does.

## 2. Modules

| Module | Models | Role |
|---|---|---|
| `SlotPool` | what admission promises | abstract |
| `Dispatch` | webhook handlers, both registries, ends of runs, restarts | implements `SlotPool` |
| `RunLedger` | what the two tables promise of one run | abstract |
| `ReviewRun` | one AI review run, its writer task and its rows | implements `RunLedger` |
| `ToolLoop` | one conversation with the model | |
| `ScriptRun` | one script task, its processes, directory and the cleanup | |
| `CommentOnce` | what a call that makes a comment promises | abstract |
| `Discussion` | `create_discussion`: caller, worker, both requests, GitLab | implements `CommentOnce` |
| `BatchPlan` | parsing, cutting, batching and coverage of a diff | operators |
| `BatchReview` | one review from GitLab's pages to the stored coverage | extends `BatchPlan` |
| `WorkDirs` | the tree of working directories, tasks, reviews and the cleanup | |
| `LogFile` | the rotating log, call by call | |
| `Archive` | unpacking of a repository, block by block | |
| `Lookup` | one call of a context tool, to the result the model gets | |
| `Housekeeping` | the four above, one at a time | composes |
| `Schema` | the migration at start and the dashboard's check of it | |
| `Dashboard` | rows being written, and every query that reads them | extends `Schema` |
| `MC*` | constants of the instances TLC runs | |
| `FoldFacts` | sums, folds and flattening, as the community modules define them | lemmas |
| `*Proofs` | the theorems | |

Definitions that begin with the comment "Faulty variant" are not part of any
specification. Each stands before the definition it is a variant of and shows
what a plausible mistake there would be; with it in place of the original, TLC
finds a property violated (`mutants` in `PROJECT.json`). So no property holds
merely because the model could not break it.

### Dispatch

`handler`, `loaded`, `asked`, `todo` and `answer` are the locals of a handler;
`registry` is `ActiveReviews.running`, `permits` is `ScriptTaskScheduler.active`;
`review` and `script` say how far the spawned runs are. Each registry operation
happens under its lock and is one action; a handler does them in the order of
the code: the review first, then one script after another, then the response.
The guard is held until a failed review has been reported (`ReviewFails`,
`ReviewEnds`). `Restart` loses everything, as nothing here is persistent.

What a webhook is rejected for before any task is selected is the one action
`Decline`. The tasks that tell a requester of a refusal are spawned and
forgotten, touch none of this state, and are left out. Scripts are tried in
any order; the code follows the order of the file. `rules.rs` rejects a
`max_concurrent` of 0, so a ruleset with `tasks[t] = 0` stands for one in which
task `t` is not enabled. A configured `max_concurrent_reviews` of 0 counts as 1,
as `try_start` makes it.

### ReviewRun

`at` follows `review_merge_request_note`, `run_selected_ai_reviews` and
`execute_ai_review`; `failing` is the error on its way out through `?`. `Break`
is a store call whose error is returned; `broken` remembers it. `Show` is a
progress write, whose error is only logged. A discussion is one of `Recorded`,
`Unrecorded` (it is there, its record was not written) or `Unacknowledged` (the
call failed, the discussion may be there). A write has its effect or fails; a
failed one has none.

Left out: the removal of the archive directory after a review (its failure is
logged), the lists of covered files, and the branches of
`review_merge_request_note` for a duplicate, which its caller no longer
reaches: duplicates are refused by the dispatch.

### ToolLoop

The variables are the locals of `complete_ai_review_response`. The conversation
itself is reduced to what recoveries could lose: `evidence` (none, full results,
or a summary) and `told` (the kinds of instruction in it). `offered` says
whether the request under way lists the context tools. The model's answers and
the outcome of each HTTP attempt are free choices. Results have a length in
units; `MinResult` units must be left for another call. Batches are
conversations of their own and share nothing but the deadline, which strikes in
any wait.

### ScriptRun

`at` and `verdict` follow `run` and `execute`. `proc` and `stray` are the
script's own process and one it left behind, in its process group or out of it;
`result` is what the file holds by now. The runner's wait is a choice between
`Exited`, `TimesOut` and `TooLarge`, as in `select!`; `Terminated` covers the
group killed, only the child killed, or not even that. Reading the result is
two steps, a look at the size and a read, as in the code. `pass` is what the
cleanup's snapshot says of this task's directory. The directory is either older
than a day (`stale`) or not; a change to its entries makes it young.

The comment on the merge request and a comment on a line are both `Publish`,
whose call may fail, or succeed and then not be recorded. A task that got no
permit (`refused`) is recorded and reported by `record_busy`.

### Discussion

One caller and one blocking worker per call, plus the state of both requests as
GitLab has them. A request that is `flying` may arrive at any time, or never,
also when nobody waits any more. A 400 to a request with a position counts as
rejection of the position, as in the code. `CommentOnce` is what callers may
rely on: at most one comment; an answer that says where it is is true; a call
that failed may still have its comment, even later. `ReviewRun` and `ScriptRun`
use it in this form: what an unacknowledged comment came to is a free choice.
Its specification is `CallSpec`, its names begin with `call` where `ReviewRun`
has the same, since the proofs about both are in one module.
They make that choice at the moment of the failure, while `Discussion` also
allows for the comment to appear later; no property of theirs depends on when.

### BatchPlan and BatchReview

`BatchPlan` has the algorithms as operators on sequences; `BatchReview` is the
review that uses them. A diff is a sequence of hunks, a hunk a sequence of lines
with a kind and a length in bytes; what is not a hunk is a text, a sequence of
characters with a length each, so that a cut never splits a character. A header
the planner writes is as long as the digits of its numbers make it, and is
written anew for every piece (`WrittenBytes`). The header of the diff itself may
be longer, by its `heading`, or shorter, by two bytes for each count of one that
is `omitted`, as `parse_range` reads it (`SourceBytes`). Headers are taken to
count their lines, and every line to end with a line end. A file whose headers
do not parse is one more kind of file.

A merge request has a version before and one after a `Push`, which may come
between any two requests. GitLab lists its first `listed` files and gives their
number exactly, as a bound with a "+", or not at all. `ReadPage`, `ReadLegacy`
and `ReadRaw` are the three interfaces in the order the code tries them. A batch
succeeds with no findings or with all there could be (`Claims`), since each
finding is filtered alone. `FallBack` starts a review that ran out of time again
with the diff only. `Correct` is `apply_gitlab_diff_incompleteness`.

What the model shows of the code beside its properties:

- A push between two pages can make a file be read twice, or be skipped with no
  trace in the counted number. `ListedOrTold` therefore promises the exact files
  only without a push, and the counted number always; `Once` is the condition
  under which lines are compared file by file.
- The heading of a hunk and "\ No newline" lines are charged to no piece, so a
  file larger than the limit that was sent in full is reported as partial.
- A count that the diff's header omits is written out and charged by the pieces
  (`ai.rs:1843`), but is not in the length they are measured against
  (`ai.rs:1710`). The hunk `@@ -1 +1,2 @@` of the lines `-aaaa`, `+bbbbb` and `+`
  has 29 bytes. With a batch limit of 23 it is cut into pieces charged 22, 7 and
  2. With `max_batches` 2, the first two amount to 29, the file counts as fully
  reviewed and the review as complete, although the last line was not sent.
  README.en.md:299 has files partially reviewed listed; up to as many bytes of
  lines as its headers omit, 2 or 4 a hunk, may be missing of one that is not
  (`Omitted`). `CoverageHonest` promises this, and every line where no count is
  omitted; the file `short` of `MCBatchReview` is the example.
- A batch failure recounts without the pieces that could not be sent: the reason
  of such a file changes to the failed batch or the configured maximum.

### WorkDirs

`dirs` are the directories that exist, `old` those a day old. A task makes its
parents with `create_dir_all`, which tries the lowest first and goes up as far
as one is missing, and then its own with `create_dir`; each is a step (`depth`
counts them). A pass goes through the AI reviews' directories (`contexts`,
`inside`), then the tasks not in its `snapshot`, then the parents left empty.
Any call may fail; a pass ends at the first error, as in the code. A pass takes
less than a day. `Crash` may come at any step; a restart runs a pass first.

The model shows that a parent pruned between the two calls makes a task fail to
start; that a review longer than a day has its repository removed (its directory
is not registered), which is why `WorkKept` is about tasks; and that a review
that removes its directory while a pass walks it ends that pass, leaving the
scripts' part to the next hour.

### LogFile, Archive, Lookup and Housekeeping

`LogFile` takes a rotation apart into flush, removal of the oldest, one rename
after another, and reopening; any may fail, and the service may be started again
at any moment. After a failure the file stays closed: messages are lost until
one is large enough to start a rotation again. The promise is that what is in
the files is an unbroken end of what the writer took.

`Archive` unpacks entry by entry and block by block, against the limits on
bytes, files, one file and the total. A file that cannot be copied to its end is
removed; that this may fail too is ignored by the code, and `left` says so:
`UnpackedWithinLimits` has no file in part but that one, and no limit is passed
with it either. Parents made implicitly are not counted by the limit on files,
in the model as in the code.

`Lookup` is one call: `list_files`, `search_code`, `read_file` with and without
a range, and the cut that fits a result into what is left of the byte budget. A
file is in or out of a pattern, so paths and globs are not modelled. That a
search leaves out what a file has above its own limit without saying so is how
the README (line 382) documents it.

The four share nothing. `Housekeeping` composes them as alternatives: a
behaviour is one of one part, chosen at the start, so the states are the sum of
theirs and each property is of its own part.

### Schema and Dashboard

`Schema` is the migration: a table at a time is created, then every later column
looked for and added. Two starters and the dashboard's check interleave, each
may stop, and a starter that adds a column the other has added gets an error and
looks again. `Dashboard` then has an AI run and a script run write their rows,
statement by statement, with any statement failing or the process stopping.
The page of a run is read in four statements (`page`); every list and count is
one statement and so a function of the state. The status rule and the sums,
which the code has several times over, are written as often here, and
`CountsAgree` has the limits to which a list is clamped: 200 runs, 500 findings.
The list of merge requests ends after those reviewed last (`RequestLimits`; 300
in the code), so their runs add up to the summary's only where there are no
more; that limit is not said on the page.

A script task whose own row could not be finished although its run's was
(`script_service.rs` ignores that error) is shown as failed with no text;
`PageWhole` leaves out runs whose store calls failed. Runs of a process that
died stay "running". Runs are taken to start at different times.

## 3. Runs

| Run | Question | Instance |
|---|---|---|
| `dispatch` | Do the registries tell the truth, are limits kept and refusals justified, whatever interleaves? (`RegistryExact`, `LimitsHonoured`, `RefusalJustified`, `ImplementsSlotPool`) | 3 webhooks, 2 commits, 1 script, 2 rules files |
| `dispatch_live` | Is a commit always freed again? (`KeyFreed`) | 2 webhooks, 2 commits, 2 scripts, 2 rules files |
| `review_run` | Do the tables agree with what happened, and does the run end? (`BooksBalance`, `NothingLeftOpen`, `FailureHasCause`, `ImplementsLedger`, `EndIsShownLast`, `RunEnds`) | 2 reviews of up to 2 findings, 2 unwritten reports |
| `review_run_archive` | Does an archive failure fail the run, as the design says? No | 2 reviews of up to 1 finding |
| `tool_loop` | Are budgets kept, is the loop bounded, does a recovery lose anything? (`BudgetsKept`, `FollowUpsBounded`, `ToolsCloseWhenSpent`, `EvidenceCarried`, `InstructionsStand`) | 3 look-ups, 3 calls per answer, 2 attempts, 6 sets of limits |
| `script_run` | Are rows, comments and directory right whatever the script does, and does the task end? (`RowsAgree`, `CompletedTellsAll`, `FindingsShown`, `Truthful`, `DirKept`, `TaskEnds`) | up to 2 findings |
| `script_run_oversized` | Is an oversized result rejected, as the README says? No | the same |
| `script_run_other_text` | Does other text reach the merge request, as the README says? No | the same |
| `discussion` | Is a comment made at most once, and is every caller told the truth? (`NeverTwice`, `ImplementsCommentOnce`, `Answered`) | one comment on a line, one without |
| `batch_review` | Is anything lost, sent twice, or called covered that was not read and sent? (`EveryLineOnce`, `BatchesFit`, `CoverageHonest`, `FindingsOnAddedLines`, `ListedOrTold`) | every hunk of up to 4 lines; hunks of up to 3 whose header omits counts; 13 mixes of files under 9 configurations; 49 pairs of versions, 4 ways of paging |
| `housekeeping` | Is what is at work kept, what is left removed, the log unbroken, every limit kept and every cut told? (`WorkKept`, `LeftoversGo`, `LogUnbroken`, `UnpackedWithinLimits`, `AnswersHonest`) | 2 tasks, 1 review, 2 starts; 4 messages; archives of up to 3 entries; trees of up to 3 files |
| `dashboard` | Does every start reach the schema, do all views agree, and is a run shown whole once it is over? (`MigrationHolds`, `CountsAgree`, `PageWhole`, `CoverageShownWhole`, `ShownStatusSettles`) | 2 starters, 2 old databases; an AI run of 2 reviews, a script run, 3 placements |

The invariants that only say what the variables range over (`TypeOK`, and in
`Dispatch`, `ReviewRun` and `ToolLoop` a few more) are not listed as questions:
those of the modules with proofs are proved, those of `LogFile`, `Archive` and
`Lookup` are part of the three properties of `Housekeeping`.

Why the bounds are enough to see the interesting cases:

- *Dispatch.* Three webhooks are the least for one to be refused while another
  ends and a third takes its place. Two commits make "duplicate" and "busy"
  differ. The rules files swap the larger limit between reviews and scripts, so
  limits grow and shrink under live runs, and one configures a limit of 0. The
  liveness run has two scripts and a rules file that enables none.
- *ReviewRun.* Two reviews are the least for one to fail and another to go on,
  or to be skipped. With two findings one can be recorded and the other not,
  and both can share a comment. `MaxFindings` bounds the findings of one
  execution, `MaxQueued` the reports not yet written; the code's channel is
  unbounded, and two reports are one more than the order of writes needs.
- *ToolLoop.* Three look-ups with up to three calls in one answer let a budget
  run out before, in, and at the end of a round, with a repeated call beside it.
  The limits are: none; each of calls, rounds and bytes alone; all of them with
  calls or bytes the first to be reached. `MaxAsked` bounds the calls of one
  answer. Without limits a conversation is bounded here by the three look-ups;
  in the code, where look-ups are many, only by the execution's deadline. The
  bound that is proved says so: it depends on `calls`.
- *ScriptRun.* Of two findings one can get a comment of its own and one be set
  aside, in either order, with a failure in between. `MaxFindings` is the bound.
  The model has one task, since tasks share nothing but the slots and the
  cleanup.
- *Discussion.* Calls do not interact; two at once cover both kinds.
- *BatchReview.* With a limit of 24 bytes two short lines fit under a header and
  a long one never does, so hunks of up to four lines of three kinds have every
  cut: before, between and after, twice, and at a line that cannot be sent.
  Numbers pass from one digit to two inside the hunk, where a header grows. With
  limits of 19 and 24 a hunk whose header omits one count or both is within the
  limit only because of that, or is cut. The mixes have a limit of 23 for a line
  that is counted and not sent. They add headings, texts with characters of several bytes, headers that do
  not parse, deleted files and empty ones, with 0 to 2 batches at most. `PerPage`
  is 2 and pages have one file or two, so a page is short although more follow.
- *WorkDirs.* Two tasks below one merge request are the least for one's parent
  to be removed under the other. `MaxStarts` is 2: a crash and the pass of the
  restart.
- *LogFile.* A file takes 3; messages are of 1, 2 and 4, so they fit, fill it or
  are too large alone. No file, one, or three are kept besides. `MaxMessages` is
  4, enough for two rotations.
- *Archive* and *Lookup.* Limits of 1 to 7 with inputs below, at and above each.
- *Dashboard.* Runs of one merge request, of two, and of two projects; a list
  limit of 1, so lists are at it and above it; a limit on merge requests of 1,
  which leaves one out, and the code's 300; up to one finding per task.

A review run and a conversation stop when they are over, and so do a pair of
comments, the messages, starts, archives and calls of `Housekeeping`, and the
dashboard's runs: their configurations do without TLC's deadlock check.
`Dispatch` and `ScriptRun` have an environment that never stops, `BatchReview`
says where it may stop (`Over`), and these keep it.

### Fairness

- *Dispatch*: weak fairness of each handler, which has no `await` after its
  body is read, and of the end of each review and script run: every call one
  awaits is timed. No webhook need ever arrive, and nothing need be selected.
- *ReviewRun*: weak fairness of the run's own steps (its HTTP calls and the
  execution as a whole are timed) and of the writer (it waits for the store
  only). No call need ever succeed.
- *ScriptRun*: weak fairness of the runner, whose waits are all timed: the exit,
  the termination, the drain of the output. The script and its offspring owe
  nothing. The cleanup's timer ticks (weak fairness of `TakeSnapshot` and
  `Sweep`), days go by (`Age`), and a removal that is tried again and again
  succeeds sometime. The last two need strong fairness: each is possible again
  and again, not all the time. Without the last, a directory that can never be
  removed stays; the code warns about it and goes on.
- *WorkDirs* (in `Housekeeping`): weak fairness of tasks, reviews, the steps of a
  pass and the restart: calls to the file system return, the timer ticks, and a
  supervisor starts the service again. Strong fairness of each directory's
  removal, which a pass that ends early may miss many times.
- *Discussion*: only the caller's own timer. The worker may never get a thread
  and GitLab may never answer.

## 4. What disagrees with the documentation

Three statements are refuted by runs that expect a violation.

1. `review_run_archive`. `docs/design.md` (lines 130 and 220) has every archive
   failure other than a limit fail the review run. The loop ends the run for
   `AppError::Archive` only; a timeout or a refusal by GitLab is an
   `AppError::GitLab` and fails one review. The run completes.
2. `script_run_oversized`. The README has a result above 1 MiB rejected. The
   file is measured and then read without a limit, while processes the script
   left behind (an exit with 0 does not terminate them) may still write to it.
3. `script_run_other_text`. The README has text that is not a finding become a
   comment on the merge request. It does so only if no finding had to be put
   into that comment; else it is dropped, and the request completes.

## 5. Proofs

All theorems hold for every value of the constants that meets the assumption
named in the module (`DispatchAssumption`, `ReviewRunAssumption`,
`ToolLoopAssumption`, `ScriptRunAssumption`, `DiscussionAssumption`,
`CasesAssumption`, `WorkDirsAssumption`, `LogAssumption`, `ArchiveAssumption`,
`LookupAssumption`, `OldSchemasAssumption`, `DashboardAssumption`). These
assumptions say that sets are finite, limits are naturals and model values
differ; nothing about their size. `CasesAssumption` adds that a version lists
its first files and says so if these are not all, and that pages are no larger
than asked for; `WorkDirsAssumption` that tasks lie at one depth, away from the
reviews' directories; `LogAssumption` that no message is empty;
`LookupAssumption` that a call which reads names a file, and that no character
takes fewer bytes within a JSON string than by itself; `OldSchemasAssumption`
that an old database which has a table has the columns every release made it
with; `DashboardAssumption` that a script's run has one task, that a run
belongs to a project and a merge request, and that a list shows at least one.

| Module | Theorems | Argument |
|---|---|---|
| `FoldFacts` | – | What `SumFunction`, `MapThenSumSet`, `FoldLeft` and `FlattenSeq` give, for all finite sets and all sequences; that a sum (`SumGroups`) and a number (`CountGroups`) is what its groups have together. |
| `DispatchProofs` | `SlotPoolSafe`, `RegistriesExact`, `DispatchImplementsSlotPool`, `DispatchHonoursLimits`, `RefusalsAreJustified` | `CapacityHonoured` of the pools is inductive: in any set of holders the last admitted was promised room for all. `RegistryExact` alone is not: selecting or starting must not overwrite a live run. `IInv` adds that a waiting handler has started nothing, that a script to be tried has not been, and that a live run's handler has read its rules. Limits then follow from the refinement and `SlotPoolSafe`. |
| `ReviewRunProofs` | `RunBooksBalance`, `RunLeavesNothingOpen`, `RunFailureHasCause`, `RunImplementsLedger`, `RunCompletedMeansSettled`, `RunEndIsShownLast` | The properties speak of the end. `IInv` says for every step of the run how row, rows, counts and channel stand against it (`RunFollows`, `RowsFollow`, `CountsFollow`, `QueueFollows`, `CauseFollows`). |
| | `DiscussionNeverTwice`, `DiscussionImplementsCommentOnce` | Of the calls the run makes: the second request is sent only after GitLab has refused the first for good (`Exclusive`). |
| `ToolLoopProofs` | `ConversationWithinBudgets`, `ConversationBounded`, `ToolsClose`, `EvidenceKept`, `InstructionsKept`, `OnlyOffered` | `Requests` counts each follow-up against a round or a recovery; `Serving` and `Open` say why a round that leaves the tools open has executed a new call. Together they bound the loop, which has no bound of its own. |
| `ScriptRunProofs` | `ScriptRowsAgree`, `ScriptResultIsWhole`, `ScriptFindingsShown`, `ScriptTruthful`, `ScriptDirKept` | `BooksFollow` divides the findings into recorded, shown, set aside and to be placed; `DirFollows` says that a directory in use is registered, and young if the cleanup has overlooked it. |
| `BatchReviewProofs` | `ShortDiffIsTold` | `ListedOrTold` speaks of the end of a review, its reason lies in the reading. `PagesFollow` says what the pages read so far are of the first version if no push came; `WholeIfSo` that a diff not known to be short is as long as was counted, and with nothing hidden is the version's. |
| | `BatchesAlwaysFit`, `FindingsKeepToAddedLines`, `LinesAreSentOnce` | See below. `PlanInv` says that the files read are files (`AllFiles`) and that the batches are the plan of exactly these files (`PlanFollows`). |
| | `CoverageIsHonest` | `CountInv` says that after every batch, and after the numbers of GitLab have been added, the coverage is the summary of some pieces, each of which was sent or could not be (`CountStands`). What these are charged is at most what their lines take in the diff and what its headers omit (`CutWell`), so a file charged as many bytes as it has lacks no more than that (`WholeBut`, `WholeIfCharged`). |
| `HousekeepingProofs` | `WorkIsKept` | `WorkKept` alone says nothing of the parents while a task makes them. `WorkInv` adds that the tree is closed upwards (`Closed`), how far a task has come (`OwnFollows`), and that a pass is only at directories it may remove (`PassFollows`): a parent is removed when empty, never above one that exists. |
| | `LogUnbrokenAlways` | `LogInv`: the files from the oldest to the newest, joined, are an end of what was taken, also between two renames, when a generation is missing in the middle (`Joined`, `LogStands`, `LogFiles`). |
| | `UnpackedWithinLimitsAlways` | `ZipInv`: the counts of the unpacking are those of the disk (`ZipCounts`), and every file but the one in hand, copied or left behind (`ZipInHand`), has its full size (`ZipWhole`). |
| | `AnswersAreHonest` | The work is in the folds. `ListStands`, `SearchStands`: after any part of the tree the result is what is due of it, or at its limit. `RangeStands`: halving keeps the last boundary that fits between its ends, and as many rounds as there are boundaries bring the ends together. `LookupInv` carries this from the call to the answer. |
| `DashboardProofs` | `MigrationHoldsAlways` | `SchemaInv`: a starter that has passed a column has seen it or added it, and no column ever goes. |
| | `ShownStatusSettlesAlways`, `CoverageShownWholeAlways`, `PageWholeAlways` | `RowsInv` relates the rows of a run to the step its writer is at; `NumbersInv` the counts to the rows; `PageInv` what the page has read to rows that cannot change any more, because it read the run's end before. |
| | `CountsAgreeAlways` | `OpenedInv`: a run is opened once, and has no finding before. What the code counts over all rows, group by group, and along the filtered list are then sums over one finite set (`GroupsAddUp`, `SpotsAddUp`, `FindingsAddUp`). A list is a fold over `opened`; `PickedFacts` says how long it is, that it repeats nothing, and what a limit and an offset leave of it (`FirstPage`, `PageByPage`). The merge requests that fewer than the limit come before are the first ones, and as many as it allows, since how many come before one is a different number for each (`FirstOnes`, `RequestsCut`). |

The results about the planner, the context tools and the dashboard's lists are
of operators that fold over sequences, and rest on inductions over these. The
library states induction as theorems with an operator parameter, which no prover
here can use, so `FoldFacts` proves it anew for sets: `SetInduction` (a set of
naturals with 0 and each successor has all) from `WFMin`, and `SeqInduction`
likewise for sequences. `FoldEmpty` and `FoldAppend` then unfold a fold one
element at a time; the module takes the step of the fold as a constant and is
instantiated once for every fold of the model. For the planner they give:

- *cutting a hunk*: the lines of the pieces, with those that could not be sent,
  are the hunk's, in order and with its numbers; every piece fits; the pieces
  are charged what the lines take (`CutWell`);
- *pieces of a file*: the same for whole hunks and for text, under any limit;
- *batches*: joined they are the pieces, none is empty and each fits unless it
  is one character (`BatchesWhole`);
- *coverage*: if pieces of a file are charged all its bytes, then the lines in
  none of them take no more bytes than the headers omit (`WholeBut`), and there
  are none if nothing is omitted (`WholeIfCharged`). This is what makes a count
  of bytes say something about lines. Headings, which are charged to nobody,
  only make the sum of the charges smaller; omitted counts, which are charged
  though they are not in the diff, make it larger, hence the bound. `SummaryIs`
  and `MarkAdds` say that the entries add up.

That the numbers of GitLab mark files as incomplete that were counted as full
(`Correct`) and that batches fail in any order are then steps that keep
`CountStands`.

The inductive invariants were first checked with TLC as invariants of the runs, but
for the parts that only say of which (infinite) set a sequence is.

Model-checked only:

- liveness (`KeyFreed`, `RunEnds`, `TaskEnds`, `LeftoversGo`, `Answered`):
  the provers do not handle fairness and `ENABLED`.

Every other property of the runs that pass (safety invariants, action
properties, the three refinements) is a theorem. The three statements of section 4
are false and have none.

## 6. Not modelled, and the plan

Left out for good: texts, prompts, JSON and TOML, paths and globs (pure
functions without state), HTML of the dashboard, the bytes of `run.log`, the
channel that drops log messages before the log when it is full, the worker
thread of an AI attempt that outlives it (it shares nothing with the review and
answers into a channel nobody reads; what bounds such threads is time, which no
model here measures).

Met while modelling and outside of every property:

- `search_code` says "truncated" only at 50 matches in all; a read of lines gives
  the asked last line although its content was cut.
- `is_retryable_ai_error` looks for the text "blocking HTTP task failed", which
  no code produces, so a worker that panicked is not retried.
- The dashboard's summary adds up the runs' counts, its finding summary counts
  the rows; while a run goes on they differ.

Planned:

1. **Slots and processes.** Compose `Dispatch`'s permits with the processes of
   `ScriptRun`: a script that could not be killed outlives its permit, so
   `max_concurrent` bounds tasks, not processes. State and check what is
   bounded.
2. **Review and batches.** Compose `BatchReview` with `ToolLoop` and `ReviewRun`:
   one deadline over all batches, and the coverage as part of the review's end;
   the composed run implements `RunLedger`.
