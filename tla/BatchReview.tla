----------------------------- MODULE BatchReview -----------------------------
(***************************************************************************)
(* One AI review of a merge request, from reading its diff to the row that *)
(* says what was covered: the files come page by page, or from the older   *)
(* interface; their diffs are planned into batches; these are sent to the  *)
(* model one after another under one deadline; at the first that fails the *)
(* review fails, and if it ran out of time it is done once more, with the  *)
(* diff only.  Then what GitLab did not show is added to what was missed.  *)
(*                                                                         *)
(* A merge request has versions.  A push while the files are being read    *)
(* replaces the version.                                                   *)
(*                                                                         *)
(*   Version == [files, listed, count, collapsed, large]                   *)
(*                                                                         *)
(* GitLab lists the first `listed' of the files and shows no diff for a    *)
(* file that is collapsed or too large.  It gives their number exactly,    *)
(* as a lower bound with a "+", or not at all.                             *)
(***************************************************************************)
EXTENDS BatchPlan

CONSTANTS
  Cases,     \* [before, after: versions, limit, most: of the configuration,
             \*  page: GitLab's page size, named: whether it names the next page]
  PerPage    \* the page size asked for

IsVersion(v) ==
  /\ v.files \in Seq(Range(v.files))
  /\ \A i \in DOMAIN v.files : IsFile(v.files[i])
  /\ \A i, j \in DOMAIN v.files : v.files[i].path = v.files[j].path => i = j
  /\ v.listed \in 0..Len(v.files)
  /\ v.count \in {"exact", "plus", "none"}
  /\ v.listed < Len(v.files) => v.count /= "none"

ASSUME CasesAssumption ==
  /\ PerPage \in Nat \ {0}
  /\ \A c \in Cases :
       /\ IsVersion(c.before) /\ IsVersion(c.after)
       /\ c.limit \in Nat \ {0} /\ c.most \in Nat
       /\ c.page \in 1..PerPage /\ c.named \in BOOLEAN

VARIABLES
  at,         \* where the review stands
  case, pushed,
  counted,    \* what the metadata said: [count, number]
  page, files, flags, overflow,  \* the diff as read
  mode,       \* "context" or "diff_only"
  batches, done,                 \* the plan, and the batches that succeeded
  coverage,   \* counts, and whether they are known
  complete, incomplete,
  result, findings,
  row         \* what is stored of it: nothing, or one record

reading == <<counted, page, files, flags, overflow>>
running == <<batches, done, coverage, complete, incomplete, result, findings>>
vars == <<at, case, pushed, reading, mode, running, row>>

Request == IF pushed THEN case.after ELSE case.before
Number(v) == [count |-> v.count, number |-> Len(v.files)]
Listed(v) == SubSeq(v.files, 1, v.listed)

\* A file as GitLab lists it.
Shown(v, f) ==
  IF f.path \in v.collapsed \cup v.large THEN [f EXCEPT !.hunks = <<>>, !.text = <<>>] ELSE f
Flag(v, f) == [path |-> f.path, collapsed |-> f.path \in v.collapsed, large |-> f.path \in v.large]
ShownAll(v, list) == [i \in DOMAIN list |-> Shown(v, list[i])]
FlagAll(v, list) == [i \in DOMAIN list |-> Flag(v, list[i])]

Unknown == [known |-> FALSE, total |-> 0, full |-> 0, partial |-> 0, unreviewed |-> 0,
            reviewed |-> 0, bytes |-> 0, required |-> 0, planned |-> 0]

Init ==
  /\ at = "metadata" /\ case \in Cases /\ pushed = FALSE
  /\ counted = [count |-> "none", number |-> 0]
  /\ page = 1 /\ files = <<>> /\ flags = <<>> /\ overflow = FALSE
  /\ mode = "context" /\ batches = <<>> /\ done = 0
  /\ coverage = Unknown /\ complete = FALSE /\ incomplete = <<>>
  /\ result = "none" /\ findings = {} /\ row = <<>>

----------------------------------------------------------------------------
(* Reading the diff.                                                       *)

Push ==
  /\ at \in {"metadata", "paging", "legacy", "raw"}
  /\ ~pushed /\ case.after /= case.before
  /\ pushed' = TRUE
  /\ UNCHANGED <<at, case, reading, mode, running, row>>

ReadMetadata ==
  /\ at = "metadata" /\ at' = "paging"
  /\ counted' = Number(Request)
  /\ UNCHANGED <<case, pushed, page, files, flags, overflow, mode, running, row>>

\* Faulty variant: only files that are missing altogether are noticed.
OverflowUnlessPlus(number, returned) == number.count = "exact" /\ number.number > returned

Overflow(number, returned) ==
  number.count = "plus" \/ (number.count = "exact" /\ number.number > returned)

\* Whether a page is followed by another: GitLab names one, or it is full.
Another(got, last) == (case.named /\ ~last) \/ got = PerPage

ReadPage ==
  /\ at = "paging"
  /\ LET list == Listed(Request)
         from == (page - 1) * case.page
         got == SubSeq(list, from + 1, Min({from + case.page, Len(list)}))
         more == Another(Len(got), from + case.page >= Len(list))
     IN  /\ files' = files \o ShownAll(Request, got)
         /\ flags' = flags \o FlagAll(Request, got)
         /\ at' = IF more THEN "paging" ELSE "context"
         /\ page' = IF more THEN page + 1 ELSE page
         /\ overflow' = (~more /\ Overflow(counted, Len(files')))
  /\ UNCHANGED <<case, pushed, counted, mode, running, row>>

\* The pages are answered with 404: what was read of them is dropped.
PagesUnknown ==
  /\ at \in {"metadata", "paging"} /\ at' = "legacy"
  /\ files' = <<>> /\ flags' = <<>> /\ counted' = [count |-> "none", number |-> 0]
  /\ UNCHANGED <<case, pushed, page, overflow, mode, running, row>>

ReadLegacy ==
  /\ at = "legacy"
  /\ files' = ShownAll(Request, Listed(Request))
  /\ flags' = FlagAll(Request, Listed(Request))
  /\ overflow' = (Request.listed < Len(Request.files))
  /\ at' = IF overflow' THEN "raw" ELSE "context"
  /\ UNCHANGED <<case, pushed, counted, page, mode, running, row>>

\* Everything at last, or still not; or an error, and the shorter one stands.
ReadRaw ==
  /\ at = "raw" /\ at' = "context"
  /\ \/ /\ files' = Request.files
        /\ flags' = [i \in DOMAIN files' |-> [path |-> files'[i].path, collapsed |-> FALSE, large |-> FALSE]]
        /\ overflow' \in BOOLEAN
     \/ UNCHANGED <<files, flags, overflow>>
  /\ UNCHANGED <<case, pushed, counted, page, mode, running, row>>

ReadFails ==
  /\ at \in {"metadata", "paging", "legacy"} /\ at' = "failed"
  /\ UNCHANGED <<case, pushed, reading, mode, running, row>>

----------------------------------------------------------------------------
(* The review.                                                             *)

\* The repository is unpacked; it is too large; or it cannot be had.
PrepareContext ==
  /\ at = "context"
  /\ \/ at' = "planning" /\ UNCHANGED <<mode, result>>
     \/ at' = "planning" /\ mode' = "diff_only" /\ UNCHANGED result
     \/ at' = "returned" /\ result' = "archive" /\ UNCHANGED mode
  /\ UNCHANGED <<case, pushed, reading, batches, done, coverage, complete, incomplete, findings, row>>

Counts(summary, required, planned) ==
  [known |-> TRUE, total |-> Len(files), full |-> summary.full, partial |-> summary.partial,
   unreviewed |-> summary.unreviewed, reviewed |-> summary.reviewed,
   bytes |-> SumFunction([i \in DOMAIN files |-> DiffBytes(files[i])]),
   required |-> required, planned |-> planned]

Plan ==
  /\ at = "planning" /\ at' = "batch"
  /\ LET pieces == AllPieces(files, case.limit)
         sendable == Only(pieces, LAMBDA p : p.reviewable)
         unsendable == Only(pieces, LAMBDA p : ~p.reviewable)
         all == Batches(sendable, case.limit)
         planned == IF case.most = 0 THEN Len(all) ELSE Min({Len(all), case.most})
         summary == Summary(files, FlattenSeq(SubSeq(all, 1, planned)) \o unsendable)
     IN  /\ batches' = SubSeq(all, 1, planned)
         /\ coverage' = Counts(summary, Len(all), planned)
         /\ incomplete' = summary.incomplete
  /\ done' = 0 /\ complete' = FALSE /\ findings' = {} /\ result' = "none"
  /\ UNCHANGED <<case, pushed, reading, mode, row>>

\* The places on added lines of a batch, as its own pieces are parsed.
Added(batch) ==
  UNION {LET lines == Parsed(batch[i])
         IN  {<<batch[i].path, lines[k].new>> : k \in {k \in DOMAIN lines : lines[k].kind = "added"}}
           : i \in {i \in DOMAIN batch : ~batch[i].deleted}}

\* Whether filtering the findings of a batch fails at a header.
CannotParse(batch) == \E i \in DOMAIN batch : batch[i].headers = "bad" /\ ~batch[i].deleted /\ batch[i].text /= <<>>

\* Faulty variant: findings are not filtered.
KeptAsClaimed(batch, claimed) == claimed

Kept(batch, claimed) == claimed \cap Added(batch)

\* Places the model may name: any in a file, the ones that exist and others.
Claims == {<<files[i].path, n>> : i \in DOMAIN files, n \in 1..20}

\* The model names nothing, or everything: every finding is judged alone.
BatchSucceeds ==
  /\ at = "batch" /\ done < Len(batches)
  /\ ~CannotParse(batches[done + 1])
  /\ \E claimed \in {{}, Claims} : findings' = findings \cup Kept(batches[done + 1], claimed)
  /\ done' = done + 1
  /\ UNCHANGED <<at, case, pushed, reading, mode, batches, coverage, complete, incomplete, result, row>>

PathsOf(pieces) == {pieces[i].path : i \in DOMAIN pieces}

\* What is covered is counted again, with `sent' batches; files of the
\* others are said to have failed.
Recount(sent) ==
  LET pieces == FlattenSeq(SubSeq(batches, 1, sent))
      failed == PathsOf(FlattenSeq(SubSeq(batches, done + 1, Len(batches))))
      summary == Summary(files, pieces)
  IN  /\ coverage' = [coverage EXCEPT !.full = summary.full, !.partial = summary.partial,
                        !.unreviewed = summary.unreviewed, !.reviewed = summary.reviewed]
      /\ incomplete' = [i \in DOMAIN summary.incomplete |->
                          IF summary.incomplete[i].path \in failed
                          THEN [summary.incomplete[i] EXCEPT !.reason = "batch_execution_failed"]
                          ELSE summary.incomplete[i]]
      /\ complete' = FALSE

Failing ==
  /\ at = "batch" /\ done < Len(batches) /\ at' = "returned"
  /\ result' \in {"timeout", "error"} /\ findings' = {}
  /\ UNCHANGED <<case, pushed, reading, mode, batches, done, row>>

\* Faulty variant: the batch that failed counts with those before it.
BatchFailsCounted == Failing /\ Recount(done + 1)

\* The model, the network, a header, or the deadline; the findings of the
\* batches before it are lost.
BatchFails == Failing /\ Recount(done)

BatchesEnd ==
  /\ at = "batch" /\ done = Len(batches) /\ at' = "returned"
  /\ result' = "ok"
  /\ complete' = (coverage.partial = 0 /\ coverage.unreviewed = 0)
  /\ UNCHANGED <<case, pushed, reading, mode, batches, done, coverage, incomplete, findings, row>>

\* Out of time with the repository at hand: once more, with the diff only.
FallBack ==
  /\ at = "returned" /\ mode = "context" /\ result = "timeout"
  /\ at' = "planning" /\ mode' = "diff_only"
  /\ UNCHANGED <<case, pushed, reading, running, row>>

----------------------------------------------------------------------------
(* What is told of it.                                                     *)

Missing(path, reason) ==
  [path |-> path, total |-> 0, reviewed |-> 0, status |-> "unreviewed", reason |-> reason]

\* One file GitLab did not show.
Mark(told, flag) ==
  LET reason == IF flag.large THEN "gitlab_diff_too_large" ELSE "gitlab_diff_collapsed"
      own == {i \in DOMAIN told.list : told.list[i].path = flag.path}
  IN  IF own /= {}
      THEN [told EXCEPT !.list[Min(own)].reason = reason]
      ELSE [list |-> Append(told.list, Missing(flag.path, reason)), more |-> told.more + 1]

\* The coverage is corrected by what GitLab did not show.  There may be no
\* coverage, only the list.
Correct ==
  /\ at = "returned" /\ ~(mode = "context" /\ result = "timeout")
  /\ at' = "corrected"
  /\ LET hidden == Only(flags, LAMBDA f : f.collapsed \/ f.large)
         marked == FoldLeft(Mark, [list |-> incomplete, more |-> 0], hidden)
         told == IF overflow
                 THEN [list |-> Append(marked.list, Missing("(merge request diff)", "gitlab_diff_overflow")),
                       more |-> marked.more + 1]
                 ELSE marked
     IN  /\ incomplete' = told.list
         /\ complete' = (complete /\ ~overflow /\ \A i \in DOMAIN flags : ~flags[i].collapsed /\ ~flags[i].large)
         /\ coverage' = IF ~coverage.known THEN coverage
                        ELSE [coverage EXCEPT !.total = @ + told.more, !.unreviewed = @ + told.more]
  /\ UNCHANGED <<case, pushed, reading, mode, batches, done, result, findings, row>>

\* The row and its files are written in one transaction; without a coverage
\* there is nothing of it to write.
Store ==
  /\ at = "corrected" /\ at' = "stored"
  /\ row' = IF ~coverage.known THEN <<>>
            ELSE <<[coverage |-> coverage, complete |-> complete, files |-> incomplete, result |-> result]>>
  /\ UNCHANGED <<case, pushed, reading, mode, running>>

StoreFails ==
  /\ at = "corrected" /\ at' = "failed"
  /\ UNCHANGED <<case, pushed, reading, mode, running, row>>

Over == at \in {"stored", "failed"} /\ UNCHANGED vars

Reading == ReadMetadata \/ ReadPage \/ PagesUnknown \/ ReadLegacy \/ ReadRaw \/ ReadFails
Reviewing == PrepareContext \/ Plan \/ BatchSucceeds \/ BatchFails \/ BatchesEnd \/ FallBack
Telling == Correct \/ Store \/ StoreFails

Next == Push \/ Reading \/ Reviewing \/ Telling \/ Over

Spec == Init /\ [][Next]_vars

----------------------------------------------------------------------------
(* What must hold.                                                         *)

Told == at \in {"corrected", "stored"}
Planned == coverage.known

TypeOK ==
  /\ at \in {"metadata", "paging", "legacy", "raw", "context", "planning", "batch",
             "returned", "corrected", "stored", "failed"}
  /\ case \in Cases /\ pushed \in BOOLEAN /\ overflow \in BOOLEAN /\ complete \in BOOLEAN
  /\ mode \in {"context", "diff_only"}
  /\ result \in {"none", "ok", "timeout", "error", "archive"}
  /\ done \in Nat

\* No file is read twice.  A push between two pages can shift one of an
\* earlier page to a later one.
Once == \A i, j \in DOMAIN files : files[i].path = files[j].path => i = j

\* Whether a line can be sent at all: alone, with a header of its own.
Sendable(line) == HeaderBytes(line.old, line.new, <<line>>) + line.bytes <= case.limit

SentLines(path, list) ==
  LET own == Of(path, FlattenSeq(list))
  IN  FlattenSeq([i \in DOMAIN own |-> Parsed(own[i])])

(* Cutting a diff loses no line but those too large to be sent at all,     *)
(* sends none twice or out of order, and gives the parser of each piece    *)
(* the places the lines have in the whole diff; batches left out for the   *)
(* configured maximum take the end of it.  A diff within the limit is not  *)
(* cut, and all of its lines are sent.                                     *)
(* (split_change_into_review_work_items, split_hunk_into_review_work_items,*)
(* plan_ai_review_batches.)                                                *)
EveryLineOnce ==
  Planned /\ Once =>
    \A i \in DOMAIN files :
      LET want == IF DiffBytes(files[i]) <= case.limit THEN Parsed(files[i])
                  ELSE Only(Parsed(files[i]), Sendable)
          sent == SentLines(files[i].path, batches)
      IN  /\ IsPrefix(sent, want)
          /\ coverage.planned = coverage.required => sent = want

(* No batch is empty or larger than configured, but for one that is a      *)
(* single character.  (plan_ai_review_batches, and the cutting before it.) *)
BatchesFit ==
  \A b \in DOMAIN batches :
    /\ batches[b] /= <<>>
    /\ \/ BatchBytes(batches[b]) <= case.limit
       \/ Len(batches[b]) = 1 /\ Len(batches[b][1].text) = 1 /\ batches[b][1].hunks = <<>>

(* What the coverage says was reviewed, was, but for the bytes by which    *)
(* the headers are shorter in the diff than the planner writes and charges *)
(* them: of a file that is not listed as incomplete no more than that was  *)
(* left out of the batches that succeeded, and nothing if no header omits  *)
(* a count; one listed as partial was sent in part, and the counts add up  *)
(* to the files.  It is said to be complete only if the review succeeded   *)
(* with every file so, and nothing is listed.                              *)
(* (summarize_planned_work_items, split_hunk_into_review_work_items,       *)
(* apply_batch_failure_coverage, run_batched_ai_review.)                   *)
CoverageHonest ==
  Told /\ Planned =>
    LET Lines(f) == SentLines(f.path, SubSeq(batches, 1, done))
        Listing(f) == {i \in DOMAIN incomplete : incomplete[i].path = f.path}
    IN  /\ Once => \A i \in DOMAIN files :
             /\ Listing(files[i]) = {} =>
                  /\ Bytes(Parsed(files[i])) <= Bytes(Lines(files[i])) + Omitted(files[i])
                  /\ Omitted(files[i]) = 0 => Lines(files[i]) = Parsed(files[i])
             /\ \A j \in Listing(files[i]) :
                  incomplete[j].status = "partial" => Of(files[i].path, FlattenSeq(SubSeq(batches, 1, done))) /= <<>>
        /\ coverage.full + coverage.partial + coverage.unreviewed = coverage.total
        /\ coverage.partial + coverage.unreviewed = Len(incomplete)
        /\ complete => result = "ok" /\ incomplete = <<>>

(* A finding is kept only where the diff has an added line, also when the  *)
(* batch held only a piece of it.  (filter_findings_to_added_lines.)       *)
FindingsOnAddedLines ==
  findings \subseteq
    UNION {LET lines == Parsed(files[i])
           IN  {<<files[i].path, lines[k].new>> : k \in {k \in DOMAIN lines : lines[k].kind = "added"}}
             : i \in DOMAIN files}

(* A diff that was not read whole is never reported as covered: unless a   *)
(* push came while it was being read, a complete coverage is of exactly    *)
(* the files of the merge request with all their lines; and in any case    *)
(* of as many files as GitLab had counted.  (merge_request_changes,        *)
(* merge_request_diffs, detect_diff_overflow,                              *)
(* apply_gitlab_diff_incompleteness.)                                      *)
ListedOrTold ==
  Told /\ complete =>
    /\ ~pushed /\ Request.count /= "none" => files = Request.files
    /\ counted.count = "exact" => Len(files) >= counted.number
=============================================================================
