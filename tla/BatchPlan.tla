------------------------------ MODULE BatchPlan ------------------------------
(***************************************************************************)
(* How the diffs of a merge request are cut into pieces and the pieces put *)
(* into batches, and what is claimed to be covered by them.                *)
(*                                                                         *)
(* A diff is read as hunks of lines, each line with its kind and its size  *)
(* in bytes (marker, content and line end), and as characters that belong  *)
(* to no hunk, each with its width.  What the lines say is left out.  A    *)
(* hunk's header is "@@ -old,lines +new,lines @@", then a heading; a count *)
(* of one may be omitted with its comma.  The planner writes every header  *)
(* with both counts and without a heading.                                 *)
(*                                                                         *)
(*   Line == [kind, bytes]                                                 *)
(*   Hunk == [old, new, heading, omitted, lines]     first lines, bytes of *)
(*                                        the heading, counts left out     *)
(*   File == [path, deleted, headers, hunks, text]                         *)
(*                                                                         *)
(* A file whose headers are "bad" cannot be parsed: all of it is `text'.   *)
(***************************************************************************)
EXTENDS SequencesExt

Kinds == {"added", "removed", "context"}

\* A line has its marker and its line end at least.
AnyLine == [kind : Kinds, bytes : Nat \ {0, 1}]
AnyHunk == [old : Nat, new : Nat, heading : Nat, omitted : 0..2, lines : Seq(AnyLine)]

OldLines(lines) == Cardinality({i \in DOMAIN lines : lines[i].kind /= "added"})
NewLines(lines) == Cardinality({i \in DOMAIN lines : lines[i].kind /= "removed"})
Bytes(lines) == SumFunction([i \in DOMAIN lines |-> lines[i].bytes])

\* How many of a hunk's counts are one, and may be omitted.
Omissible(lines) == Cardinality({<<"old", OldLines(lines)>>, <<"new", NewLines(lines)>>}
                                  \cap {<<"old", 1>>, <<"new", 1>>})

IsFile(f) ==
  /\ f \in [path : {f.path}, deleted : BOOLEAN, headers : {"read", "bad"},
           hunks : Seq(AnyHunk), text : Seq(Nat \ {0})]
  /\ f.headers = "bad" => f.hunks = <<>>
  /\ \A i \in DOMAIN f.hunks : f.hunks[i].omitted <= Omissible(f.hunks[i].lines)

\* The elements of a sequence that pass a test (SelectSeq, which is not
\* defined for the provers).
Only(s, Test(_)) == FoldLeft(LAMBDA kept, x : IF Test(x) THEN Append(kept, x) ELSE kept, <<>>, s)

----------------------------------------------------------------------------
(* Reading and writing hunks.                                              *)

\* Bound: numbers have at most three digits.
Digits(n) == IF n < 10 THEN 1 ELSE IF n < 100 THEN 2 ELSE 3

\* The header of a hunk as the planner writes it.
HeaderBytes(old, new, lines) ==
  12 + Digits(old) + Digits(OldLines(lines)) + Digits(new) + Digits(NewLines(lines))

WrittenBytes(h) == HeaderBytes(h.old, h.new, h.lines) + Bytes(h.lines)

\* A hunk as it is in the diff: with its heading, each count that is omitted
\* two bytes shorter.
OmittedBytes(h) == 2 * h.omitted
SourceBytes(h) == WrittenBytes(h) + h.heading - OmittedBytes(h)

DiffBytes(f) ==
  SumFunction([i \in DOMAIN f.hunks |-> SourceBytes(f.hunks[i])]) + SumFunction(f.text)

\* What the headers of a file omit.
Omitted(f) == SumFunction([i \in DOMAIN f.hunks |-> OmittedBytes(f.hunks[i])])

\* The lines of a hunk with the places the parser gives them.
Numbered(h) ==
  [i \in DOMAIN h.lines |->
     LET before == SubSeq(h.lines, 1, i - 1)
     IN  [kind |-> h.lines[i].kind, bytes |-> h.lines[i].bytes,
          old |-> h.old + OldLines(before), new |-> h.new + NewLines(before)]]

Parsed(f) == FlattenSeq([i \in DOMAIN f.hunks |-> Numbered(f.hunks[i])])

----------------------------------------------------------------------------
(* Pieces.  `charged' is what a piece counts for in the coverage; what it  *)
(* takes up in a batch are its own bytes.                                  *)

Piece(f, hunks, text, charged) ==
  [path |-> f.path, deleted |-> f.deleted, headers |-> f.headers,
   hunks |-> hunks, text |-> text, charged |-> charged, reviewable |-> TRUE]

Unsendable(f) == [Piece(f, <<>>, <<>>, 0) EXCEPT !.reviewable = FALSE]

\* Text that is not understood, cut between characters; what starts a line
\* of such a piece need not have started one of the text.
CloseText(f, acc) ==
  Append(acc.pieces, [Piece(f, <<>>, acc.text, SumFunction(acc.text)) EXCEPT !.headers = "cut"])

TakeText(f, acc, width, limit) ==
  IF acc.text /= <<>> /\ SumFunction(acc.text) + width > limit
  THEN [pieces |-> CloseText(f, acc), text |-> <<width>>]
  ELSE [acc EXCEPT !.text = Append(@, width)]

TextPieces(f, limit) ==
  LET Take(acc, width) == TakeText(f, acc, width, limit)
      end == FoldLeft(Take, [pieces |-> <<>>, text |-> <<>>], f.text)
  IN  IF end.text = <<>> THEN end.pieces ELSE CloseText(f, end)

\* A hunk being cut: the pieces so far, then the lines of the next one with
\* its first places and with the bytes it will be charged.
CutAt(h) ==
  [pieces |-> <<>>, lines |-> <<>>, old |-> h.old, new |-> h.new,
   charged |-> HeaderBytes(h.old, h.new, h.lines)]

Fits(cut, lines, limit) == HeaderBytes(cut.old, cut.new, lines) + Bytes(lines) <= limit

\* The lines are passed: the next piece starts behind them.
Past(cut, lines, piece) ==
  [pieces |-> Append(cut.pieces, piece), lines |-> <<>>,
   old |-> cut.old + OldLines(lines), new |-> cut.new + NewLines(lines), charged |-> 0]

CutHunk(cut) == [old |-> cut.old, new |-> cut.new, heading |-> 0, omitted |-> 0, lines |-> cut.lines]

\* Faulty variant: the next piece keeps the places of the one before.
CloseInPlace(f, cut) ==
  [cut EXCEPT !.pieces = Append(@, Piece(f, <<CutHunk(cut)>>, <<>>, cut.charged)),
              !.lines = <<>>, !.charged = 0]

CloseCut(f, cut) == Past(cut, cut.lines, Piece(f, <<CutHunk(cut)>>, <<>>, cut.charged))

\* A line that is first in its piece is sent with it or not at all.
FirstLine(f, cut, line, limit) ==
  IF Fits(cut, <<line>>, limit)
  THEN [cut EXCEPT !.lines = <<line>>, !.charged = @ + line.bytes]
  ELSE Past(cut, <<line>>, Unsendable(f))

CutLine(f, cut, line, limit) ==
  LET more == Append(cut.lines, line)
  IN  IF cut.lines = <<>> THEN FirstLine(f, cut, line, limit)
      ELSE IF Fits(cut, more, limit)
           THEN [cut EXCEPT !.lines = more, !.charged = @ + line.bytes]
           ELSE FirstLine(f, CloseCut(f, cut), line, limit)

HunkPieces(f, h, limit) ==
  LET Take(cut, line) == CutLine(f, cut, line, limit)
      end == FoldLeft(Take, CutAt(h), h.lines)
  IN  IF end.lines = <<>> THEN end.pieces ELSE CloseCut(f, end).pieces

\* Whole hunks together while they fit; a hunk too large alone is cut.
Whole(hunks) == SumFunction([i \in DOMAIN hunks |-> WrittenBytes(hunks[i])])

Flushed(f, acc) ==
  IF acc.hunks = <<>> THEN acc.pieces ELSE Append(acc.pieces, Piece(f, acc.hunks, <<>>, Whole(acc.hunks)))

TakeHunk(f, acc, h, limit) ==
  LET plain == [h EXCEPT !.heading = 0, !.omitted = 0]
  IN  IF WrittenBytes(h) > limit
      THEN [pieces |-> Flushed(f, acc) \o HunkPieces(f, h, limit), hunks |-> <<>>]
      ELSE IF Whole(acc.hunks) + WrittenBytes(h) > limit
           THEN [pieces |-> Flushed(f, acc), hunks |-> <<plain>>]
           ELSE [acc EXCEPT !.hunks = Append(@, plain)]

Pieces(f, limit) ==
  LET Take(acc, h) == TakeHunk(f, acc, h, limit)
      start == [pieces |-> <<>>, hunks |-> <<>>]
  IN  CASE DiffBytes(f) <= limit -> <<Piece(f, f.hunks, f.text, DiffBytes(f))>>
        [] DiffBytes(f) > limit /\ f.hunks = <<>> -> TextPieces(f, limit)
        [] OTHER -> Flushed(f, FoldLeft(Take, start, f.hunks))

AllPieces(files, limit) == FlattenSeq([i \in DOMAIN files |-> Pieces(files[i], limit)])

----------------------------------------------------------------------------
(* Batches and coverage.                                                   *)

BatchBytes(batch) == SumFunction([i \in DOMAIN batch |-> DiffBytes(batch[i])])

\* Faulty variant: a piece is added before its size is looked at.
TakePieceGreedily(acc, piece, limit) ==
  IF BatchBytes(acc.batch) > limit
  THEN [batches |-> Append(acc.batches, acc.batch), batch |-> <<piece>>]
  ELSE [acc EXCEPT !.batch = Append(@, piece)]

\* Pieces in their order, as many to a batch as fit.
TakePiece(acc, piece, limit) ==
  IF acc.batch /= <<>> /\ BatchBytes(acc.batch) + DiffBytes(piece) > limit
  THEN [batches |-> Append(acc.batches, acc.batch), batch |-> <<piece>>]
  ELSE [acc EXCEPT !.batch = Append(@, piece)]

Batches(pieces, limit) ==
  LET Take(acc, piece) == TakePiece(acc, piece, limit)
      end == FoldLeft(Take, [batches |-> <<>>, batch |-> <<>>], pieces)
  IN  IF end.batch = <<>> THEN end.batches ELSE Append(end.batches, end.batch)

Of(path, pieces) == Only(pieces, LAMBDA p : p.path = path)

\* The bytes of a file that the pieces account for.
Covered(f, pieces) ==
  LET own == Of(f.path, pieces)
  IN  Min({SumFunction([i \in DOMAIN own |-> own[i].charged]), DiffBytes(f)})

Reason(f, pieces) ==
  CASE \E i \in DOMAIN pieces : pieces[i].path = f.path /\ ~pieces[i].reviewable -> "single_diff_line_too_large"
    [] DiffBytes(f) = 0 -> "gitlab_diff_unavailable"
    [] OTHER -> "max_batches_reached"

Entry(f, pieces) ==
  LET covered == Covered(f, pieces)
  IN  [path |-> f.path, total |-> DiffBytes(f), reviewed |-> covered,
       status |-> IF covered = 0 THEN "unreviewed"
                  ELSE IF covered < DiffBytes(f) THEN "partial" ELSE "full",
       reason |-> Reason(f, pieces)]

\* What a set of pieces covers of the files: counts, and the files of which
\* something is missing.
Summary(files, pieces) ==
  LET entries == [i \in DOMAIN files |-> Entry(files[i], pieces)]
      With(status) == Only(entries, LAMBDA e : e.status = status)
  IN  [full |-> Len(With("full")), partial |-> Len(With("partial")),
       unreviewed |-> Len(With("unreviewed")),
       reviewed |-> SumFunction([i \in DOMAIN entries |-> entries[i].reviewed]),
       incomplete |-> Only(entries, LAMBDA e : e.status /= "full")]
=============================================================================
