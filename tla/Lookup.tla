-------------------------------- MODULE Lookup --------------------------------
(***************************************************************************)
(* One call of a context tool on the unpacked repository.  list_files and  *)
(* search_code walk over its files, in the order the file system gives,    *)
(* read_file reads one of them, whole or some lines; every tool has limits *)
(* of its own.  Its result is written as JSON, and cut to what is left of  *)
(* the bytes the review may look up.                                       *)
(*                                                                         *)
(*   File == [place, glob, large, hits, lines]                             *)
(*                                                                         *)
(* The place is "kept", "low" (generated, vendored, a lock file), "hidden" *)
(* (.env, .git) or "link"; glob tells whether the pattern of the call has  *)
(* it, large whether it is above a MiB, hits in how many lines the query   *)
(* is.  A line is a sequence of characters, a character [bytes, quoted,    *)
(* valid]: its bytes, its bytes in a JSON string, and whether it is one;   *)
(* a byte that starts no character is not.                                 *)
(***************************************************************************)
EXTENDS SequencesExt

CONSTANTS
  Calls,      \* [tool: "list", "search", "read", "range" or "none", tree, first,
              \*  last, bytes, left: what may be looked up at once, and in all]
  Results,    \* texts a result may come to in JSON
  ListMax,    \* LIST_MAX_FILES, 200
  SearchMax,  \* SEARCH_MAX_MATCHES, 50
  FileMax,    \* SEARCH_MAX_MATCHES_PER_FILE, 5
  ReadMax,    \* READ_MAX_FILE_BYTES, a MiB
  LineMax,    \* READ_MAX_LINES, 250
  Minimal,    \* bytes of the object that says no more than that it was cut
  Wrapper     \* bytes of the object around a text that was cut

VARIABLES
  call,
  step,      \* "called", "found" or "answered"
  result,    \* what the tool has found
  text,      \* as JSON
  answer     \* what is sent of it: [form, chars, size]

vars == <<call, step, result, text, answer>>

\* What a result is in JSON may be any text.  Bound: it is looked at only where
\* there is no tool, the cut being the same for all.
Init ==
  /\ call \in Calls /\ step = "called" /\ result = <<>>
  /\ text \in (IF call.tool = "none" THEN Results ELSE {<<>>})
  /\ answer = <<>>

Bytes(chars) == SumFunction([i \in DOMAIN chars |-> chars[i].bytes])
Quoted(chars) == SumFunction([i \in DOMAIN chars |-> chars[i].quoted])
Valid(chars) == \A i \in DOMAIN chars : chars[i].valid

Refused == [ok |-> FALSE]

----------------------------------------------------------------------------
(* Files and matches.                                                      *)

\* collect_files: neither links nor what is hidden.
Visited(f) == f.place \in {"kept", "low"}

\* Faulty variant: a list that is full does not count as cut.
FullWhenMore(n, most) == n > most

Full(n, most) == n >= most

\* The walk stops when the list is full.
List(tree) ==
  LET Listed(f) == Visited(f) /\ f.place /= "low" /\ f.glob
      Take(files, f) ==
        IF Listed(f) /\ Len(files) < ListMax THEN Append(files, f) ELSE files
      files == FoldLeft(Take, <<>>, tree)
  IN  [ok |-> TRUE, files |-> files, truncated |-> Full(Len(files), ListMax)]

\* The matches of each file, by its position in the tree.
Search(tree) ==
  LET Searched(f) == Visited(f) /\ f.place /= "low" /\ ~f.large /\ f.glob /\ Valid(FlattenSeq(f.lines))
      Take(acc, f) ==
        LET most == IF Searched(f) THEN Min({f.hits, FileMax, SearchMax - acc.all}) ELSE 0
        IN  [all |-> acc.all + most, matches |-> Append(acc.matches, most)]
      end == FoldLeft(Take, [all |-> 0, matches |-> <<>>], tree)
  IN  [ok |-> TRUE, matches |-> end.matches, truncated |-> Full(end.all, SearchMax)]

----------------------------------------------------------------------------
(* Reading.                                                                *)

\* The characters that lie within so many bytes.
Within(chars, most) ==
  SubSeq(chars, 1, Max({n \in 0..Len(chars) : Bytes(SubSeq(chars, 1, n)) <= most}))

MayRead(f) == f.place \in {"kept", "low"}
Most == Min({Max({1, call.bytes}), ReadMax})

\* read_utf8_file_limited: no more is read, and what is read of a last
\* character is dropped; a byte that is none is an error where it is read.
ReadWhole(f) ==
  LET chars == FlattenSeq(f.lines)
      head == Within(chars, Most)
  IN  IF ~MayRead(f) \/ ~Valid(head) THEN Refused
      ELSE [ok |-> TRUE, chars |-> head, truncated |-> Bytes(chars) > Most]

\* read_utf8_line_range_limited: the whole file is read.  The last line told
\* is the one asked for, also when its characters were cut.
ReadLines(f, first, last) ==
  LET end == Min({last, Len(f.lines)})
      chars == FlattenSeq(SubSeq(f.lines, first, end))
  IN  IF \/ first = 0 \/ last < first \/ last - first + 1 > LineMax
         \/ ~MayRead(f) \/ f.large \/ ~Valid(FlattenSeq(f.lines)) \/ first > Len(f.lines)
      THEN Refused
      ELSE [ok |-> TRUE, chars |-> Within(chars, Most), last |-> end,
            truncated |-> Bytes(chars) > Most]

\* Without the repository no tool is there.
Execute ==
  /\ step = "called" /\ step' = "found"
  /\ result' = CASE call.tool = "list" -> List(call.tree)
                 [] call.tool = "search" -> Search(call.tree)
                 [] call.tool = "read" -> ReadWhole(call.tree[1])
                 [] call.tool = "range" -> ReadLines(call.tree[1], call.first, call.last)
                 [] call.tool = "none" -> Refused
  /\ UNCHANGED <<call, text, answer>>

----------------------------------------------------------------------------
(* Answering.                                                              *)

Allowed == Min({Max({1, call.bytes}), Max({1, call.left})})

Cut(n) == [form |-> "cut", chars |-> n, size |-> Wrapper + Quoted(SubSeq(text, 1, n))]

\* The boundaries of characters that may be the last to fit: halved.
Halve(range) ==
  LET middle == range.low + (range.high - range.low) \div 2
  IN  IF range.low >= range.high THEN range
      ELSE IF Cut(middle).size <= Allowed THEN [range EXCEPT !.low = middle + 1]
      ELSE [range EXCEPT !.high = middle]

\* How many boundaries, from the first on, fit: halved until none is left,
\* for which as many times as there are boundaries is enough.
Boundaries ==
  LET n == Len(text) + 1
      start == [low |-> 0, high |-> n]
  IN  FoldLeft(LAMBDA range, round : Halve(range), start, [round \in 1..n |-> round]).low

\* truncate_json_result
Answer ==
  /\ step = "found" /\ step' = "answered"
  /\ answer' =
       CASE Bytes(text) <= Allowed -> [form |-> "whole", chars |-> Len(text), size |-> Bytes(text)]
         [] Bytes(text) > Allowed /\ Minimal > Allowed -> [form |-> "0", chars |-> 0, size |-> 1]
         [] Bytes(text) > Allowed /\ Minimal <= Allowed ->
              IF Boundaries > 0 THEN Cut(Boundaries - 1)
              ELSE [form |-> "minimal", chars |-> 0, size |-> Minimal]
  /\ UNCHANGED <<call, result, text>>

Next == Execute \/ Answer

Spec == Init /\ [][Next]_vars

----------------------------------------------------------------------------
(* What must hold.                                                         *)

TypeOK ==
  /\ step \in {"called", "found", "answered"}
  /\ \A i \in DOMAIN text : text[i].bytes \in Nat /\ text[i].quoted \in Nat

\* The files that a list may be about.
Wanted ==
  FoldLeft(LAMBDA files, f : IF f.place = "kept" /\ f.glob THEN Append(files, f) ELSE files,
           <<>>, call.tree)

\* A beginning of the characters asked for, as long as it may be.
Reads(chars) ==
  /\ IsPrefix(result.chars, chars) /\ Bytes(result.chars) <= Most
  /\ ~result.truncated => result.chars = chars
  /\ result.truncated => Bytes(SubSeq(chars, 1, Len(result.chars) + 1)) > Most

(* A result that does not say it was cut is all there is: every file that  *)
(* may be listed, every match up to the number for one file, every         *)
(* character asked for; one that was cut ends between two characters, as   *)
(* late as it can; and what is sent is never more than may be looked up,   *)
(* and as much of the result as fits.  (list_files, search_code,           *)
(* read_utf8_file_limited, read_utf8_line_range_limited,                   *)
(* truncate_json_result.)                                                  *)
AnswersHonest ==
  /\ step /= "called" /\ result.ok =>
       CASE call.tool = "list" ->
              /\ IsPrefix(result.files, Wanted) /\ (~result.truncated => result.files = Wanted)
         [] call.tool = "search" ->
              \A i \in DOMAIN call.tree :
                LET f == call.tree[i]
                    due == IF f.place = "kept" /\ f.glob /\ ~f.large /\ Valid(FlattenSeq(f.lines))
                           THEN Min({f.hits, FileMax}) ELSE 0
                IN  /\ result.matches[i] <= due
                    /\ ~result.truncated => result.matches[i] = due
         [] call.tool = "read" -> Reads(FlattenSeq(call.tree[1].lines))
         [] call.tool = "range" ->
              Reads(FlattenSeq(SubSeq(call.tree[1].lines, call.first, result.last)))
  /\ step = "answered" =>
       /\ answer.size <= Allowed
       /\ Bytes(text) <= Allowed <=> answer.form = "whole"
       /\ answer.form = "cut" => answer.chars < Len(text) /\ Cut(answer.chars + 1).size > Allowed
       /\ answer.form = "minimal" => Cut(0).size > Allowed
=============================================================================
