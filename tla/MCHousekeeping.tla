--------------------------- MODULE MCHousekeeping ---------------------------
(* Two tasks of one merge request, in runs of their own, and a review; two  *)
(* starts.  Messages around the size of a log file.  Archives at, below and *)
(* above every limit.  Repositories of up to three files of all sorts, and  *)
(* files whose characters and lines lie across the limits of a read.        *)
EXTENDS Housekeeping, SequencesExt

CONSTANT v
MCTasks == {<<"mr", "run1", "s">>, <<"mr", "run2", "s">>}
MCReviews == {v}

Entry(kind, name, blocks) == [kind |-> kind, name |-> name, blocks |-> blocks, long |-> FALSE]
MCEntries ==
  {Entry("file", name, blocks) : name \in {"a", "b"}, blocks \in {0, 1, 2, 3}}
    \cup {Entry("unsafe", "c", 1), Entry("directory", "d", 0), [Entry("file", "e", 1) EXCEPT !.long = TRUE]}
MCArchives ==
  {[bytes |-> 1, entries |-> list] : list \in SeqOf(MCEntries, 3)} \cup {[bytes |-> 2, entries |-> <<>>]}
MCFile(place, glob, large, hits) ==
  [place |-> place, glob |-> glob, large |-> large, hits |-> hits, lines |-> <<>>]
MCFiles ==
  {MCFile("kept", TRUE, FALSE, hits) : hits \in 0..3}
    \cup {MCFile("kept", TRUE, TRUE, 1), MCFile("kept", FALSE, FALSE, 1)}
    \cup {MCFile(place, TRUE, FALSE, 1) : place \in {"low", "hidden", "link"}}

Char(bytes, quoted) == [bytes |-> bytes, quoted |-> quoted, valid |-> TRUE]
Bad == [bytes |-> 1, quoted |-> 3, valid |-> FALSE]
MCText(lines) == [MCFile("kept", TRUE, FALSE, 0) EXCEPT !.lines = lines]
MCTexts == {MCText(lines) : lines \in SeqOf(SeqOf({Char(1, 1), Char(3, 3), Bad}, 2) \ {<<>>}, 3)}

Call(tool, tree, first, last, bytes) ==
  [tool |-> tool, tree |-> tree, first |-> first, last |-> last, bytes |-> bytes, left |-> bytes]
MCCalls ==
  {Call(tool, tree, 0, 0, 9) : tool \in {"list", "search"}, tree \in SeqOf(MCFiles, 3)}
    \cup {Call("read", <<f>>, 0, 0, bytes) : f \in MCTexts, bytes \in {0, 2, 9}}
    \cup {Call("range", <<f>>, first, last, 4) : f \in MCTexts, first \in 0..2, last \in 1..3}
    \cup {[Call("none", <<>>, 0, 0, bytes) EXCEPT !.left = left] : bytes \in {0, 3, 7}, left \in {0, 5, 8}}
MCResults == SeqOf({Char(1, 1), Char(1, 2), Char(3, 3)}, 6)

MCLimit == [bytes |-> 1, entries |-> 2, single |-> 2, total |-> 3]
=============================================================================
