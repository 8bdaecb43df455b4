---------------------------- MODULE MCBatchReview ----------------------------
(* Diffs of one hunk with every short sequence of lines; merge requests of  *)
(* several files of different shapes; and the ways GitLab lists them.       *)
EXTENDS BatchReview

Line(kind, bytes) == [kind |-> kind, bytes |-> bytes]
Hunk(old, new, heading, lines) ==
  [old |-> old, new |-> new, heading |-> heading, omitted |-> 0, lines |-> lines]
Shorter(h, n) == [h EXCEPT !.omitted = n]
File(path, hunks, text) ==
  [path |-> path, deleted |-> FALSE, headers |-> "read", hunks |-> hunks, text |-> text]

\* With a limit of 24 two short lines fit under a header, a long one never.
Lines == {Line(kind, bytes) : kind \in Kinds, bytes \in {4, 12}}
\* Numbers pass from one digit to two within the hunk.
OneHunk(n) == {File("p", <<Hunk(8, 9, 0, lines)>>, <<>>) : lines \in SeqOf(Lines, n) \ {<<>>}}

Version(list) == [files |-> list, listed |-> Len(list), count |-> "exact", collapsed |-> {}, large |-> {}]
Case(v, limit, most) ==
  [before |-> v, after |-> v, limit |-> limit, most |-> most, page |-> 2, named |-> TRUE]

Cuts == {Case(Version(<<f>>), 24, 0) : f \in OneHunk(4)} \cup {Case(Version(<<f>>), 24, 1) : f \in OneHunk(3)}

\* Headers that omit one count or both: within the limit only because of that,
\* or cut, where the pieces are charged for the counts.
ShortHunks == {Shorter(Hunk(8, 9, 0, lines), n) : n \in 1..2,
                 lines \in SeqOf({Line(kind, bytes) : kind \in Kinds, bytes \in {2, 7}}, 3)}
ShortFiles == {File("p", <<h>>, <<>>) : h \in {h \in ShortHunks : h.omitted <= Omissible(h.lines)}}
Omitting == {Case(Version(<<f>>), limit, most) : f \in ShortFiles, limit \in {19, 24}, most \in {0, 1}}

\* Small hunks; cut ones with a heading; text without hunks, with characters
\* of several bytes; a header that cannot be read; a deleted file; a rename.
p == File("p", <<Hunk(1, 1, 0, <<Line("context", 3), Line("added", 3)>>),
                 Hunk(7, 8, 0, <<Line("removed", 3), Line("added", 4)>>),
                 Hunk(98, 99, 0, <<Line("added", 3), Line("added", 40), Line("added", 3)>>)>>, <<>>)
q == File("q", <<Hunk(3, 3, 6, <<Line("removed", 4), Line("added", 4), Line("context", 4)>>)>>, <<5>>)
r == File("r", <<>>, <<9, 9, 9, 31, 3>>)
s == [File("s", <<>>, <<9, 9, 9>>) EXCEPT !.headers = "bad"]
t == [File("t", <<Hunk(1, 0, 0, <<Line("removed", 3), Line("removed", 4)>>)>>, <<>>) EXCEPT !.deleted = TRUE]
u == File("u", <<>>, <<>>)
\* The last line is not sent in two batches of 23, and not missed.
short == File("short", <<Shorter(Hunk(1, 1, 0, <<Line("removed", 6), Line("added", 7), Line("added", 2)>>), 1)>>, <<>>)

Shapes == {<<>>, <<p>>, <<q>>, <<r>>, <<s>>, <<u>>, <<p, q>>, <<q, p>>, <<short, t>>, <<r, t, q>>, <<t, s>>, <<s, u, p>>, <<p, q, r, t>>}
Mixes == {Case(Version(list), limit, most) : list \in Shapes, limit \in {23, 30, 60}, most \in {0, 1, 2}}

\* GitLab's lists: cut short, with and without an exact count, with files
\* that are not shown, changed by a push, on pages shorter than asked for.
Lists == {Version(<<t, p, u>>),
          [Version(<<p, q, t>>) EXCEPT !.listed = 2],
          [Version(<<p, q, t>>) EXCEPT !.listed = 2, !.count = "plus"],
          [Version(<<p, q>>) EXCEPT !.count = "none"],
          [Version(<<p, q, t>>) EXCEPT !.collapsed = {"p"}, !.large = {"t"}],
          Version(<<q, t>>), Version(<<t>>)}
Pages == {[before |-> v, after |-> w, limit |-> 200, most |-> 0, page |-> size, named |-> named] :
            v \in Lists, w \in Lists, size \in {1, 2}, named \in BOOLEAN}

MCCases == Cuts \cup Omitting \cup Mixes \cup Pages
=============================================================================
