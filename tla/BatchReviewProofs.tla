-------------------------- MODULE BatchReviewProofs --------------------------
(***************************************************************************)
(* Theorems about BatchReview, for any files, listings, page sizes and     *)
(* limits.  Three invariants, each inductive with those before it:         *)
(*                                                                         *)
(*   IInv      what is read so far (PagesFollow), and that a diff read to  *)
(*             its end without an overflow, nothing of it hidden, is the   *)
(*             merge request's (WholeIfSo);                                *)
(*   PlanInv   the batches are the first ones of the plan for the files    *)
(*             that were read (PlanFollows);                               *)
(*   CountInv  the counts and the list are of the batches that are to be   *)
(*             counted, until what was not shown is added (CountStands).   *)
(*                                                                         *)
(* The first part is about the plan: how folds that cut hunks, text and    *)
(* files keep the lines, their places, and what is charged for them        *)
(* (CutWell), and how pieces are put into batches (BatchesWhole).          *)
(***************************************************************************)
EXTENDS BatchReview, FoldFacts

-----------------------------------------------------------------------------
(* Sequences of which some elements are kept.                              *)

KeepStep(S, kept, x) == IF x \in S THEN Append(kept, x) ELSE kept
Filter == INSTANCE FoldFacts WITH Op <- KeepStep

Chosen(s, S) == Only(s, LAMBDA x : x \in S)

LEMMA ChosenIsFold ==
  ASSUME NEW s, NEW S
  PROVE  Chosen(s, S) = Filter!Result(S, <<>>, s)
<1> QED BY DEF Chosen, Only, FoldLeft, MapThenFoldSet, Filter!Result, KeepStep, Filter!Max, Max

\* Another filter is the same choice if its tests agree on the elements: then
\* both are the fold that takes this step.
Keeping(S, s, it) ==
  [t \in SUBSET DOMAIN s |-> IF t = {} THEN <<>> ELSE KeepStep(S, it[t \ {Max(t)}], s[Max(t)])]

LEMMA ChosenIs ==
  ASSUME NEW s, NEW S
  PROVE  Chosen(s, S) = (CHOOSE it : it = Keeping(S, s, it))[DOMAIN s]
  BY DEF Chosen, Only, FoldLeft, MapThenFoldSet, Keeping, KeepStep, Max

LEMMA ChosenEmpty ==
  ASSUME NEW S
  PROVE  Chosen(<<>>, S) = <<>>
<1> QED BY ChosenIsFold, Filter!FoldEmpty

LEMMA ChosenAppend ==
  ASSUME NEW U, NEW s \in Seq(U), NEW x \in U, NEW S
  PROVE  Chosen(Append(s, x), S) = IF x \in S THEN Append(Chosen(s, S), x) ELSE Chosen(s, S)
<1>1. Filter!Result(S, <<>>, Append(s, x)) = KeepStep(S, Filter!Result(S, <<>>, s), x)
  BY Filter!FoldAppend
<1> QED BY <1>1, ChosenIsFold DEF KeepStep

LEMMA ChosenType ==
  ASSUME NEW U, NEW S
  PROVE  \A s \in Seq(U) : Chosen(s, S) \in Seq(U \cap S)
<1> DEFINE G == {s \in Seq(U) : Chosen(s, S) \in Seq(U \cap S)}
<1>1. <<>> \in G
  BY EmptySeq, ChosenEmpty
<1>2. ASSUME NEW s \in Seq(U), NEW x \in U, s \in G PROVE Append(s, x) \in G
  <2>1. Append(s, x) \in Seq(U)
    BY AppendProperties
  <2>2. Chosen(s, S) \in Seq(U \cap S)
    BY <1>2
  <2>3. x \in S => Append(Chosen(s, S), x) \in Seq(U \cap S)
    BY <2>2, AppendProperties
  <2>4. Chosen(Append(s, x), S) \in Seq(U \cap S)
    BY <2>2, <2>3, ChosenAppend
  <2> QED BY <2>1, <2>4
<1> HIDE DEF G
<1>3. Seq(U) \subseteq G
  BY <1>1, <1>2, SeqInduction
<1> QED BY <1>3 DEF G

\* One more at the end of what is put behind.
LEMMA AppendBehind ==
  ASSUME NEW U, NEW s \in Seq(U), NEW t \in Seq(U), NEW x \in U
  PROVE  s \o Append(t, x) = Append(s \o t, x)
<1>1. /\ <<x>> \in Seq(U) /\ Append(t, x) = t \o <<x>> /\ s \o t \in Seq(U)
  BY AppendIsConcat, ConcatProperties
<1> QED BY <1>1, AppendIsConcat, ConcatAssociative

LEMMA ChosenConcat ==
  ASSUME NEW U, NEW s \in Seq(U), NEW S
  PROVE  \A t \in Seq(U) : Chosen(s \o t, S) = Chosen(s, S) \o Chosen(t, S)
<1> DEFINE G == {t \in Seq(U) : Chosen(s \o t, S) = Chosen(s, S) \o Chosen(t, S)}
<1>0. Chosen(s, S) \in Seq(U \cap S)
  BY ChosenType
<1>1. <<>> \in G
  BY <1>0, EmptySeq, ChosenEmpty, ConcatEmptySeq
<1>2. ASSUME NEW t \in Seq(U), NEW x \in U, t \in G PROVE Append(t, x) \in G
  <2>1. Append(t, x) \in Seq(U) /\ s \o t \in Seq(U) /\ s \o Append(t, x) = Append(s \o t, x)
    BY AppendProperties, ConcatProperties, AppendBehind
  <2>2. Chosen(s \o t, S) = Chosen(s, S) \o Chosen(t, S)
    BY <1>2
  <2>3. Chosen(Append(s \o t, x), S) = IF x \in S THEN Append(Chosen(s \o t, S), x) ELSE Chosen(s \o t, S)
    BY <2>1, ChosenAppend
  <2>4. Chosen(Append(t, x), S) = IF x \in S THEN Append(Chosen(t, S), x) ELSE Chosen(t, S)
    BY ChosenAppend
  <2>5. Chosen(t, S) \in Seq(U \cap S)
    BY ChosenType
  <2>6. x \in S => Chosen(s, S) \o Append(Chosen(t, S), x) = Append(Chosen(s, S) \o Chosen(t, S), x)
    BY <1>0, <2>5, AppendBehind
  <2>7. Chosen(s \o Append(t, x), S) = Chosen(s, S) \o Chosen(Append(t, x), S)
    BY <2>1, <2>2, <2>3, <2>4, <2>6
  <2> QED BY <2>1, <2>7
<1> HIDE DEF G
<1>3. Seq(U) \subseteq G
  BY <1>1, <1>2, SeqInduction
<1> QED BY <1>3 DEF G

\* Only the elements count.
LEMMA ChosenSame ==
  ASSUME NEW U, NEW S, NEW T, \A x \in U : x \in S <=> x \in T
  PROVE  \A s \in Seq(U) : Chosen(s, S) = Chosen(s, T)
<1> DEFINE G == {s \in Seq(U) : Chosen(s, S) = Chosen(s, T)}
<1>1. <<>> \in G
  BY EmptySeq, ChosenEmpty
<1>2. ASSUME NEW s \in Seq(U), NEW x \in U, s \in G PROVE Append(s, x) \in G
  <2>1. Chosen(Append(s, x), S) = IF x \in S THEN Append(Chosen(s, S), x) ELSE Chosen(s, S)
    BY ChosenAppend
  <2>2. Chosen(Append(s, x), T) = IF x \in T THEN Append(Chosen(s, T), x) ELSE Chosen(s, T)
    BY ChosenAppend
  <2> QED BY <1>2, <2>1, <2>2, AppendProperties
<1> HIDE DEF G
<1>3. Seq(U) \subseteq G
  BY <1>1, <1>2, SeqInduction
<1> QED BY <1>3 DEF G

LEMMA ChosenAll ==
  ASSUME NEW U
  PROVE  \A s \in Seq(U) : Chosen(s, U) = s /\ Chosen(s, {}) = <<>>
<1> DEFINE G == {s \in Seq(U) : Chosen(s, U) = s /\ Chosen(s, {}) = <<>>}
<1>1. <<>> \in G
  BY EmptySeq, ChosenEmpty
<1>2. ASSUME NEW s \in Seq(U), NEW x \in U, s \in G PROVE Append(s, x) \in G
  <2>1. Chosen(Append(s, x), U) = Append(Chosen(s, U), x) /\ Chosen(Append(s, x), {}) = Chosen(s, {})
    BY ChosenAppend
  <2> QED BY <1>2, <2>1, AppendProperties
<1> HIDE DEF G
<1>3. Seq(U) \subseteq G
  BY <1>1, <1>2, SeqInduction
<1> QED BY <1>3 DEF G

LEMMA ChosenTwice ==
  ASSUME NEW U, NEW S, NEW T
  PROVE  \A s \in Seq(U) : Chosen(Chosen(s, S), T) = Chosen(s, S \cap T)
<1> DEFINE G == {s \in Seq(U) : Chosen(Chosen(s, S), T) = Chosen(s, S \cap T)}
<1>1. <<>> \in G
  BY EmptySeq, ChosenEmpty
<1>2. ASSUME NEW s \in Seq(U), NEW x \in U, s \in G PROVE Append(s, x) \in G
  <2>1. Chosen(Append(s, x), S) = IF x \in S THEN Append(Chosen(s, S), x) ELSE Chosen(s, S)
    BY ChosenAppend
  <2>2. Chosen(Append(s, x), S \cap T) = IF x \in S \cap T THEN Append(Chosen(s, S \cap T), x) ELSE Chosen(s, S \cap T)
    BY ChosenAppend
  <2>3. Chosen(s, S) \in Seq(U)
    <3>1. Chosen(s, S) \in Seq(U \cap S) /\ U \cap S \subseteq U
      BY ChosenType
    <3> QED BY <3>1, SeqMonotonic
  <2>4. Chosen(Append(Chosen(s, S), x), T) = IF x \in T THEN Append(Chosen(Chosen(s, S), T), x) ELSE Chosen(Chosen(s, S), T)
    BY <2>3, ChosenAppend
  <2>5. Chosen(Chosen(s, S), T) = Chosen(s, S \cap T)
    BY <1>2
  <2>6. Chosen(Chosen(Append(s, x), S), T) = Chosen(Append(s, x), S \cap T)
    <3>1. CASE x \in S /\ x \in T
      BY <2>1, <2>2, <2>4, <2>5, <3>1
    <3>2. CASE x \in S /\ x \notin T
      BY <2>1, <2>2, <2>4, <2>5, <3>2
    <3>3. CASE x \notin S
      BY <2>1, <2>2, <2>5, <3>3
    <3> QED BY <3>1, <3>2, <3>3
  <2> QED BY <2>6, AppendProperties
<1> HIDE DEF G
<1>3. Seq(U) \subseteq G
  BY <1>1, <1>2, SeqInduction
<1> QED BY <1>3 DEF G

LEMMA FlattenConcat ==
  ASSUME NEW U, NEW s \in Seq(Seq(U))
  PROVE  \A t \in Seq(Seq(U)) : FlattenSeq(s \o t) = FlattenSeq(s) \o FlattenSeq(t)
<1> DEFINE G == {t \in Seq(Seq(U)) : FlattenSeq(s \o t) = FlattenSeq(s) \o FlattenSeq(t)}
<1>0. FlattenSeq(s) \in Seq(U)
  BY FlattenType
<1>1. <<>> \in G
  BY <1>0, EmptySeq, FlattenEmpty, ConcatEmptySeq
<1>2. ASSUME NEW t \in Seq(Seq(U)), NEW x \in Seq(U), t \in G PROVE Append(t, x) \in G
  <2>1. Append(t, x) \in Seq(Seq(U)) /\ s \o t \in Seq(Seq(U)) /\ s \o Append(t, x) = Append(s \o t, x)
    BY AppendProperties, ConcatProperties, AppendBehind
  <2>2. FlattenSeq(Append(s \o t, x)) = FlattenSeq(s \o t) \o x
    BY <2>1, FlattenAppend
  <2>3. FlattenSeq(Append(t, x)) = FlattenSeq(t) \o x /\ FlattenSeq(t) \in Seq(U)
    BY FlattenAppend, FlattenType
  <2>4. (FlattenSeq(s) \o FlattenSeq(t)) \o x = FlattenSeq(s) \o (FlattenSeq(t) \o x)
    BY <1>0, <2>3, ConcatAssociative
  <2>5. FlattenSeq(s \o t) = FlattenSeq(s) \o FlattenSeq(t)
    BY <1>2
  <2>6. FlattenSeq(s \o Append(t, x)) = FlattenSeq(s) \o FlattenSeq(Append(t, x))
    BY <2>1, <2>2, <2>3, <2>4, <2>5
  <2> QED BY <2>1, <2>6
<1> HIDE DEF G
<1>3. Seq(Seq(U)) \subseteq G
  BY <1>1, <1>2, SeqInduction
<1> QED BY <1>3 DEF G

LEMMA PrefixOfConcat ==
  ASSUME NEW U, NEW s \in Seq(U), NEW t \in Seq(U)
  PROVE  IsPrefix(s, s \o t)
<1>1. /\ s \o t \in Seq(U) /\ Len(s \o t) = Len(s) + Len(t) /\ Len(s) \in Nat /\ Len(t) \in Nat
      /\ \A i \in 1..Len(s) : (s \o t)[i] = s[i] /\ s[i] \in U
  BY ConcatProperties, LenProperties
<1>2. SubSeq(s, 1, Len(s)) = s
  BY SubSeqFull
<1>3. /\ SubSeq(s \o t, 1, Len(s)) \in Seq(U) /\ Len(SubSeq(s \o t, 1, Len(s))) = Len(s)
      /\ \A i \in 1..Len(s) : SubSeq(s \o t, 1, Len(s))[i] = s[i]
  BY <1>1, SubSeqProperties
<1>4. SubSeq(s \o t, 1, Len(s)) = s
  BY <1>3, SeqEqual
<1> QED BY <1>1, <1>2, <1>4 DEF IsPrefix

-----------------------------------------------------------------------------
(* Lines.                                                                  *)

PlacedLine == [kind : Kinds, bytes : Nat \ {0, 1}, old : Nat, new : Nat]
Placed(l, old, new) == [kind |-> l.kind, bytes |-> l.bytes, old |-> old, new |-> new]
NumberedFrom(old, new, lines) ==
  [i \in DOMAIN lines |-> Placed(lines[i], old + OldLines(SubSeq(lines, 1, i - 1)),
                                          new + NewLines(SubSeq(lines, 1, i - 1)))]

CountIn(s, S) == Cardinality({i \in DOMAIN s : s[i] \in S})

LEMMA CountAppend ==
  ASSUME NEW U, NEW s \in Seq(U), NEW x \in U, NEW S
  PROVE  /\ CountIn(s, S) \in Nat
         /\ CountIn(Append(s, x), S) = CountIn(s, S) + (IF x \in S THEN 1 ELSE 0)
<1> DEFINE n == Len(s)
           r == Append(s, x)
           I == {i \in DOMAIN s : s[i] \in S}
           J == {i \in DOMAIN r : r[i] \in S}
<1>1. /\ n \in Nat /\ DOMAIN s = 1..n /\ DOMAIN r = 1..(n + 1)
      /\ \A i \in 1..n : r[i] = s[i]
      /\ r[n + 1] = x
  BY LenProperties, AppendProperties
<1> HIDE DEF n, r
<1>2. IsFiniteSet(I)
  <2>1. IsFiniteSet(1..n) /\ I \subseteq 1..n
    BY <1>1, FS_Interval
  <2> QED BY <2>1, FS_Subset
<1>3. J = IF x \in S THEN I \cup {n + 1} ELSE I
  BY <1>1
<1>4. n + 1 \notin I
  BY <1>1
<1> HIDE DEF I, J
<1>5. Cardinality(I) \in Nat /\ Cardinality(I \cup {n + 1}) = Cardinality(I) + 1
  BY <1>2, <1>4, FS_AddElement, FS_CardinalityType
<1>6. Cardinality(J) = Cardinality(I) + (IF x \in S THEN 1 ELSE 0)
  <2>1. CASE x \in S
    BY <1>3, <1>5, <2>1
  <2>2. CASE x \notin S
    BY <1>3, <1>5, <2>2
  <2> QED BY <2>1, <2>2
<1> QED BY <1>5, <1>6 DEF I, J, r, CountIn

LEMMA CountNone == OldLines(<<>>) = 0 /\ NewLines(<<>>) = 0 /\ Bytes(<<>>) = 0
<1>1. /\ {i \in DOMAIN <<>> : <<>>[i].kind /= "added"} = {}
      /\ {i \in DOMAIN <<>> : <<>>[i].kind /= "removed"} = {}
      /\ [i \in DOMAIN <<>> |-> <<>>[i].bytes] = <<>>
  OBVIOUS
<1> QED BY <1>1, FS_EmptySet, SumNone DEF OldLines, NewLines, Bytes

LEMMA OldNewAppend ==
  ASSUME NEW s \in Seq(AnyLine), NEW l \in AnyLine
  PROVE  /\ OldLines(s) \in Nat /\ OldLines(Append(s, l)) = OldLines(s) + (IF l.kind # "added" THEN 1 ELSE 0)
         /\ NewLines(s) \in Nat /\ NewLines(Append(s, l)) = NewLines(s) + (IF l.kind # "removed" THEN 1 ELSE 0)
<1> DEFINE O == {x \in AnyLine : x.kind # "added"}
           N == {x \in AnyLine : x.kind # "removed"}
<1>1. \A t \in Seq(AnyLine) : /\ {i \in DOMAIN t : t[i].kind /= "added"} = {i \in DOMAIN t : t[i] \in O}
                              /\ {i \in DOMAIN t : t[i].kind /= "removed"} = {i \in DOMAIN t : t[i] \in N}
  BY LenProperties, ElementOfSeq
<1>2. Append(s, l) \in Seq(AnyLine) /\ (l \in O <=> l.kind # "added") /\ (l \in N <=> l.kind # "removed")
  BY AppendProperties
<1> HIDE DEF O, N
<1>3. /\ OldLines(s) = CountIn(s, O) /\ NewLines(s) = CountIn(s, N)
      /\ OldLines(Append(s, l)) = CountIn(Append(s, l), O) /\ NewLines(Append(s, l)) = CountIn(Append(s, l), N)
  BY <1>1, <1>2 DEF OldLines, NewLines, CountIn
<1>4. ASSUME NEW S
      PROVE  CountIn(s, S) \in Nat /\ CountIn(Append(s, l), S) = CountIn(s, S) + (IF l \in S THEN 1 ELSE 0)
  BY CountAppend
<1> QED BY <1>2, <1>3, <1>4

\* What is made of each element, with one more.
LEMMA BytesAppend ==
  ASSUME NEW s \in Seq(AnyLine), NEW l \in AnyLine
  PROVE  Bytes(s) \in Int /\ Bytes(Append(s, l)) = Bytes(s) + l.bytes
<1> DEFINE b == [i \in DOMAIN s |-> s[i].bytes]
           r == Append(s, l)
<1>1. /\ Len(s) \in Nat /\ DOMAIN s = 1..Len(s) /\ DOMAIN r = 1..(Len(s) + 1)
      /\ \A i \in 1..Len(s) : r[i] = s[i] /\ s[i] \in AnyLine
      /\ r[Len(s) + 1] = l
  BY LenProperties, AppendProperties, ElementOfSeq
<1>2. b \in [1..Len(s) -> Int] /\ l.bytes \in Int
  BY <1>1 DEF AnyLine
<1>3. b \in Seq(Int) /\ Len(b) = Len(s)
  BY <1>1, <1>2, SeqDef, LenProperties
<1>4. [i \in DOMAIN r |-> r[i].bytes] = Append(b, l.bytes)
  <2>1. /\ Append(b, l.bytes) \in Seq(Int) /\ Len(Append(b, l.bytes)) = Len(s) + 1
        /\ \A i \in 1..Len(s) : Append(b, l.bytes)[i] = s[i].bytes
        /\ Append(b, l.bytes)[Len(s) + 1] = l.bytes
    BY <1>1, <1>2, <1>3, AppendProperties
  <2>2. DOMAIN Append(b, l.bytes) = 1..(Len(s) + 1) /\ Append(b, l.bytes) = [i \in 1..(Len(s) + 1) |-> Append(b, l.bytes)[i]]
    BY <2>1, LenProperties
  <2> HIDE DEF b, r
  <2>3. \A i \in 1..(Len(s) + 1) : Append(b, l.bytes)[i] = r[i].bytes
    BY <1>1, <2>1
  <2> QED BY <1>1, <2>2, <2>3
<1> HIDE DEF b
<1>5. SumFunction(Append(b, l.bytes)) = SumFunction(b) + l.bytes /\ SumFunction(b) \in Int
  BY <1>2, <1>3, SumAppend
<1> QED BY <1>4, <1>5 DEF Bytes, b, r

-----------------------------------------------------------------------------
(* Something made of each element.                                         *)

Maps(F, U, V) == F \in [U -> V]
Map(F, s) == [i \in DOMAIN s |-> F[s[i]]]
Total(F, s) == SumFunction(Map(F, s))
FlatMap(F, s) == FlattenSeq(Map(F, s))

LEMMA FValue == ASSUME NEW F, NEW U, NEW V, Maps(F, U, V), NEW x \in U PROVE F[x] \in V
  BY DEF Maps

LEMMA MapEmpty == ASSUME NEW F PROVE Map(F, <<>>) = <<>> /\ Total(F, <<>>) = 0 /\ FlatMap(F, <<>>) = <<>>
<1>1. Map(F, <<>>) = <<>>
  BY DEF Map
<1> QED BY <1>1, SumNone, FlattenEmpty DEF Total, FlatMap

LEMMA MapAppend ==
  ASSUME NEW U, NEW V, NEW F, Maps(F, U, V), NEW s \in Seq(U), NEW x \in U
  PROVE  Map(F, s) \in Seq(V) /\ Map(F, Append(s, x)) = Append(Map(F, s), F[x])
<1> DEFINE r == Append(s, x)
           n == Len(s)
           m == Map(F, s)
<1>1. /\ n \in Nat /\ DOMAIN s = 1..n /\ DOMAIN r = 1..(n + 1)
      /\ \A i \in 1..n : r[i] = s[i] /\ s[i] \in U
      /\ r[n + 1] = x
  BY LenProperties, AppendProperties, ElementOfSeq
<1>2. m \in [1..n -> V] /\ \A i \in 1..n : m[i] = F[s[i]]
  BY <1>1 DEF Map, Maps
<1>3. m \in Seq(V) /\ Len(m) = n
  <2> HIDE DEF m, n
  <2>1. n \in Nat
    BY <1>1
  <2>2. m \in Seq(V)
    BY <1>2, <2>1, SeqDef
  <2>3. Len(m) \in Nat /\ DOMAIN m = 1..Len(m)
    BY <2>2, LenProperties
  <2> QED BY <1>2, <2>1, <2>2, <2>3
<1>4. /\ Append(m, F[x]) \in Seq(V) /\ Len(Append(m, F[x])) = n + 1
      /\ \A i \in 1..n : Append(m, F[x])[i] = m[i]
      /\ Append(m, F[x])[n + 1] = F[x]
  <2> HIDE DEF m, n
  <2>1. F[x] \in V
    BY DEF Maps
  <2> QED BY <1>3, <2>1, AppendProperties
<1>5. /\ DOMAIN Append(m, F[x]) = 1..(n + 1)
      /\ Append(m, F[x]) = [i \in 1..(n + 1) |-> Append(m, F[x])[i]]
  <2> HIDE DEF m, n
  <2> QED BY <1>4, LenProperties
<1>6. \A i \in 1..(n + 1) : Append(m, F[x])[i] = F[r[i]]
  <2> HIDE DEF m, n, r
  <2> QED BY <1>1, <1>2, <1>4
<1>7. Map(F, r) = Append(m, F[x])
  <2> HIDE DEF m, n, r
  <2> QED BY <1>1, <1>5, <1>6 DEF Map
<1> HIDE DEF n
<1> QED BY <1>3, <1>7

LEMMA TotalAppend ==
  ASSUME NEW U, NEW F, Maps(F, U, Int), NEW s \in Seq(U), NEW x \in U
  PROVE  Total(F, s) \in Int /\ Total(F, Append(s, x)) = Total(F, s) + F[x]
<1>0. F[x] \in Int
  BY DEF Maps
<1>1. Map(F, s) \in Seq(Int) /\ Map(F, Append(s, x)) = Append(Map(F, s), F[x])
  BY MapAppend
<1> QED BY <1>0, <1>1, SumAppend DEF Total

LEMMA FlatMapAppend ==
  ASSUME NEW U, NEW V, NEW F, Maps(F, U, Seq(V)), NEW s \in Seq(U), NEW x \in U
  PROVE  FlatMap(F, s) \in Seq(V) /\ FlatMap(F, Append(s, x)) = FlatMap(F, s) \o F[x]
<1>0. F[x] \in Seq(V)
  BY DEF Maps
<1>1. Map(F, s) \in Seq(Seq(V)) /\ Map(F, Append(s, x)) = Append(Map(F, s), F[x])
  BY MapAppend
<1> QED BY <1>0, <1>1, FlattenAppend, FlattenType DEF FlatMap

LEMMA TotalType ==
  ASSUME NEW U, NEW F, Maps(F, U, Nat)
  PROVE  \A s \in Seq(U) : Total(F, s) \in Nat
<1> DEFINE G == {s \in Seq(U) : Total(F, s) \in Nat}
<1>1. <<>> \in G
  BY EmptySeq, MapEmpty
<1>2. ASSUME NEW s \in Seq(U), NEW x \in U, s \in G PROVE Append(s, x) \in G
  <2>0. Maps(F, U, Int) /\ F[x] \in Nat
    BY DEF Maps
  <2>1. Total(F, Append(s, x)) = Total(F, s) + F[x]
    BY <2>0, TotalAppend
  <2> QED BY <1>2, <2>0, <2>1, AppendProperties
<1> HIDE DEF G
<1>3. Seq(U) \subseteq G
  BY <1>1, <1>2, SeqInduction
<1> QED BY <1>3 DEF G

LEMMA TotalConcat ==
  ASSUME NEW U, NEW F, Maps(F, U, Int), NEW s \in Seq(U)
  PROVE  \A t \in Seq(U) : /\ Total(F, s \o t) = Total(F, s) + Total(F, t)
                           /\ Total(F, s) \in Int /\ Total(F, t) \in Int
<1> DEFINE G == {t \in Seq(U) : /\ Total(F, s \o t) = Total(F, s) + Total(F, t)
                                /\ Total(F, s) \in Int /\ Total(F, t) \in Int}
<1>1. <<>> \in G
  <2>1. Total(F, s) \in Int
    <3>1. CASE s = <<>>
      BY <3>1, MapEmpty
    <3>2. CASE s # <<>>
      <4>1. PICK r \in Seq(U), x \in U : s = Append(r, x)
        BY <3>2, SequenceEmptyOrAppend
      <4>2. Total(F, r) \in Int /\ Total(F, Append(r, x)) = Total(F, r) + F[x] /\ F[x] \in Int
        BY TotalAppend, FValue
      <4> QED BY <4>1, <4>2
    <3> QED BY <3>1, <3>2
  <2> QED BY <2>1, EmptySeq, MapEmpty, ConcatEmptySeq
<1>2. ASSUME NEW t \in Seq(U), NEW x \in U, t \in G PROVE Append(t, x) \in G
  <2>1. Append(t, x) \in Seq(U) /\ s \o t \in Seq(U) /\ s \o Append(t, x) = Append(s \o t, x)
    BY AppendProperties, ConcatProperties, AppendBehind
  <2>2. Total(F, Append(s \o t, x)) = Total(F, s \o t) + F[x]
    BY <2>1, TotalAppend
  <2>3. Total(F, Append(t, x)) = Total(F, t) + F[x] /\ F[x] \in Int
    BY TotalAppend, FValue
  <2>4. Total(F, s \o t) = Total(F, s) + Total(F, t) /\ Total(F, s) \in Int /\ Total(F, t) \in Int
    BY <1>2
  <2>5. Total(F, s \o Append(t, x)) = Total(F, s) + Total(F, Append(t, x)) /\ Total(F, Append(t, x)) \in Int
    BY <2>1, <2>2, <2>3, <2>4
  <2> QED BY <2>1, <2>4, <2>5
<1> HIDE DEF G
<1>3. Seq(U) \subseteq G
  BY <1>1, <1>2, SeqInduction
<1> QED BY <1>3 DEF G

LEMMA FlatMapConcat ==
  ASSUME NEW U, NEW V, NEW F, Maps(F, U, Seq(V)), NEW s \in Seq(U)
  PROVE  \A t \in Seq(U) : /\ FlatMap(F, s \o t) = FlatMap(F, s) \o FlatMap(F, t)
                           /\ FlatMap(F, s) \in Seq(V) /\ FlatMap(F, t) \in Seq(V)
<1> DEFINE G == {t \in Seq(U) : /\ FlatMap(F, s \o t) = FlatMap(F, s) \o FlatMap(F, t)
                                /\ FlatMap(F, s) \in Seq(V) /\ FlatMap(F, t) \in Seq(V)}
<1>1. <<>> \in G
  <2>1. FlatMap(F, s) \in Seq(V)
    <3>1. CASE s = <<>>
      BY <3>1, MapEmpty, EmptySeq
    <3>2. CASE s # <<>>
      <4>1. PICK r \in Seq(U), x \in U : s = Append(r, x)
        BY <3>2, SequenceEmptyOrAppend
      <4>2. FlatMap(F, r) \in Seq(V) /\ FlatMap(F, Append(r, x)) = FlatMap(F, r) \o F[x] /\ F[x] \in Seq(V)
        BY FlatMapAppend, FValue
      <4> QED BY <4>1, <4>2, ConcatProperties
    <3> QED BY <3>1, <3>2
  <2> QED BY <2>1, EmptySeq, MapEmpty, ConcatEmptySeq
<1>2. ASSUME NEW t \in Seq(U), NEW x \in U, t \in G PROVE Append(t, x) \in G
  <2>1. Append(t, x) \in Seq(U) /\ s \o t \in Seq(U) /\ s \o Append(t, x) = Append(s \o t, x)
    BY AppendProperties, ConcatProperties, AppendBehind
  <2>0. s \o t \in Seq(U)
    BY <2>1
  <2>2. FlatMap(F, Append(s \o t, x)) = FlatMap(F, s \o t) \o F[x]
    <3> DEFINE w == s \o t
    <3>1. w \in Seq(U)
      BY <2>0
    <3> HIDE DEF w, G
    <3>2. FlatMap(F, Append(w, x)) = FlatMap(F, w) \o F[x]
      BY <3>1, FlatMapAppend
    <3> QED BY <3>2 DEF w
  <2>3. FlatMap(F, Append(t, x)) = FlatMap(F, t) \o F[x] /\ F[x] \in Seq(V)
    BY FlatMapAppend, FValue
  <2>4. FlatMap(F, s \o t) = FlatMap(F, s) \o FlatMap(F, t) /\ FlatMap(F, s) \in Seq(V) /\ FlatMap(F, t) \in Seq(V)
    BY <1>2
  <2>5. (FlatMap(F, s) \o FlatMap(F, t)) \o F[x] = FlatMap(F, s) \o (FlatMap(F, t) \o F[x])
    <3>1. FlatMap(F, s) \in Seq(V) /\ FlatMap(F, t) \in Seq(V) /\ F[x] \in Seq(V)
      BY <2>3, <2>4
    <3> DEFINE a == FlatMap(F, s)
               b == FlatMap(F, t)
               d == F[x]
    <3>2. a \in Seq(V) /\ b \in Seq(V) /\ d \in Seq(V)
      BY <3>1
    <3> HIDE DEF a, b, d
    <3>3. (a \o b) \o d = a \o (b \o d)
      BY <3>2, ConcatAssociative
    <3> QED BY <3>3 DEF a, b, d
  <2>6. FlatMap(F, s \o Append(t, x)) = FlatMap(F, s) \o FlatMap(F, Append(t, x)) /\ FlatMap(F, Append(t, x)) \in Seq(V)
    BY <2>1, <2>2, <2>3, <2>4, <2>5, ConcatProperties
  <2> QED BY <2>1, <2>4, <2>6
<1> HIDE DEF G
<1>3. Seq(U) \subseteq G
  BY <1>1, <1>2, SeqInduction
<1> QED BY <1>3 DEF G

LEMMA NumAppend ==
  ASSUME NEW s \in Seq(AnyLine), NEW l \in AnyLine, NEW old \in Nat, NEW new \in Nat
  PROVE  /\ NumberedFrom(old, new, s) \in Seq(PlacedLine)
         /\ Placed(l, old + OldLines(s), new + NewLines(s)) \in PlacedLine
         /\ NumberedFrom(old, new, Append(s, l))
              = Append(NumberedFrom(old, new, s), Placed(l, old + OldLines(s), new + NewLines(s)))
<1> DEFINE r == Append(s, l)
           n == Len(s)
           m == NumberedFrom(old, new, s)
           p == Placed(l, old + OldLines(s), new + NewLines(s))
<1>1. /\ n \in Nat /\ DOMAIN s = 1..n /\ r \in Seq(AnyLine) /\ DOMAIN r = 1..(n + 1) /\ Len(r) = n + 1
      /\ \A i \in 1..n : r[i] = s[i] /\ s[i] \in AnyLine
      /\ r[n + 1] = l
  BY LenProperties, AppendProperties, ElementOfSeq
<1>2. \A i \in 1..n + 1 : SubSeq(r, 1, i - 1) = SubSeq(s, 1, i - 1) /\ SubSeq(s, 1, i - 1) \in Seq(AnyLine)
  <2> SUFFICES ASSUME NEW i \in 1..n + 1
               PROVE  SubSeq(r, 1, i - 1) = SubSeq(s, 1, i - 1) /\ SubSeq(s, 1, i - 1) \in Seq(AnyLine)
    OBVIOUS
  <2> DEFINE k == i - 1
  <2>1. k \in Nat /\ k <= n /\ \A j \in 1..k : j \in 1..n /\ j \in 1..(n + 1)
    BY <1>1
  <2> HIDE DEF k, n, r
  <2>2. \A j \in 1..k : s[j] \in AnyLine /\ r[j] \in AnyLine /\ r[j] = s[j]
    BY <1>1, <2>1
  <2>3. /\ SubSeq(s, 1, k) \in Seq(AnyLine) /\ Len(SubSeq(s, 1, k)) = k
        /\ \A j \in 1..k : SubSeq(s, 1, k)[j] = s[j]
    BY <1>1, <2>1, <2>2, SubSeqProperties DEF n
  <2>4. /\ SubSeq(r, 1, k) \in Seq(AnyLine) /\ Len(SubSeq(r, 1, k)) = k
        /\ \A j \in 1..k : SubSeq(r, 1, k)[j] = r[j]
    BY <1>1, <2>1, <2>2, SubSeqProperties
  <2>5. SubSeq(r, 1, k) = SubSeq(s, 1, k)
    BY <2>2, <2>3, <2>4, SeqEqual
  <2> QED BY <2>3, <2>5 DEF k
<1>3. SubSeq(s, 1, n) = s
  BY SubSeqFull
<1>4. \A t \in Seq(AnyLine), x \in AnyLine : Placed(x, old + OldLines(t), new + NewLines(t)) \in PlacedLine
  <2>1. \A t \in Seq(AnyLine) : OldLines(t) \in Nat /\ NewLines(t) \in Nat
    BY OldNewAppend
  <2>2. \A t \in Seq(AnyLine) : old + OldLines(t) \in Nat /\ new + NewLines(t) \in Nat
    BY <2>1
  <2>3. \A x \in AnyLine : x.kind \in Kinds /\ x.bytes \in Nat \ {0, 1}
    BY DEF AnyLine
  <2> QED BY <2>2, <2>3 DEF Placed, PlacedLine
<1>5. /\ m \in [1..n -> PlacedLine]
      /\ \A i \in 1..n : m[i] = Placed(s[i], old + OldLines(SubSeq(s, 1, i - 1)), new + NewLines(SubSeq(s, 1, i - 1)))
  <2>1. \A i \in 1..n : i \in 1..n + 1
    BY <1>1
  <2>2. \A i \in 1..n : Placed(s[i], old + OldLines(SubSeq(s, 1, i - 1)), new + NewLines(SubSeq(s, 1, i - 1))) \in PlacedLine
    BY <1>1, <1>2, <1>4, <2>1
  <2> HIDE DEF n
  <2> QED BY <1>1, <2>2 DEF NumberedFrom
<1>6. m \in Seq(PlacedLine) /\ Len(m) = n
  <2> HIDE DEF m, n
  <2>1. n \in Nat
    BY <1>1
  <2>2. m \in Seq(PlacedLine)
    BY <1>5, <2>1, SeqDef
  <2>3. Len(m) \in Nat /\ DOMAIN m = 1..Len(m)
    BY <2>2, LenProperties
  <2> QED BY <1>5, <2>1, <2>2, <2>3
<1>7. p \in PlacedLine
  BY <1>4
<1>8. /\ Append(m, p) \in Seq(PlacedLine) /\ Len(Append(m, p)) = n + 1
      /\ \A i \in 1..n : Append(m, p)[i] = m[i]
      /\ Append(m, p)[n + 1] = p
  <2> HIDE DEF m, n, p
  <2> QED BY <1>6, <1>7, AppendProperties
<1>9. /\ DOMAIN Append(m, p) = 1..(n + 1)
      /\ Append(m, p) = [i \in 1..(n + 1) |-> Append(m, p)[i]]
  <2> HIDE DEF m, n, p
  <2> QED BY <1>8, LenProperties
<1>10. \A i \in 1..(n + 1) :
         Append(m, p)[i] = Placed(r[i], old + OldLines(SubSeq(r, 1, i - 1)), new + NewLines(SubSeq(r, 1, i - 1)))
  <2> SUFFICES ASSUME NEW i \in 1..(n + 1)
               PROVE  Append(m, p)[i] = Placed(r[i], old + OldLines(SubSeq(r, 1, i - 1)), new + NewLines(SubSeq(r, 1, i - 1)))
    OBVIOUS
  <2>1. SubSeq(r, 1, i - 1) = SubSeq(s, 1, i - 1)
    BY <1>2
  <2>2. CASE i \in 1..n
    <3> HIDE DEF m, n, r, p
    <3> QED BY <1>1, <1>5, <1>8, <2>1, <2>2
  <2>3. CASE i = n + 1
    <3>1. i - 1 = n
      BY <1>1, <2>3
    <3>2. SubSeq(r, 1, i - 1) = s
      BY <1>3, <2>1, <3>1
    <3> QED BY <1>1, <1>8, <2>3, <3>2
  <2>4. i \in 1..n \/ i = n + 1
    <3> HIDE DEF n
    <3> QED BY <1>1
  <2> QED BY <2>2, <2>3, <2>4
<1>11. NumberedFrom(old, new, r) = Append(m, p)
  <2> HIDE DEF m, n, r, p
  <2> QED BY <1>1, <1>9, <1>10 DEF NumberedFrom
<1> QED BY <1>6, <1>7, <1>11

LEMMA NumNone == ASSUME NEW old, NEW new PROVE NumberedFrom(old, new, <<>>) = <<>>
  BY DEF NumberedFrom

LEMMA NumOfHunk == ASSUME NEW h PROVE Numbered(h) = NumberedFrom(h.old, h.new, h.lines)
  BY DEF Numbered, NumberedFrom, Placed

\* A line has two bytes, so a prefix has at least as many as it moves the
\* places behind it.
LEMMA BytesBound == \A s \in Seq(AnyLine) : Bytes(s) \in Nat /\ OldLines(s) + NewLines(s) <= Bytes(s)
<1> DEFINE G == {s \in Seq(AnyLine) : Bytes(s) \in Nat /\ OldLines(s) + NewLines(s) <= Bytes(s)}
<1>1. <<>> \in G
  BY EmptySeq, CountNone
<1>2. ASSUME NEW s \in Seq(AnyLine), NEW x \in AnyLine, s \in G PROVE Append(s, x) \in G
  <2>1. Bytes(s) \in Nat /\ OldLines(s) + NewLines(s) <= Bytes(s)
    BY <1>2
  <2>2. Bytes(Append(s, x)) = Bytes(s) + x.bytes
    BY BytesAppend
  <2>3. /\ OldLines(s) \in Nat /\ OldLines(Append(s, x)) = OldLines(s) + (IF x.kind # "added" THEN 1 ELSE 0)
        /\ NewLines(s) \in Nat /\ NewLines(Append(s, x)) = NewLines(s) + (IF x.kind # "removed" THEN 1 ELSE 0)
    BY OldNewAppend
  <2>4. x.bytes \in Nat /\ x.bytes >= 2
    BY DEF AnyLine
  <2>5. Bytes(Append(s, x)) \in Nat /\ OldLines(Append(s, x)) + NewLines(Append(s, x)) <= Bytes(Append(s, x))
    BY <2>1, <2>2, <2>3, <2>4
  <2> QED BY <2>5, AppendProperties
<1> HIDE DEF G
<1>3. Seq(AnyLine) \subseteq G
  BY <1>1, <1>2, SeqInduction
<1> QED BY <1>3 DEF G

LEMMA DigitsGrow ==
  ASSUME NEW a \in Nat, NEW x \in Nat
  PROVE  Digits(a) \in 1..3 /\ Digits(a) <= Digits(a + x) /\ Digits(a + x) <= Digits(a) + x
<1> QED BY DEF Digits

\* The lines that fit into a piece alone.
Fit(limit) == {l \in PlacedLine : HeaderBytes(l.old, l.new, <<l>>) + l.bytes <= limit}

LEMMA OneLine ==
  ASSUME NEW l
  PROVE  /\ OldLines(<<l>>) = IF l.kind # "added" THEN 1 ELSE 0
         /\ NewLines(<<l>>) = IF l.kind # "removed" THEN 1 ELSE 0
<1>1. /\ {i \in DOMAIN <<l>> : <<l>>[i].kind /= "added"} = IF l.kind # "added" THEN {1} ELSE {}
      /\ {i \in DOMAIN <<l>> : <<l>>[i].kind /= "removed"} = IF l.kind # "removed" THEN {1} ELSE {}
  OBVIOUS
<1>2. Cardinality({1}) = 1 /\ Cardinality({}) = 0
  BY FS_Singleton, FS_EmptySet
<1>3. OldLines(<<l>>) = IF l.kind # "added" THEN 1 ELSE 0
  <2>1. OldLines(<<l>>) = Cardinality(IF l.kind # "added" THEN {1} ELSE {})
    BY <1>1 DEF OldLines
  <2> QED BY <1>2, <2>1
<1>4. NewLines(<<l>>) = IF l.kind # "removed" THEN 1 ELSE 0
  <2>1. NewLines(<<l>>) = Cardinality(IF l.kind # "removed" THEN {1} ELSE {})
    BY <1>1 DEF NewLines
  <2> QED BY <1>2, <2>1
<1> QED BY <1>3, <1>4

LEMMA OneBytes == ASSUME NEW l \in AnyLine PROVE Bytes(<<l>>) = l.bytes
<1>1. <<l>> = Append(<<>>, l) /\ <<>> \in Seq(AnyLine)
  BY EmptySeq
<1>2. Bytes(Append(<<>>, l)) = Bytes(<<>>) + l.bytes
  BY <1>1, BytesAppend
<1> QED BY <1>1, <1>2, CountNone DEF AnyLine

LEMMA FitOne ==
  ASSUME NEW l \in AnyLine, NEW old \in Nat, NEW new \in Nat, NEW limit
  PROVE  Placed(l, old, new) \in Fit(limit) <=> HeaderBytes(old, new, <<l>>) + Bytes(<<l>>) <= limit
<1> DEFINE p == Placed(l, old, new)
<1>1. p \in PlacedLine /\ p.kind = l.kind /\ p.bytes = l.bytes /\ p.old = old /\ p.new = new
  BY DEF Placed, PlacedLine, AnyLine
<1> HIDE DEF p
<1>2. OldLines(<<p>>) = OldLines(<<l>>) /\ NewLines(<<p>>) = NewLines(<<l>>)
  BY <1>1, OneLine
<1>3. HeaderBytes(p.old, p.new, <<p>>) + p.bytes = HeaderBytes(old, new, <<l>>) + Bytes(<<l>>)
  BY <1>1, <1>2, OneBytes DEF HeaderBytes
<1> QED BY <1>1, <1>3 DEF Fit, p

\* A line that fits behind others fits alone; and so do the others.
LEMMA FitBehind ==
  ASSUME NEW s \in Seq(AnyLine), NEW l \in AnyLine, NEW old \in Nat, NEW new \in Nat, NEW limit \in Nat,
         HeaderBytes(old, new, Append(s, l)) + Bytes(Append(s, l)) <= limit
  PROVE  /\ Placed(l, old + OldLines(s), new + NewLines(s)) \in Fit(limit)
         /\ HeaderBytes(old, new, s) + Bytes(s) <= limit
<1> DEFINE o == OldLines(s)
           n == NewLines(s)
           b == Bytes(s)
           u == IF l.kind # "added" THEN 1 ELSE 0
           v == IF l.kind # "removed" THEN 1 ELSE 0
<1>1. /\ o \in Nat /\ n \in Nat /\ b \in Nat /\ u \in 0..1 /\ v \in 0..1
      /\ OldLines(Append(s, l)) = o + u /\ NewLines(Append(s, l)) = n + v
      /\ OldLines(<<l>>) = u /\ NewLines(<<l>>) = v
      /\ Bytes(Append(s, l)) = b + l.bytes /\ Bytes(<<l>>) = l.bytes
  BY OldNewAppend, BytesAppend, BytesBound, OneLine, OneBytes
<1>2. o + n <= b /\ l.bytes \in Nat
  BY BytesBound DEF AnyLine
<1> HIDE DEF o, n, b, u, v
<1>3. 12 + Digits(old) + Digits(o + u) + Digits(new) + Digits(n + v) + (b + l.bytes) <= limit
  BY <1>1 DEF HeaderBytes
<1>4. /\ Digits(old) \in 1..3 /\ Digits(new) \in 1..3 /\ Digits(u) \in 1..3 /\ Digits(v) \in 1..3
      /\ Digits(o) \in 1..3 /\ Digits(n) \in 1..3 /\ Digits(o + u) \in 1..3 /\ Digits(n + v) \in 1..3
      /\ Digits(old + o) \in 1..3 /\ Digits(new + n) \in 1..3
  <2>1. u \in Nat /\ v \in Nat /\ o + u \in Nat /\ n + v \in Nat /\ old + o \in Nat /\ new + n \in Nat
    BY <1>1
  <2> QED BY <1>1, <2>1, DigitsGrow
<1>5. /\ Digits(old + o) <= Digits(old) + o /\ Digits(new + n) <= Digits(new) + n
      /\ Digits(u) <= Digits(o + u) /\ Digits(v) <= Digits(n + v)
      /\ Digits(o) <= Digits(o + u) /\ Digits(n) <= Digits(n + v)
  <2>0. \A x, y \in Nat : x + y \in Nat
    OBVIOUS
  <2>1. ASSUME NEW x \in Nat, NEW y \in Nat
        PROVE  Digits(x + y) <= Digits(x) + y /\ Digits(x) <= Digits(x + y) /\ Digits(y) <= Digits(x + y)
    BY DEF Digits
  <2>2. o \in Nat /\ n \in Nat /\ u \in Nat /\ v \in Nat
    BY <1>1
  <2>3. Digits(old + o) <= Digits(old) + o
    BY <2>1, <2>2
  <2>4. Digits(new + n) <= Digits(new) + n
    BY <2>1, <2>2
  <2>5. Digits(u) <= Digits(o + u) /\ Digits(o) <= Digits(o + u)
    BY <2>1, <2>2
  <2>6. Digits(v) <= Digits(n + v) /\ Digits(n) <= Digits(n + v)
    BY <2>1, <2>2
  <2> QED BY <2>3, <2>4, <2>5, <2>6
<1> DEFINE a == Digits(old)
           c == Digits(o + u)
           d == Digits(new)
           e == Digits(n + v)
           f == Digits(old + o)
           g == Digits(new + n)
           x == Digits(u)
           y == Digits(v)
           z == Digits(o)
           w == Digits(n)
           k == l.bytes
<1>t. a \in Nat /\ c \in Nat /\ d \in Nat /\ e \in Nat /\ f \in Nat /\ g \in Nat /\ x \in Nat /\ y \in Nat
      /\ z \in Nat /\ w \in Nat /\ k \in Nat /\ o \in Nat /\ n \in Nat /\ b \in Nat
  <2>1. \A i \in 1..3 : i \in Nat
    OBVIOUS
  <2>2. a \in 1..3 /\ c \in 1..3 /\ d \in 1..3 /\ e \in 1..3 /\ f \in 1..3 /\ g \in 1..3
        /\ x \in 1..3 /\ y \in 1..3 /\ z \in 1..3 /\ w \in 1..3
    BY <1>4
  <2>3. k \in Nat /\ o \in Nat /\ n \in Nat /\ b \in Nat
    BY <1>1, <1>2
  <2> HIDE DEF a, c, d, e, f, g, x, y, z, w, k
  <2> QED BY <2>1, <2>2, <2>3
<1>6. HeaderBytes(old + o, new + n, <<l>>) + Bytes(<<l>>) = 12 + f + x + g + y + k
  BY <1>1 DEF HeaderBytes
<1>7. HeaderBytes(old, new, s) + b = 12 + a + z + d + w + b
  BY DEF HeaderBytes, o, n
<1>9. /\ 12 + a + c + d + e + (b + k) <= limit /\ f <= a + o /\ g <= d + n /\ o + n <= b
      /\ x <= c /\ y <= e /\ z <= c /\ w <= e
  BY <1>2, <1>3, <1>5
<1> HIDE DEF a, c, d, e, f, g, x, y, z, w, k
<1>10. 12 + f + x + g + y + k <= limit /\ 12 + a + z + d + w + b <= limit
  BY <1>t, <1>9
<1>8. old + o \in Nat /\ new + n \in Nat
  BY <1>1
<1> QED BY <1>6, <1>7, <1>8, <1>10, FitOne DEF o, n, b

LEMMA AllFit ==
  ASSUME NEW old \in Nat, NEW new \in Nat, NEW limit \in Nat
  PROVE  \A s \in Seq(AnyLine) : HeaderBytes(old, new, s) + Bytes(s) <= limit => NumberedFrom(old, new, s) \in Seq(Fit(limit))
<1> DEFINE G == {s \in Seq(AnyLine) : HeaderBytes(old, new, s) + Bytes(s) <= limit => NumberedFrom(old, new, s) \in Seq(Fit(limit))}
<1>1. <<>> \in G
  BY EmptySeq, NumNone
<1>2. ASSUME NEW s \in Seq(AnyLine), NEW x \in AnyLine, s \in G PROVE Append(s, x) \in G
  <2>1. ASSUME HeaderBytes(old, new, Append(s, x)) + Bytes(Append(s, x)) <= limit
        PROVE  NumberedFrom(old, new, Append(s, x)) \in Seq(Fit(limit))
    <3>1. /\ Placed(x, old + OldLines(s), new + NewLines(s)) \in Fit(limit)
          /\ HeaderBytes(old, new, s) + Bytes(s) <= limit
      BY <2>1, FitBehind
    <3>2. NumberedFrom(old, new, s) \in Seq(Fit(limit))
      BY <1>2, <3>1
    <3>3. NumberedFrom(old, new, Append(s, x))
            = Append(NumberedFrom(old, new, s), Placed(x, old + OldLines(s), new + NewLines(s)))
      BY NumAppend
    <3> QED BY <3>1, <3>2, <3>3, AppendProperties
  <2> QED BY <2>1, AppendProperties
<1> HIDE DEF G
<1>3. Seq(AnyLine) \subseteq G
  BY <1>1, <1>2, SeqInduction
<1> QED BY <1>3 DEF G

-----------------------------------------------------------------------------
(* What lines with their places take up.                                   *)

BytesOf == [l \in PlacedLine |-> l.bytes]
Weigh(s) == Total(BytesOf, s)

LEMMA BytesOfMaps ==
  /\ Maps(BytesOf, PlacedLine, Nat) /\ Maps(BytesOf, PlacedLine, Int)
  /\ \A l \in PlacedLine : BytesOf[l] = l.bytes /\ l.bytes \in Nat /\ l.bytes > 0
<1>1. \A l \in PlacedLine : l.bytes \in Nat /\ l.bytes > 0
  BY DEF PlacedLine
<1> QED BY <1>1 DEF BytesOf, Maps

LEMMA WeighNone == Weigh(<<>>) = 0
  BY MapEmpty DEF Weigh

LEMMA WeighAppend ==
  ASSUME NEW s \in Seq(PlacedLine), NEW l \in PlacedLine
  PROVE  /\ Weigh(s) \in Nat /\ l.bytes \in Nat /\ l.bytes > 0
         /\ Weigh(Append(s, l)) = Weigh(s) + l.bytes
<1>1. Weigh(s) \in Nat
  BY BytesOfMaps, TotalType DEF Weigh
<1>2. Total(BytesOf, Append(s, l)) = Total(BytesOf, s) + BytesOf[l]
  BY BytesOfMaps, TotalAppend
<1> QED BY <1>1, <1>2, BytesOfMaps DEF Weigh

LEMMA WeighConcat ==
  ASSUME NEW s \in Seq(PlacedLine), NEW t \in Seq(PlacedLine)
  PROVE  Weigh(s) \in Nat /\ Weigh(t) \in Nat /\ Weigh(s \o t) = Weigh(s) + Weigh(t)
<1>1. Weigh(s) \in Nat /\ Weigh(t) \in Nat
  BY BytesOfMaps, TotalType DEF Weigh
<1>2. Total(BytesOf, s \o t) = Total(BytesOf, s) + Total(BytesOf, t)
  BY BytesOfMaps, TotalConcat
<1> QED BY <1>1, <1>2 DEF Weigh

\* Every line has bytes.
LEMMA WeighNothing == ASSUME NEW s \in Seq(PlacedLine), Weigh(s) = 0 PROVE s = <<>>
<1> SUFFICES ASSUME s # <<>> PROVE FALSE
  OBVIOUS
<1>1. PICK r \in Seq(PlacedLine), l \in PlacedLine : s = Append(r, l)
  BY SequenceEmptyOrAppend
<1>2. Weigh(r) \in Nat /\ l.bytes \in Nat /\ l.bytes > 0 /\ Weigh(s) = Weigh(r) + l.bytes
  BY <1>1, WeighAppend
<1> QED BY <1>2

LEMMA WeighNumbered ==
  ASSUME NEW old \in Nat, NEW new \in Nat
  PROVE  \A s \in Seq(AnyLine) : Weigh(NumberedFrom(old, new, s)) = Bytes(s)
<1> DEFINE G == {s \in Seq(AnyLine) : Weigh(NumberedFrom(old, new, s)) = Bytes(s)}
<1>1. <<>> \in G
  BY EmptySeq, NumNone, CountNone, WeighNone
<1>2. ASSUME NEW s \in Seq(AnyLine), NEW x \in AnyLine, s \in G PROVE Append(s, x) \in G
  <2> DEFINE N == NumberedFrom(old, new, s)
             q == Placed(x, old + OldLines(s), new + NewLines(s))
  <2>1. N \in Seq(PlacedLine) /\ q \in PlacedLine /\ NumberedFrom(old, new, Append(s, x)) = Append(N, q)
    BY NumAppend
  <2>2. q.bytes = x.bytes
    BY DEF Placed
  <2> HIDE DEF N, q
  <2>3. Weigh(Append(N, q)) = Weigh(N) + x.bytes
    BY <2>1, <2>2, WeighAppend
  <2>4. Bytes(Append(s, x)) = Bytes(s) + x.bytes
    BY BytesAppend
  <2>5. Weigh(N) = Bytes(s)
    BY <1>2 DEF N
  <2> QED BY <2>1, <2>3, <2>4, <2>5, AppendProperties
<1> HIDE DEF G
<1>3. Seq(AnyLine) \subseteq G
  BY <1>1, <1>2, SeqInduction
<1> QED BY <1>3 DEF G

\* What is left out is missing in bytes.
Lighter(s, all) ==
  /\ Weigh(s) \in Nat /\ Weigh(all) \in Nat
  /\ Weigh(s) <= Weigh(all)
  /\ Weigh(s) = Weigh(all) => s = all

LEMMA WeighChosen ==
  ASSUME NEW S
  PROVE  \A s \in Seq(PlacedLine) : Lighter(Chosen(s, S), s)
<1> DEFINE T(s) == Chosen(s, S)
           Good(s) == /\ T(s) \in Seq(PlacedLine) /\ Weigh(T(s)) \in Nat /\ Weigh(s) \in Nat
                      /\ Weigh(T(s)) <= Weigh(s)
                      /\ Weigh(T(s)) = Weigh(s) => T(s) = s
           G == {s \in Seq(PlacedLine) : Good(s)}
<1>1. <<>> \in G
  <2> DEFINE n == <<>>
  <2>1. T(n) = n /\ n \in Seq(PlacedLine) /\ Weigh(n) = 0
    BY EmptySeq, ChosenEmpty, WeighNone
  <2> HIDE DEF T, n
  <2>2. n \in G
    BY <2>1
  <2> QED BY <2>2 DEF n
<1>2. ASSUME NEW s \in Seq(PlacedLine), NEW l \in PlacedLine, s \in G PROVE Append(s, l) \in G
  <2> DEFINE r == Append(s, l)
  <2>1. T(r) = IF l \in S THEN Append(T(s), l) ELSE T(s)
    BY ChosenAppend
  <2>2. /\ T(s) \in Seq(PlacedLine) /\ Weigh(T(s)) \in Nat /\ Weigh(s) \in Nat
        /\ Weigh(T(s)) <= Weigh(s) /\ (Weigh(T(s)) = Weigh(s) => T(s) = s)
    BY <1>2
  <2>3. r \in Seq(PlacedLine) /\ Weigh(r) = Weigh(s) + l.bytes /\ l.bytes \in Nat /\ l.bytes > 0
    BY AppendProperties, WeighAppend
  <2> HIDE DEF T, r
  <2>4. CASE l \in S
    <3>1. Append(T(s), l) \in Seq(PlacedLine) /\ Weigh(Append(T(s), l)) = Weigh(T(s)) + l.bytes
      BY <2>2, AppendProperties, WeighAppend
    <3>2. T(r) = Append(T(s), l)
      BY <2>1, <2>4
    <3>3. Weigh(T(r)) \in Nat /\ Weigh(r) \in Nat /\ Weigh(T(r)) <= Weigh(r)
      BY <2>2, <2>3, <3>1, <3>2
    <3>4. Weigh(T(r)) = Weigh(r) => Weigh(T(s)) = Weigh(s)
      BY <2>2, <2>3, <3>1, <3>2
    <3>5. Weigh(T(r)) = Weigh(r) => T(r) = r
      BY <2>2, <3>2, <3>4 DEF r
    <3> QED BY <2>3, <3>1, <3>2, <3>3, <3>5 DEF r
  <2>5. CASE l \notin S
    <3>1. T(r) = T(s)
      BY <2>1, <2>5
    <3>2. Weigh(T(r)) \in Nat /\ Weigh(r) \in Nat /\ Weigh(T(r)) <= Weigh(r) /\ Weigh(T(r)) # Weigh(r)
      BY <2>2, <2>3, <3>1
    <3> QED BY <2>2, <2>3, <3>1, <3>2 DEF r
  <2> QED BY <2>4, <2>5
<1> HIDE DEF G
<1>3. Seq(PlacedLine) \subseteq G
  BY <1>1, <1>2, SeqInduction
<1>4. \A s \in Seq(PlacedLine) : Good(s)
  <2> HIDE DEF Good
  <2> QED BY <1>3 DEF G
<1> QED BY <1>4 DEF Lighter

LEMMA BytesIsWeigh == \A s \in Seq(PlacedLine) : Bytes(s) = Weigh(s)
<1> TAKE s \in Seq(PlacedLine)
<1>1. \A i \in DOMAIN s : s[i] \in PlacedLine
  BY LenProperties, ElementOfSeq
<1>2. [i \in DOMAIN s |-> s[i].bytes] = [i \in DOMAIN s |-> BytesOf[s[i]]]
  BY <1>1 DEF BytesOf
<1> QED BY <1>2 DEF Bytes, Weigh, Total, Map

-----------------------------------------------------------------------------
(* Pieces, of files with paths in X.                                       *)

AnyPiece(X) ==
  [path : X, deleted : BOOLEAN, headers : {"read", "bad", "cut"}, hunks : Seq(AnyHunk), text : Seq(Nat \ {0}),
   charged : Nat, reviewable : BOOLEAN]

NumberOf == [h \in AnyHunk |-> Numbered(h)]
WeightOf == [h \in AnyHunk |-> SourceBytes(h)]
OmitOf == [h \in AnyHunk |-> OmittedBytes(h)]
ParseOf(X) == [p \in AnyPiece(X) |-> Parsed(p)]
ChargeOf(X) == [p \in AnyPiece(X) |-> p.charged]
SizeOf(X) == [p \in AnyPiece(X) |-> DiffBytes(p)]
Lines(X, pieces) == FlatMap(ParseOf(X), pieces)
Charges(X, pieces) == Total(ChargeOf(X), pieces)

LEMMA NumType ==
  ASSUME NEW old \in Nat, NEW new \in Nat
  PROVE  \A s \in Seq(AnyLine) : NumberedFrom(old, new, s) \in Seq(PlacedLine)
<1> TAKE s \in Seq(AnyLine)
<1>1. CASE s = <<>>
  BY <1>1, NumNone, EmptySeq
<1>2. CASE s # <<>>
  <2>1. PICK r \in Seq(AnyLine), x \in AnyLine : s = Append(r, x)
    BY <1>2, SequenceEmptyOrAppend
  <2>2. /\ NumberedFrom(old, new, r) \in Seq(PlacedLine)
        /\ Placed(x, old + OldLines(r), new + NewLines(r)) \in PlacedLine
        /\ NumberedFrom(old, new, Append(r, x))
             = Append(NumberedFrom(old, new, r), Placed(x, old + OldLines(r), new + NewLines(r)))
    BY NumAppend
  <2> QED BY <2>1, <2>2, AppendProperties
<1> QED BY <1>1, <1>2

LEMMA CountType == \A s \in Seq(AnyLine) : OldLines(s) \in Nat /\ NewLines(s) \in Nat
<1>1. [kind |-> "added", bytes |-> 2] \in AnyLine
  BY DEF AnyLine, Kinds
<1> QED BY <1>1, OldNewAppend

LEMMA NumberOfType == Maps(NumberOf, AnyHunk, Seq(PlacedLine))
<1>1. \A h \in AnyHunk : Numbered(h) \in Seq(PlacedLine)
  BY NumOfHunk, NumType DEF AnyHunk
<1> QED BY <1>1 DEF Maps, NumberOf

LEMMA HeaderType ==
  ASSUME NEW old \in Nat, NEW new \in Nat, NEW s \in Seq(AnyLine)
  PROVE  HeaderBytes(old, new, s) \in Nat /\ HeaderBytes(old, new, s) >= 12
<1>1. OldLines(s) \in Nat /\ NewLines(s) \in Nat
  BY CountType
<1> QED BY <1>1 DEF HeaderBytes, Digits

LEMMA WrittenType == \A h \in AnyHunk : WrittenBytes(h) \in Nat /\ WrittenBytes(h) >= 12
<1> TAKE h \in AnyHunk
<1>1. h.old \in Nat /\ h.new \in Nat /\ h.lines \in Seq(AnyLine)
  BY DEF AnyHunk
<1>2. HeaderBytes(h.old, h.new, h.lines) \in Nat /\ HeaderBytes(h.old, h.new, h.lines) >= 12 /\ Bytes(h.lines) \in Nat
  BY <1>1, HeaderType, BytesBound
<1> QED BY <1>2 DEF WrittenBytes

\* Even with both counts omitted there is a header before the lines.
LEMMA SourceType ==
  \A h \in AnyHunk : /\ WrittenBytes(h) \in Nat /\ WrittenBytes(h) > 0
                     /\ SourceBytes(h) \in Nat /\ OmittedBytes(h) \in Nat
                     /\ WrittenBytes(h) <= SourceBytes(h) + OmittedBytes(h)
                     /\ Weigh(Numbered(h)) <= SourceBytes(h) /\ Weigh(Numbered(h)) <= WrittenBytes(h)
                     /\ Weigh(Numbered(h)) = Bytes(h.lines) /\ Weigh(Numbered(h)) \in Nat
                     /\ h.heading = 0 /\ h.omitted = 0 => SourceBytes(h) = WrittenBytes(h)
<1> TAKE h \in AnyHunk
<1>1. h.old \in Nat /\ h.new \in Nat /\ h.lines \in Seq(AnyLine) /\ h.heading \in Nat /\ h.omitted \in 0..2
  BY DEF AnyHunk
<1> DEFINE head == HeaderBytes(h.old, h.new, h.lines)
           b == Bytes(h.lines)
           w == WrittenBytes(h)
           o == OmittedBytes(h)
           r == SourceBytes(h)
<1>2. head \in Nat /\ head >= 12 /\ b \in Nat
  BY <1>1, HeaderType, BytesBound
<1>3. w = head + b /\ o = 2 * h.omitted /\ r = w + h.heading - o
  BY DEF WrittenBytes, OmittedBytes, SourceBytes
<1>4. o \in 0..4
  BY <1>1, <1>3
<1>5. Weigh(Numbered(h)) = b
  BY <1>1, NumOfHunk, WeighNumbered
<1> HIDE DEF head, b, w, o, r
<1>6. w \in Nat /\ w > 0 /\ r \in Nat /\ o \in Nat /\ w <= r + o /\ b <= r /\ b <= w
  <2> DEFINE g == h.heading
  <2>1. g \in Nat /\ r = w + g - o
    BY <1>1, <1>3
  <2> HIDE DEF g
  <2>2. o \in Nat /\ o <= 4 /\ w \in Nat /\ w >= 12 /\ w >= b
    BY <1>2, <1>3, <1>4
  <2>3. r \in Nat /\ w <= r + o
    BY <2>1, <2>2
  <2>4. b <= r
    <3>1. b + 12 <= w
      BY <1>2, <1>3
    <3> QED BY <1>2, <2>1, <2>2, <3>1
  <2> QED BY <1>2, <2>2, <2>3, <2>4
<1>7. h.heading = 0 /\ h.omitted = 0 => r = w
  BY <1>2, <1>3
<1> QED BY <1>2, <1>5, <1>6, <1>7 DEF w, r, o, b

LEMMA WeightOfType == Maps(WeightOf, AnyHunk, Nat)
  BY SourceType DEF Maps, WeightOf

LEMMA TextType == \A s \in Seq(Nat \ {0}) : SumFunction(s) \in Nat /\ (s # <<>> => SumFunction(s) > 0)
<1> DEFINE G == {s \in Seq(Nat \ {0}) : SumFunction(s) \in Nat /\ (s # <<>> => SumFunction(s) > 0)}
<1>1. <<>> \in G
  BY EmptySeq, SumNone
<1>2. ASSUME NEW s \in Seq(Nat \ {0}), NEW x \in Nat \ {0}, s \in G PROVE Append(s, x) \in G
  <2>1. s \in Seq(Int) /\ x \in Int
    BY SeqMonotonic
  <2>2. SumFunction(Append(s, x)) = SumFunction(s) + x
    BY <2>1, SumAppend
  <2>3. SumFunction(s) \in Nat
    BY <1>2
  <2>4. SumFunction(Append(s, x)) \in Nat /\ SumFunction(Append(s, x)) > 0
    BY <2>2, <2>3
  <2> QED BY <2>4, AppendProperties
<1> HIDE DEF G
<1>3. Seq(Nat \ {0}) \subseteq G
  BY <1>1, <1>2, SeqInduction
<1> QED BY <1>3 DEF G

LEMMA ParsedIs == \A p : p.hunks \in Seq(AnyHunk) => Parsed(p) = FlatMap(NumberOf, p.hunks)
<1> TAKE p
<1> HAVE p.hunks \in Seq(AnyHunk)
<1>1. \A i \in DOMAIN p.hunks : p.hunks[i] \in AnyHunk
  BY LenProperties, ElementOfSeq
<1>2. [i \in DOMAIN p.hunks |-> Numbered(p.hunks[i])] = [i \in DOMAIN p.hunks |-> NumberOf[p.hunks[i]]]
  BY <1>1 DEF NumberOf
<1> QED BY <1>2 DEF Parsed, FlatMap, Map

LEMMA DiffBytesIs ==
  \A p : p.hunks \in Seq(AnyHunk) => DiffBytes(p) = Total(WeightOf, p.hunks) + SumFunction(p.text)
<1> TAKE p
<1> HAVE p.hunks \in Seq(AnyHunk)
<1>1. \A i \in DOMAIN p.hunks : p.hunks[i] \in AnyHunk
  BY LenProperties, ElementOfSeq
<1>2. [i \in DOMAIN p.hunks |-> SourceBytes(p.hunks[i])] = [i \in DOMAIN p.hunks |-> WeightOf[p.hunks[i]]]
  BY <1>1 DEF WeightOf
<1> QED BY <1>2 DEF DiffBytes, Total, Map

LEMMA PieceTypes ==
  ASSUME NEW X
  PROVE  /\ Maps(ParseOf(X), AnyPiece(X), Seq(PlacedLine))
         /\ Maps(ChargeOf(X), AnyPiece(X), Nat) /\ Maps(ChargeOf(X), AnyPiece(X), Int)
         /\ Maps(SizeOf(X), AnyPiece(X), Nat) /\ Maps(SizeOf(X), AnyPiece(X), Int)
<1>1. \A p \in AnyPiece(X) : p.hunks \in Seq(AnyHunk) /\ p.text \in Seq(Nat \ {0}) /\ p.charged \in Nat
  BY DEF AnyPiece
<1>2. \A p \in AnyPiece(X) : Parsed(p) \in Seq(PlacedLine)
  <2> TAKE p \in AnyPiece(X)
  <2>1. FlatMap(NumberOf, p.hunks) \in Seq(PlacedLine)
    BY <1>1, NumberOfType, FlatMapConcat
  <2> QED BY <1>1, <2>1, ParsedIs
<1>3. \A p \in AnyPiece(X) : DiffBytes(p) \in Nat
  <2> TAKE p \in AnyPiece(X)
  <2>1. Total(WeightOf, p.hunks) \in Nat
    BY <1>1, WeightOfType, TotalType
  <2>2. SumFunction(p.text) \in Nat
    BY <1>1, TextType
  <2> QED BY <1>1, <2>1, <2>2, DiffBytesIs
<1>4. Nat \subseteq Int
  OBVIOUS
<1> QED BY <1>1, <1>2, <1>3, <1>4 DEF Maps, ParseOf, ChargeOf, SizeOf

\* A piece of f.
OwnPiece(X, f, limit) ==
  {p \in AnyPiece(X) :
     /\ p.path = f.path /\ p.deleted = f.deleted
     /\ p.reviewable => DiffBytes(p) <= limit \/ (Len(p.text) = 1 /\ p.hunks = <<>>)
     /\ p.hunks # <<>> => p.reviewable
     /\ Weigh(Parsed(p)) <= p.charged
     /\ ~p.reviewable => p.charged = 0}

LEMMA OneMorePiece ==
  ASSUME NEW X, NEW P \in Seq(AnyPiece(X)), NEW p \in AnyPiece(X)
  PROVE  /\ Lines(X, P) \in Seq(PlacedLine) /\ Charges(X, P) \in Nat
         /\ Lines(X, Append(P, p)) = Lines(X, P) \o Parsed(p)
         /\ Charges(X, Append(P, p)) = Charges(X, P) + p.charged
<1>1. /\ Maps(ParseOf(X), AnyPiece(X), Seq(PlacedLine))
      /\ Maps(ChargeOf(X), AnyPiece(X), Nat) /\ Maps(ChargeOf(X), AnyPiece(X), Int)
  BY PieceTypes
<1>2. Lines(X, P) \in Seq(PlacedLine) /\ Lines(X, Append(P, p)) = Lines(X, P) \o ParseOf(X)[p]
  BY <1>1, FlatMapAppend DEF Lines
<1>3. Charges(X, Append(P, p)) = Charges(X, P) + ChargeOf(X)[p]
  BY <1>1, TotalAppend DEF Charges
<1>4. Charges(X, P) \in Nat
  BY <1>1, TotalType DEF Charges
<1>5. ParseOf(X)[p] = Parsed(p) /\ ChargeOf(X)[p] = p.charged
  BY DEF ParseOf, ChargeOf
<1> QED BY <1>2, <1>3, <1>4, <1>5

LEMMA OwnIsPiece == ASSUME NEW X, NEW f, NEW limit PROVE Seq(OwnPiece(X, f, limit)) \subseteq Seq(AnyPiece(X))
<1>1. OwnPiece(X, f, limit) \subseteq AnyPiece(X)
  BY DEF OwnPiece
<1> QED BY <1>1, SeqMonotonic

LEMMA NoPieces == ASSUME NEW X PROVE Lines(X, <<>>) = <<>> /\ Charges(X, <<>>) = 0
  BY MapEmpty DEF Lines, Charges

MadeOf(p, X, f, hs, t, c) ==
  /\ p \in AnyPiece(X) /\ p.path = f.path /\ p.deleted = f.deleted /\ p.headers = f.headers
  /\ p.hunks = hs /\ p.text = t /\ p.charged = c /\ p.reviewable = TRUE
  /\ DiffBytes(p) = Total(WeightOf, hs) + SumFunction(t)
  /\ Parsed(p) = FlatMap(NumberOf, hs)

LEMMA PieceIs ==
  ASSUME NEW X, NEW f, IsFile(f), f.path \in X,
         NEW hs \in Seq(AnyHunk), NEW t \in Seq(Nat \ {0}), NEW c \in Nat
  PROVE  MadeOf(Piece(f, hs, t, c), X, f, hs, t, c)
<1> DEFINE p == Piece(f, hs, t, c)
<1>1. f.deleted \in BOOLEAN /\ f.headers \in {"read", "bad"}
  BY DEF IsFile
<1>2. p = [path |-> f.path, deleted |-> f.deleted, headers |-> f.headers,
           hunks |-> hs, text |-> t, charged |-> c, reviewable |-> TRUE]
  BY DEF Piece
<1>3. /\ p.path = f.path /\ p.deleted = f.deleted /\ p.headers = f.headers
      /\ p.hunks = hs /\ p.text = t /\ p.charged = c /\ p.reviewable = TRUE
  BY <1>2
<1>4. p \in AnyPiece(X)
  BY <1>1, <1>2 DEF AnyPiece
<1> HIDE DEF p
<1>5. DiffBytes(p) = Total(WeightOf, hs) + SumFunction(t) /\ Parsed(p) = FlatMap(NumberOf, hs)
  BY <1>3, DiffBytesIs, ParsedIs
<1> QED BY <1>3, <1>4, <1>5 DEF p, MadeOf

LEMMA UnsendableIs ==
  ASSUME NEW X, NEW f, IsFile(f), f.path \in X, NEW limit
  PROVE  /\ Unsendable(f) \in OwnPiece(X, f, limit) /\ ~Unsendable(f).reviewable
         /\ Parsed(Unsendable(f)) = <<>> /\ Unsendable(f).charged = 0
<1> DEFINE p == Unsendable(f)
           q == Piece(f, <<>>, <<>>, 0)
<1>1. <<>> \in Seq(AnyHunk) /\ <<>> \in Seq(Nat \ {0})
  BY EmptySeq
<1>2. /\ q \in AnyPiece(X) /\ q.path = f.path /\ q.deleted = f.deleted
      /\ q.hunks = <<>> /\ q.charged = 0
  <2> DEFINE e == <<>>
  <2>1. e \in Seq(AnyHunk) /\ e \in Seq(Nat \ {0}) /\ q = Piece(f, e, e, 0)
    BY <1>1
  <2> HIDE DEF e, q
  <2>2. MadeOf(Piece(f, e, e, 0), X, f, e, e, 0)
    BY <2>1, PieceIs
  <2> QED BY <2>1, <2>2 DEF e, MadeOf
<1>3. p = [q EXCEPT !.reviewable = FALSE]
  BY DEF Unsendable
<1> HIDE DEF p, q
<1>4. /\ p.path = f.path /\ p.deleted = f.deleted /\ p.hunks = <<>> /\ p.charged = 0 /\ p.reviewable = FALSE
      /\ p \in AnyPiece(X)
  <2>1. /\ p.path = f.path /\ p.deleted = f.deleted /\ p.hunks = <<>> /\ p.charged = 0 /\ p.reviewable = FALSE
    BY <1>2, <1>3 DEF AnyPiece
  <2>2. p \in AnyPiece(X)
    BY <1>2, <1>3 DEF AnyPiece
  <2> QED BY <2>1, <2>2
<1>6. Parsed(p) = <<>>
  BY <1>1, <1>4, ParsedIs, MapEmpty
<1>5. p \in OwnPiece(X, f, limit)
  BY <1>4, <1>6, WeighNone DEF OwnPiece
<1> QED BY <1>4, <1>5, <1>6 DEF p

LEMMA OneHunk ==
  ASSUME NEW h \in AnyHunk
  PROVE  /\ <<h>> \in Seq(AnyHunk) /\ FlatMap(NumberOf, <<h>>) = Numbered(h) /\ Numbered(h) \in Seq(PlacedLine)
         /\ Total(WeightOf, <<h>>) = SourceBytes(h)
<1>1. <<h>> = Append(<<>>, h) /\ <<>> \in Seq(AnyHunk) /\ <<h>> \in Seq(AnyHunk)
  BY EmptySeq, AppendProperties
<1>2. Maps(NumberOf, AnyHunk, Seq(PlacedLine)) /\ Maps(WeightOf, AnyHunk, Int)
  BY NumberOfType, WeightOfType DEF Maps
<1>3. NumberOf[h] = Numbered(h) /\ WeightOf[h] = SourceBytes(h) /\ Numbered(h) \in Seq(PlacedLine)
  <2>1. NumberOf[h] \in Seq(PlacedLine)
    BY <1>2, FValue
  <2> QED BY <2>1 DEF NumberOf, WeightOf
<1>4. FlatMap(NumberOf, <<h>>) = <<>> \o Numbered(h)
  <2>1. FlatMap(NumberOf, Append(<<>>, h)) = FlatMap(NumberOf, <<>>) \o NumberOf[h]
    <3> DEFINE e == <<>>
    <3>1. e \in Seq(AnyHunk)
      BY <1>1
    <3> HIDE DEF e
    <3>2. FlatMap(NumberOf, Append(e, h)) = FlatMap(NumberOf, e) \o NumberOf[h]
      BY <1>2, <3>1, FlatMapAppend
    <3> QED BY <3>2 DEF e
  <2> QED BY <1>1, <1>3, <2>1, MapEmpty
<1>5. Total(WeightOf, <<h>>) = 0 + WeightOf[h]
  <2>1. Total(WeightOf, Append(<<>>, h)) = Total(WeightOf, <<>>) + WeightOf[h]
    BY <1>1, <1>2, TotalAppend
  <2> QED BY <1>1, <2>1, MapEmpty
<1>6. SourceBytes(h) \in Nat
  BY SourceType
<1>7. <<>> \o Numbered(h) = Numbered(h)
  BY <1>3, ConcatEmptySeq
<1> QED BY <1>1, <1>3, <1>4, <1>5, <1>6, <1>7

LEMMA CutPieceIs ==
  ASSUME NEW X, NEW f, IsFile(f), f.path \in X, NEW limit \in Nat,
         NEW old \in Nat, NEW new \in Nat, NEW ls \in Seq(AnyLine), NEW charged \in Nat, Bytes(ls) <= charged,
         HeaderBytes(old, new, ls) + Bytes(ls) <= limit,
         NEW p, p = Piece(f, <<[old |-> old, new |-> new, heading |-> 0, omitted |-> 0, lines |-> ls]>>, <<>>, charged)
  PROVE  /\ p \in OwnPiece(X, f, limit) /\ p.charged = charged
         /\ Parsed(p) = NumberedFrom(old, new, ls)
<1> DEFINE h == [old |-> old, new |-> new, heading |-> 0, omitted |-> 0, lines |-> ls]
<1>1. h \in AnyHunk /\ h.old = old /\ h.new = new /\ h.lines = ls /\ h.heading = 0 /\ h.omitted = 0
  BY DEF AnyHunk
<1> HIDE DEF h
<1>3. /\ <<h>> \in Seq(AnyHunk) /\ FlatMap(NumberOf, <<h>>) = Numbered(h)
      /\ Total(WeightOf, <<h>>) = SourceBytes(h)
  BY <1>1, OneHunk
<1>4. <<>> \in Seq(Nat \ {0})
  BY EmptySeq
<1>6. /\ p \in AnyPiece(X) /\ p.path = f.path /\ p.deleted = f.deleted
      /\ p.hunks = <<h>> /\ p.charged = charged /\ p.reviewable = TRUE
      /\ DiffBytes(p) = Total(WeightOf, <<h>>) + SumFunction(<<>>)
      /\ Parsed(p) = FlatMap(NumberOf, <<h>>)
  <2> DEFINE hs == <<h>>
             e == <<>>
  <2>1. hs \in Seq(AnyHunk) /\ e \in Seq(Nat \ {0}) /\ p = Piece(f, hs, e, charged)
    BY <1>3, <1>4 DEF h
  <2> HIDE DEF hs, e, h
  <2>2. MadeOf(Piece(f, hs, e, charged), X, f, hs, e, charged)
    BY <2>1, PieceIs
  <2> QED BY <2>1, <2>2 DEF hs, e, MadeOf
<1>7. DiffBytes(p) = WrittenBytes(h) + 0
  BY <1>1, <1>3, <1>6, SourceType, SumNone
<1>8. WrittenBytes(h) <= limit /\ WrittenBytes(h) \in Nat
  <2>1. WrittenBytes(h) = HeaderBytes(old, new, ls) + Bytes(ls)
    BY <1>1 DEF WrittenBytes
  <2> QED BY <1>1, <2>1, WrittenType
<1>9. DiffBytes(p) <= limit
  BY <1>7, <1>8
<1>11. Parsed(p) = NumberedFrom(old, new, ls)
  BY <1>1, <1>3, <1>6, NumOfHunk
<1>12. Weigh(Parsed(p)) <= p.charged
  BY <1>6, <1>11, WeighNumbered
<1>10. p \in OwnPiece(X, f, limit)
  BY <1>6, <1>9, <1>12 DEF OwnPiece
<1> QED BY <1>6, <1>10, <1>11

LineOf(h, b, l) == Placed(l, h.old + OldLines(b), h.new + NewLines(b))
Placing(h, b) == NumberedFrom(h.old, h.new, b)
Wanted(h, b, limit) == Chosen(Placing(h, b), Fit(limit))

\* Where cutting the hunk h of f stands when the lines b of it are done.
CutOK(X, f, h, limit, b, P, ls, old, new, charged) ==
  /\ P \in Seq(OwnPiece(X, f, limit)) /\ ls \in Seq(AnyLine)
  /\ old \in Nat /\ new \in Nat /\ charged \in Nat
  /\ Lines(X, P) \o NumberedFrom(old, new, ls) = Wanted(h, b, limit)
  /\ old + OldLines(ls) = h.old + OldLines(b)
  /\ new + NewLines(ls) = h.new + NewLines(b)
  /\ ls # <<>> => HeaderBytes(old, new, ls) + Bytes(ls) <= limit
  /\ Bytes(ls) <= charged
  /\ Charges(X, P) + charged <= HeaderBytes(h.old, h.new, h.lines) + Weigh(Wanted(h, b, limit))

LEMMA OneMoreLine ==
  ASSUME NEW h \in AnyHunk, NEW limit \in Nat, NEW b \in Seq(AnyLine), NEW l \in AnyLine
  PROVE  /\ Append(b, l) \in Seq(AnyLine)
         /\ Wanted(h, b, limit) \in Seq(PlacedLine) /\ Placing(h, b) \in Seq(PlacedLine)
         /\ LineOf(h, b, l) \in PlacedLine
         /\ Placing(h, Append(b, l)) = Append(Placing(h, b), LineOf(h, b, l))
         /\ LineOf(h, b, l) \in Fit(limit) =>
              Wanted(h, Append(b, l), limit) = Append(Wanted(h, b, limit), LineOf(h, b, l))
         /\ LineOf(h, b, l) \notin Fit(limit) => Wanted(h, Append(b, l), limit) = Wanted(h, b, limit)
<1>1. h.old \in Nat /\ h.new \in Nat
  BY DEF AnyHunk
<1>2. /\ Placing(h, b) \in Seq(PlacedLine) /\ LineOf(h, b, l) \in PlacedLine
      /\ Placing(h, Append(b, l)) = Append(Placing(h, b), LineOf(h, b, l))
  BY <1>1, NumAppend DEF Placing, LineOf
<1>3. Chosen(Append(Placing(h, b), LineOf(h, b, l)), Fit(limit))
        = IF LineOf(h, b, l) \in Fit(limit) THEN Append(Wanted(h, b, limit), LineOf(h, b, l)) ELSE Wanted(h, b, limit)
  BY <1>2, ChosenAppend DEF Wanted
<1>4. Wanted(h, b, limit) \in Seq(PlacedLine)
  <2>1. Wanted(h, b, limit) \in Seq(PlacedLine \cap Fit(limit))
    BY <1>2, ChosenType DEF Wanted
  <2>2. PlacedLine \cap Fit(limit) \subseteq PlacedLine
    OBVIOUS
  <2> QED BY <2>1, <2>2, SeqMonotonic
<1>5. Wanted(h, Append(b, l), limit) = Chosen(Append(Placing(h, b), LineOf(h, b, l)), Fit(limit))
  BY <1>2 DEF Wanted
<1> QED BY <1>2, <1>3, <1>4, <1>5, AppendProperties

LEMMA CutStart ==
  ASSUME NEW X, NEW f, NEW h \in AnyHunk, NEW limit \in Nat
  PROVE  CutOK(X, f, h, limit, <<>>, <<>>, <<>>, h.old, h.new, HeaderBytes(h.old, h.new, h.lines))
<1>1. h.old \in Nat /\ h.new \in Nat /\ h.lines \in Seq(AnyLine)
  BY DEF AnyHunk
<1>2. HeaderBytes(h.old, h.new, h.lines) \in Nat
  BY <1>1, HeaderType
<1>3. Placing(h, <<>>) = <<>> /\ Wanted(h, <<>>, limit) = <<>> /\ NumberedFrom(h.old, h.new, <<>>) = <<>>
  BY NumNone, ChosenEmpty DEF Placing, Wanted
<1>4. <<>> \in Seq(OwnPiece(X, f, limit)) /\ <<>> \in Seq(AnyLine)
  BY EmptySeq
<1>5. Lines(X, <<>>) \o NumberedFrom(h.old, h.new, <<>>) = Wanted(h, <<>>, limit)
  <2>1. <<>> \o <<>> = <<>>
    OBVIOUS
  <2> QED BY <1>3, <2>1, NoPieces
<1>6. /\ Charges(X, <<>>) + HeaderBytes(h.old, h.new, h.lines)
           <= HeaderBytes(h.old, h.new, h.lines) + Weigh(Wanted(h, <<>>, limit))
      /\ Bytes(<<>>) <= HeaderBytes(h.old, h.new, h.lines)
  BY <1>2, <1>3, NoPieces, CountNone, WeighNone
<1> QED BY <1>1, <1>2, <1>3, <1>4, <1>5, <1>6 DEF CutOK

LEMMA CloseKeeps ==
  ASSUME NEW X, NEW f, IsFile(f), f.path \in X, NEW h \in AnyHunk, NEW limit \in Nat, NEW b \in Seq(AnyLine),
         NEW P, NEW ls, NEW old, NEW new, NEW charged,
         CutOK(X, f, h, limit, b, P, ls, old, new, charged), ls # <<>>,
         NEW p, p = Piece(f, <<[old |-> old, new |-> new, heading |-> 0, omitted |-> 0, lines |-> ls]>>, <<>>, charged)
  PROVE  CutOK(X, f, h, limit, b, Append(P, p), <<>>, old + OldLines(ls), new + NewLines(ls), 0)
<1>1. /\ P \in Seq(OwnPiece(X, f, limit)) /\ ls \in Seq(AnyLine)
      /\ old \in Nat /\ new \in Nat /\ charged \in Nat
      /\ Lines(X, P) \o NumberedFrom(old, new, ls) = Wanted(h, b, limit)
      /\ old + OldLines(ls) = h.old + OldLines(b)
      /\ new + NewLines(ls) = h.new + NewLines(b)
      /\ HeaderBytes(old, new, ls) + Bytes(ls) <= limit /\ Bytes(ls) <= charged
      /\ Charges(X, P) + charged <= HeaderBytes(h.old, h.new, h.lines) + Weigh(Wanted(h, b, limit))
  BY DEF CutOK
<1>2. /\ p \in OwnPiece(X, f, limit) /\ p.charged = charged /\ Parsed(p) = NumberedFrom(old, new, ls)
  BY <1>1, CutPieceIs
<1>3. /\ Append(P, p) \in Seq(OwnPiece(X, f, limit))
      /\ P \in Seq(AnyPiece(X)) /\ p \in AnyPiece(X)
  <2>1. OwnPiece(X, f, limit) \subseteq AnyPiece(X)
    BY DEF OwnPiece
  <2> QED BY <1>1, <1>2, <2>1, AppendProperties, OwnIsPiece
<1>4. /\ Lines(X, P) \in Seq(PlacedLine) /\ Charges(X, P) \in Nat
      /\ Lines(X, Append(P, p)) = Lines(X, P) \o Parsed(p)
      /\ Charges(X, Append(P, p)) = Charges(X, P) + p.charged
  BY <1>3, OneMorePiece
<1>5. OldLines(ls) \in Nat /\ NewLines(ls) \in Nat
  BY <1>1, CountType
<1>6. old + OldLines(ls) \in Nat /\ new + NewLines(ls) \in Nat
  BY <1>1, <1>5
<1>7. Lines(X, Append(P, p)) \o NumberedFrom(old + OldLines(ls), new + NewLines(ls), <<>>) = Wanted(h, b, limit)
  <2>1. Lines(X, Append(P, p)) = Wanted(h, b, limit)
    BY <1>1, <1>2, <1>4
  <2>2. Wanted(h, b, limit) \in Seq(PlacedLine)
    <3>1. NumberedFrom(old, new, ls) \in Seq(PlacedLine)
      BY <1>1, NumType
    <3> QED BY <1>1, <1>4, <3>1, ConcatProperties
  <2> QED BY <2>1, <2>2, NumNone, ConcatEmptySeq
<1>8. /\ (old + OldLines(ls)) + OldLines(<<>>) = h.old + OldLines(b)
      /\ (new + NewLines(ls)) + NewLines(<<>>) = h.new + NewLines(b)
  BY <1>1, <1>6, CountNone
<1>9. Charges(X, Append(P, p)) + 0 = Charges(X, P) + charged
  <2>1. Charges(X, Append(P, p)) = Charges(X, P) + charged
    BY <1>2, <1>4
  <2>2. Charges(X, P) + charged \in Nat
    BY <1>1, <1>4
  <2>3. \A n \in Nat : n + 0 = n
    OBVIOUS
  <2> QED BY <2>1, <2>2, <2>3
<1>10. <<>> \in Seq(AnyLine) /\ 0 \in Nat /\ Bytes(<<>>) <= 0
  BY EmptySeq, CountNone
<1> QED BY <1>1, <1>3, <1>6, <1>7, <1>8, <1>9, <1>10 DEF CutOK

\* A line that fits.
LEMMA LineAdded ==
  ASSUME NEW X, NEW f, IsFile(f), f.path \in X, NEW h \in AnyHunk, NEW limit \in Nat, NEW b \in Seq(AnyLine),
         NEW P, NEW ls, NEW old, NEW new, NEW charged, NEW l \in AnyLine,
         CutOK(X, f, h, limit, b, P, ls, old, new, charged),
         HeaderBytes(old, new, Append(ls, l)) + Bytes(Append(ls, l)) <= limit
  PROVE  CutOK(X, f, h, limit, Append(b, l), P, Append(ls, l), old, new, charged + l.bytes)
<1> DEFINE q == LineOf(h, b, l)
           N == NumberedFrom(old, new, ls)
           head == HeaderBytes(h.old, h.new, h.lines)
           c == Charges(X, P)
<1>1. /\ P \in Seq(OwnPiece(X, f, limit)) /\ ls \in Seq(AnyLine)
      /\ old \in Nat /\ new \in Nat /\ charged \in Nat
      /\ Lines(X, P) \o N = Wanted(h, b, limit)
      /\ old + OldLines(ls) = h.old + OldLines(b)
      /\ new + NewLines(ls) = h.new + NewLines(b)
      /\ Bytes(ls) <= charged
      /\ c + charged <= head + Weigh(Wanted(h, b, limit))
  BY DEF CutOK
<1>2. P \in Seq(AnyPiece(X)) /\ Lines(X, P) \in Seq(PlacedLine) /\ c \in Nat
  <2>1. P \in Seq(AnyPiece(X))
    BY <1>1, OwnIsPiece
  <2>2. Maps(ParseOf(X), AnyPiece(X), Seq(PlacedLine)) /\ Maps(ChargeOf(X), AnyPiece(X), Nat)
    BY PieceTypes
  <2>3. Lines(X, P) \in Seq(PlacedLine)
    BY <2>1, <2>2, FlatMapConcat DEF Lines
  <2>4. c \in Nat
    BY <2>1, <2>2, TotalType DEF Charges
  <2> QED BY <2>1, <2>3, <2>4
<1>3. /\ N \in Seq(PlacedLine)
      /\ NumberedFrom(old, new, Append(ls, l)) = Append(N, Placed(l, old + OldLines(ls), new + NewLines(ls)))
  BY <1>1, NumAppend
<1>4. Placed(l, old + OldLines(ls), new + NewLines(ls)) \in Fit(limit)
  BY <1>1, FitBehind
<1>5. Placed(l, old + OldLines(ls), new + NewLines(ls)) = q
  BY <1>1 DEF LineOf
<1>6. /\ q \in PlacedLine /\ q \in Fit(limit) /\ Append(b, l) \in Seq(AnyLine)
      /\ Placing(h, Append(b, l)) = Append(Placing(h, b), q)
      /\ Wanted(h, Append(b, l), limit) = Append(Wanted(h, b, limit), q)
  BY <1>4, <1>5, OneMoreLine
<1>7. Lines(X, P) \o NumberedFrom(old, new, Append(ls, l)) = Wanted(h, Append(b, l), limit)
  <2>1. Lines(X, P) \o Append(N, q) = Append(Lines(X, P) \o N, q)
    <3> DEFINE L == Lines(X, P)
    <3>1. L \in Seq(PlacedLine) /\ N \in Seq(PlacedLine) /\ q \in PlacedLine
      BY <1>2, <1>3, <1>6
    <3> HIDE DEF L, N, q
    <3>2. L \o Append(N, q) = Append(L \o N, q)
      BY <3>1, AppendBehind
    <3> QED BY <3>2 DEF L
  <2> QED BY <1>1, <1>3, <1>5, <1>6, <2>1
<1>8. /\ OldLines(Append(ls, l)) = OldLines(ls) + (IF l.kind # "added" THEN 1 ELSE 0)
      /\ OldLines(Append(b, l)) = OldLines(b) + (IF l.kind # "added" THEN 1 ELSE 0)
      /\ NewLines(Append(ls, l)) = NewLines(ls) + (IF l.kind # "removed" THEN 1 ELSE 0)
      /\ NewLines(Append(b, l)) = NewLines(b) + (IF l.kind # "removed" THEN 1 ELSE 0)
      /\ OldLines(ls) \in Nat /\ OldLines(b) \in Nat /\ NewLines(ls) \in Nat /\ NewLines(b) \in Nat
  BY <1>1, OldNewAppend
<1>9. /\ h.old \in Nat /\ h.new \in Nat /\ h.lines \in Seq(AnyLine) /\ l.bytes \in Nat /\ head \in Nat
      /\ Bytes(ls) \in Nat /\ Bytes(Append(ls, l)) = Bytes(ls) + l.bytes
  <2>1. h.old \in Nat /\ h.new \in Nat /\ h.lines \in Seq(AnyLine) /\ l.bytes \in Nat
    BY DEF AnyHunk, AnyLine
  <2> QED BY <1>1, <2>1, HeaderType, BytesBound, BytesAppend
<1>10. /\ old + OldLines(Append(ls, l)) = h.old + OldLines(Append(b, l))
       /\ new + NewLines(Append(ls, l)) = h.new + NewLines(Append(b, l))
  <2> DEFINE u == IF l.kind # "added" THEN 1 ELSE 0
             v == IF l.kind # "removed" THEN 1 ELSE 0
  <2>1. u \in Nat /\ v \in Nat
    OBVIOUS
  <2>2. /\ OldLines(Append(ls, l)) = OldLines(ls) + u /\ OldLines(Append(b, l)) = OldLines(b) + u
        /\ NewLines(Append(ls, l)) = NewLines(ls) + v /\ NewLines(Append(b, l)) = NewLines(b) + v
    BY <1>8
  <2> HIDE DEF u, v
  <2>4. old + (OldLines(ls) + u) = h.old + (OldLines(b) + u)
    <3>1. old \in Nat /\ OldLines(ls) \in Nat /\ h.old \in Nat /\ OldLines(b) \in Nat
      BY <1>1, <1>8, <1>9
    <3>2. old + OldLines(ls) = h.old + OldLines(b)
      BY <1>1
    <3> DEFINE n == OldLines(ls)
               r == h.old
               t == OldLines(b)
    <3>3. n \in Nat /\ r \in Nat /\ t \in Nat /\ old + n = r + t
      BY <3>1, <3>2
    <3> HIDE DEF n, r, t
    <3>4. old + (n + u) = r + (t + u)
      BY ONLY <2>1, <3>1, <3>3
    <3> QED BY <3>4 DEF n, r, t
  <2>5. new + (NewLines(ls) + v) = h.new + (NewLines(b) + v)
    <3>1. new \in Nat /\ NewLines(ls) \in Nat /\ h.new \in Nat /\ NewLines(b) \in Nat
      BY <1>1, <1>8, <1>9
    <3>2. new + NewLines(ls) = h.new + NewLines(b)
      BY <1>1
    <3> DEFINE n == NewLines(ls)
               r == h.new
               t == NewLines(b)
    <3>3. n \in Nat /\ r \in Nat /\ t \in Nat /\ new + n = r + t
      BY <3>1, <3>2
    <3> HIDE DEF n, r, t
    <3>4. new + (n + v) = r + (t + v)
      BY ONLY <2>1, <3>1, <3>3
    <3> QED BY <3>4 DEF n, r, t
  <2> QED BY <2>2, <2>4, <2>5
<1>11. /\ c + (charged + l.bytes) <= head + Weigh(Wanted(h, Append(b, l), limit))
       /\ charged + l.bytes \in Nat /\ Bytes(Append(ls, l)) <= charged + l.bytes
  <2> DEFINE e == Weigh(Wanted(h, Append(b, l), limit))
             d == Weigh(Wanted(h, b, limit))
  <2>0. q.bytes = l.bytes /\ Wanted(h, b, limit) \in Seq(PlacedLine)
    BY OneMoreLine DEF LineOf, Placed
  <2>1. d \in Nat /\ e = d + l.bytes
    <3> HIDE DEF q
    <3> QED BY <1>6, <2>0, WeighAppend
  <2>2. c \in Nat /\ head \in Nat /\ charged \in Nat /\ l.bytes \in Nat /\ c + charged <= head + d
    BY <1>1, <1>2, <1>9
  <2> HIDE DEF c, head, d, e
  <2>3. c + (charged + l.bytes) <= head + e /\ charged + l.bytes \in Nat
    BY <2>1, <2>2
  <2>4. Bytes(Append(ls, l)) <= charged + l.bytes
    BY <1>1, <1>9
  <2> QED BY <2>3, <2>4 DEF e
<1>13. Append(ls, l) \in Seq(AnyLine)
  BY <1>1, AppendProperties
<1> QED BY <1>1, <1>7, <1>10, <1>11, <1>13 DEF CutOK

\* A line that cannot be sent.
LEMMA LineMissed ==
  ASSUME NEW X, NEW f, IsFile(f), f.path \in X, NEW h \in AnyHunk, NEW limit \in Nat, NEW b \in Seq(AnyLine),
         NEW P, NEW old, NEW new, NEW charged, NEW l \in AnyLine,
         CutOK(X, f, h, limit, b, P, <<>>, old, new, charged),
         ~(HeaderBytes(old, new, <<l>>) + Bytes(<<l>>) <= limit)
  PROVE  CutOK(X, f, h, limit, Append(b, l), Append(P, Unsendable(f)), <<>>,
               old + OldLines(<<l>>), new + NewLines(<<l>>), 0)
<1> DEFINE q == LineOf(h, b, l)
           head == HeaderBytes(h.old, h.new, h.lines)
           c == Charges(X, P)
           u == Unsendable(f)
<1>1. /\ P \in Seq(OwnPiece(X, f, limit))
      /\ old \in Nat /\ new \in Nat /\ charged \in Nat
      /\ Lines(X, P) \o NumberedFrom(old, new, <<>>) = Wanted(h, b, limit)
      /\ old + OldLines(<<>>) = h.old + OldLines(b)
      /\ new + NewLines(<<>>) = h.new + NewLines(b)
      /\ c + charged <= head + Weigh(Wanted(h, b, limit))
  BY DEF CutOK
<1>2. /\ u \in OwnPiece(X, f, limit) /\ u.charged = 0 /\ Parsed(u) = <<>>
      /\ P \in Seq(AnyPiece(X)) /\ u \in AnyPiece(X) /\ Append(P, u) \in Seq(OwnPiece(X, f, limit))
  <2>1. u \in OwnPiece(X, f, limit) /\ u.charged = 0 /\ Parsed(u) = <<>>
    BY UnsendableIs
  <2>2. OwnPiece(X, f, limit) \subseteq AnyPiece(X)
    BY DEF OwnPiece
  <2> HIDE DEF u
  <2> QED BY <1>1, <2>1, <2>2, AppendProperties, OwnIsPiece
<1>3. /\ Lines(X, P) \in Seq(PlacedLine) /\ c \in Nat
      /\ Lines(X, Append(P, u)) = Lines(X, P) \o <<>>
      /\ Charges(X, Append(P, u)) = c + 0
  <2> HIDE DEF u
  <2> QED BY <1>2, OneMorePiece
<1>4. h.old + OldLines(b) = old /\ h.new + NewLines(b) = new
  BY <1>1, CountNone
<1>5. q \notin Fit(limit)
  BY <1>1, <1>4, FitOne DEF LineOf
<1>6. /\ Append(b, l) \in Seq(AnyLine) /\ Wanted(h, b, limit) \in Seq(PlacedLine)
      /\ Wanted(h, Append(b, l), limit) = Wanted(h, b, limit)
  BY <1>5, OneMoreLine
<1>7. Lines(X, Append(P, u)) \o NumberedFrom(old + OldLines(<<l>>), new + NewLines(<<l>>), <<>>)
        = Wanted(h, Append(b, l), limit)
  <2>1. Lines(X, P) \o <<>> = Lines(X, P)
    BY <1>3, ConcatEmptySeq
  <2>2. Lines(X, P) = Wanted(h, b, limit)
    BY <1>1, <2>1, NumNone
  <2> QED BY <1>3, <1>6, <2>1, <2>2, NumNone
<1>8. /\ OldLines(<<l>>) = (IF l.kind # "added" THEN 1 ELSE 0)
      /\ OldLines(Append(b, l)) = OldLines(b) + (IF l.kind # "added" THEN 1 ELSE 0)
      /\ NewLines(<<l>>) = (IF l.kind # "removed" THEN 1 ELSE 0)
      /\ NewLines(Append(b, l)) = NewLines(b) + (IF l.kind # "removed" THEN 1 ELSE 0)
      /\ OldLines(b) \in Nat /\ NewLines(b) \in Nat
  BY OneLine, OldNewAppend
<1>9. h.old \in Nat /\ h.new \in Nat /\ head \in Nat /\ Weigh(Wanted(h, b, limit)) \in Nat
  <2>1. h.old \in Nat /\ h.new \in Nat /\ h.lines \in Seq(AnyLine)
    BY DEF AnyHunk
  <2>2. Weigh(Wanted(h, b, limit)) \in Nat
    BY <1>6, BytesOfMaps, TotalType DEF Weigh
  <2> QED BY <2>1, <2>2, HeaderType
<1>10. /\ (old + OldLines(<<l>>)) + OldLines(<<>>) = h.old + OldLines(Append(b, l))
       /\ (new + NewLines(<<l>>)) + NewLines(<<>>) = h.new + NewLines(Append(b, l))
       /\ old + OldLines(<<l>>) \in Nat /\ new + NewLines(<<l>>) \in Nat
  <2> DEFINE w == IF l.kind # "added" THEN 1 ELSE 0
             v == IF l.kind # "removed" THEN 1 ELSE 0
  <2>1. w \in Nat /\ v \in Nat
    OBVIOUS
  <2>2. /\ OldLines(<<l>>) = w /\ OldLines(Append(b, l)) = OldLines(b) + w
        /\ NewLines(<<l>>) = v /\ NewLines(Append(b, l)) = NewLines(b) + v
    BY <1>8
  <2> HIDE DEF w, v
  <2>3. \A m, n, r, k \in Nat : r + n = m => (m + k) + 0 = r + (n + k) /\ m + k \in Nat
    OBVIOUS
  <2>4. (old + w) + 0 = h.old + (OldLines(b) + w) /\ old + w \in Nat
    <3>1. old \in Nat /\ h.old \in Nat /\ OldLines(b) \in Nat /\ h.old + OldLines(b) = old
      BY <1>1, <1>4, <1>8, <1>9
    <3> QED BY <2>1, <2>3, <3>1
  <2>5. (new + v) + 0 = h.new + (NewLines(b) + v) /\ new + v \in Nat
    <3>1. new \in Nat /\ h.new \in Nat /\ NewLines(b) \in Nat /\ h.new + NewLines(b) = new
      BY <1>1, <1>4, <1>8, <1>9
    <3> QED BY <2>1, <2>3, <3>1
  <2> QED BY <2>2, <2>4, <2>5, CountNone
<1>12. <<>> \in Seq(AnyLine) /\ 0 \in Nat /\ Bytes(<<>>) <= 0
  BY EmptySeq, CountNone
<1>13. Charges(X, Append(P, u)) + 0 <= head + Weigh(Wanted(h, Append(b, l), limit))
  <2> HIDE DEF c, head, u
  <2> QED BY <1>1, <1>3, <1>6, <1>9
<1> HIDE DEF u
<1>14. CutOK(X, f, h, limit, Append(b, l), Append(P, u), <<>>, old + OldLines(<<l>>), new + NewLines(<<l>>), 0)
  BY <1>2, <1>7, <1>10, <1>12, <1>13 DEF CutOK
<1> QED BY <1>14 DEF u

CutStates(X, f, limit) ==
  [pieces : Seq(OwnPiece(X, f, limit)), lines : Seq(AnyLine), old : Nat, new : Nat, charged : Nat]

CutIs(X, f, h, limit, b, cut) ==
  /\ cut \in CutStates(X, f, limit)
  /\ CutOK(X, f, h, limit, b, cut.pieces, cut.lines, cut.old, cut.new, cut.charged)

LEMMA FirstKeeps ==
  ASSUME NEW X, NEW f, IsFile(f), f.path \in X, NEW h \in AnyHunk, NEW limit \in Nat, NEW b \in Seq(AnyLine),
         NEW cut, CutIs(X, f, h, limit, b, cut), cut.lines = <<>>, NEW l \in AnyLine
  PROVE  CutIs(X, f, h, limit, Append(b, l), FirstLine(f, cut, l, limit))
<1> DEFINE to == FirstLine(f, cut, l, limit)
<1>0. cut \in CutStates(X, f, limit)
  BY DEF CutIs
<1>1. CutOK(X, f, h, limit, b, cut.pieces, <<>>, cut.old, cut.new, cut.charged)
  BY DEF CutIs
<1>2. <<l>> = Append(<<>>, l) /\ l.bytes \in Nat
  BY DEF AnyLine
<1>3. CASE HeaderBytes(cut.old, cut.new, <<l>>) + Bytes(<<l>>) <= limit
  <2>1. CutOK(X, f, h, limit, Append(b, l), cut.pieces, Append(<<>>, l), cut.old, cut.new, cut.charged + l.bytes)
    BY <1>1, <1>2, <1>3, LineAdded
  <2>2. to = [cut EXCEPT !.lines = <<l>>, !.charged = cut.charged + l.bytes]
    BY <1>3 DEF FirstLine, Fits
  <2> HIDE DEF to
  <2>3. /\ to.pieces = cut.pieces /\ to.lines = <<l>> /\ to.old = cut.old /\ to.new = cut.new
        /\ to.charged = cut.charged + l.bytes
    BY <1>0, <2>2 DEF CutStates
  <2>4. to \in CutStates(X, f, limit)
    <3>1. <<l>> \in Seq(AnyLine) /\ cut.charged + l.bytes \in Nat
      <4>1. <<l>> \in Seq(AnyLine)
        BY <1>2, EmptySeq, AppendProperties
      <4> QED BY <1>0, <1>2, <4>1 DEF CutStates
    <3> QED BY <1>0, <2>2, <3>1 DEF CutStates
  <2> QED BY <1>2, <2>1, <2>3, <2>4 DEF CutIs, to
<1>4. CASE ~(HeaderBytes(cut.old, cut.new, <<l>>) + Bytes(<<l>>) <= limit)
  <2> DEFINE u == Unsendable(f)
             P == Append(cut.pieces, u)
             o == cut.old + OldLines(<<l>>)
             n == cut.new + NewLines(<<l>>)
  <2>1. CutOK(X, f, h, limit, Append(b, l), P, <<>>, o, n, 0)
    BY <1>1, <1>4, LineMissed
  <2>2. to = [pieces |-> P, lines |-> <<>>, old |-> o, new |-> n, charged |-> 0]
    BY <1>4 DEF FirstLine, Fits, Past
  <2> HIDE DEF to, P, o, n
  <2>3. to.pieces = P /\ to.lines = <<>> /\ to.old = o /\ to.new = n /\ to.charged = 0
    BY <2>2
  <2>4. P \in Seq(OwnPiece(X, f, limit)) /\ o \in Nat /\ n \in Nat /\ <<>> \in Seq(AnyLine) /\ 0 \in Nat
    BY <2>1 DEF CutOK
  <2>5. to \in CutStates(X, f, limit)
    BY <2>2, <2>4 DEF CutStates
  <2> QED BY <2>1, <2>3, <2>5 DEF CutIs, to
<1> QED BY <1>3, <1>4

LEMMA CloseCutKeeps ==
  ASSUME NEW X, NEW f, IsFile(f), f.path \in X, NEW h \in AnyHunk, NEW limit \in Nat, NEW b \in Seq(AnyLine),
         NEW cut, CutIs(X, f, h, limit, b, cut), cut.lines # <<>>
  PROVE  CutIs(X, f, h, limit, b, CloseCut(f, cut)) /\ CloseCut(f, cut).lines = <<>>
<1> DEFINE to == CloseCut(f, cut)
           p == Piece(f, <<[old |-> cut.old, new |-> cut.new, heading |-> 0, omitted |-> 0, lines |-> cut.lines]>>,
                      <<>>, cut.charged)
           P == Append(cut.pieces, p)
           o == cut.old + OldLines(cut.lines)
           n == cut.new + NewLines(cut.lines)
<1>1. CutOK(X, f, h, limit, b, cut.pieces, cut.lines, cut.old, cut.new, cut.charged)
  BY DEF CutIs
<1>2. CutOK(X, f, h, limit, b, P, <<>>, o, n, 0)
  BY <1>1, CloseKeeps
<1>3. to = [pieces |-> P, lines |-> <<>>, old |-> o, new |-> n, charged |-> 0]
  BY DEF CloseCut, CutHunk, Past
<1> HIDE DEF to, P, o, n
<1>4. to.pieces = P /\ to.lines = <<>> /\ to.old = o /\ to.new = n /\ to.charged = 0
  BY <1>3
<1>5. P \in Seq(OwnPiece(X, f, limit)) /\ o \in Nat /\ n \in Nat /\ <<>> \in Seq(AnyLine) /\ 0 \in Nat
  BY <1>2 DEF CutOK
<1>6. to \in CutStates(X, f, limit)
  BY <1>3, <1>5 DEF CutStates
<1> QED BY <1>2, <1>4, <1>6 DEF CutIs, to

LEMMA CutLineKeeps ==
  ASSUME NEW X, NEW f, IsFile(f), f.path \in X, NEW h \in AnyHunk, NEW limit \in Nat, NEW b \in Seq(AnyLine),
         NEW cut, CutIs(X, f, h, limit, b, cut), NEW l \in AnyLine
  PROVE  CutIs(X, f, h, limit, Append(b, l), CutLine(f, cut, l, limit))
<1> DEFINE to == CutLine(f, cut, l, limit)
           more == Append(cut.lines, l)
<1>0. cut \in CutStates(X, f, limit) /\ l.bytes \in Nat
  BY DEF CutIs, AnyLine
<1>1. CASE cut.lines = <<>>
  BY <1>1, FirstKeeps DEF CutLine
<1>2. CASE cut.lines # <<>> /\ HeaderBytes(cut.old, cut.new, more) + Bytes(more) <= limit
  <2>1. CutOK(X, f, h, limit, b, cut.pieces, cut.lines, cut.old, cut.new, cut.charged)
    BY DEF CutIs
  <2>2. CutOK(X, f, h, limit, Append(b, l), cut.pieces, more, cut.old, cut.new, cut.charged + l.bytes)
    BY <1>2, <2>1, LineAdded
  <2>3. to = [cut EXCEPT !.lines = more, !.charged = cut.charged + l.bytes]
    BY <1>2 DEF CutLine, Fits
  <2>4. more \in Seq(AnyLine) /\ cut.charged + l.bytes \in Nat
    BY <1>0, AppendProperties DEF CutStates
  <2> HIDE DEF to, more
  <2>5. /\ to.pieces = cut.pieces /\ to.lines = more /\ to.old = cut.old /\ to.new = cut.new
        /\ to.charged = cut.charged + l.bytes
    BY <1>0, <2>3 DEF CutStates
  <2>6. to \in CutStates(X, f, limit)
    BY <1>0, <2>3, <2>4 DEF CutStates
  <2> QED BY <2>2, <2>5, <2>6 DEF CutIs, to
<1>3. CASE cut.lines # <<>> /\ ~(HeaderBytes(cut.old, cut.new, more) + Bytes(more) <= limit)
  <2>1. CutIs(X, f, h, limit, b, CloseCut(f, cut)) /\ CloseCut(f, cut).lines = <<>>
    BY <1>3, CloseCutKeeps
  <2>2. to = FirstLine(f, CloseCut(f, cut), l, limit)
    BY <1>3 DEF CutLine, Fits
  <2> QED BY <2>1, <2>2, FirstKeeps
<1> QED BY <1>1, <1>2, <1>3

CutStep(c, cut, line) == CutLine(c[1], cut, line, c[2])
Cutting == INSTANCE FoldFacts WITH Op <- CutStep

LEMMA HunkPiecesIs ==
  ASSUME NEW f, NEW h, NEW limit
  PROVE  LET end == Cutting!Result(<<f, limit>>, CutAt(h), h.lines)
         IN  HunkPieces(f, h, limit) = IF end.lines = <<>> THEN end.pieces ELSE CloseCut(f, end).pieces
<1> QED BY DEF HunkPieces, FoldLeft, MapThenFoldSet, Cutting!Result, CutStep, Cutting!Max, Max

LEMMA CutAll ==
  ASSUME NEW X, NEW f, IsFile(f), f.path \in X, NEW h \in AnyHunk, NEW limit \in Nat
  PROVE  \A b \in Seq(AnyLine) : CutIs(X, f, h, limit, b, Cutting!Result(<<f, limit>>, CutAt(h), b))
<1> DEFINE G == {b \in Seq(AnyLine) : CutIs(X, f, h, limit, b, Cutting!Result(<<f, limit>>, CutAt(h), b))}
<1>1. <<>> \in G
  <2> DEFINE cut == CutAt(h)
             c == HeaderBytes(h.old, h.new, h.lines)
  <2>1. CutOK(X, f, h, limit, <<>>, <<>>, <<>>, h.old, h.new, c)
    BY CutStart
  <2>2. h.old \in Nat /\ h.new \in Nat /\ c \in Nat
    BY HeaderType DEF AnyHunk
  <2>3. cut = [pieces |-> <<>>, lines |-> <<>>, old |-> h.old, new |-> h.new, charged |-> c]
    BY DEF CutAt
  <2> HIDE DEF cut, c
  <2>4. cut.pieces = <<>> /\ cut.lines = <<>> /\ cut.old = h.old /\ cut.new = h.new /\ cut.charged = c
    BY <2>3
  <2>5. cut \in CutStates(X, f, limit)
    <3>1. <<>> \in Seq(OwnPiece(X, f, limit)) /\ <<>> \in Seq(AnyLine)
      BY EmptySeq
    <3> QED BY <2>2, <2>3, <3>1 DEF CutStates
  <2>6. CutIs(X, f, h, limit, <<>>, cut)
    BY <2>1, <2>4, <2>5 DEF CutIs
  <2>7. Cutting!Result(<<f, limit>>, CutAt(h), <<>>) = CutAt(h)
    BY Cutting!FoldEmpty
  <2> QED BY <2>6, <2>7, EmptySeq DEF cut
<1>2. ASSUME NEW b \in Seq(AnyLine), NEW l \in AnyLine, b \in G PROVE Append(b, l) \in G
  <2> DEFINE cut == Cutting!Result(<<f, limit>>, CutAt(h), b)
  <2>1. CutIs(X, f, h, limit, b, cut)
    BY <1>2
  <2>2. Cutting!Result(<<f, limit>>, CutAt(h), Append(b, l)) = CutLine(f, cut, l, limit)
    <3>1. Cutting!Result(<<f, limit>>, CutAt(h), Append(b, l)) = CutStep(<<f, limit>>, cut, l)
      BY Cutting!FoldAppend
    <3> QED BY <3>1 DEF CutStep
  <2> HIDE DEF cut
  <2>3. CutIs(X, f, h, limit, Append(b, l), CutLine(f, cut, l, limit))
    BY <2>1, CutLineKeeps
  <2> QED BY <2>2, <2>3, AppendProperties
<1> HIDE DEF G
<1>3. Seq(AnyLine) \subseteq G
  BY <1>1, <1>2, SeqInduction
<1> QED BY <1>3 DEF G

\* The pieces of a hunk are within the limit and have all of its lines that
\* can be sent; they are charged for its header and for these lines at most.
LEMMA HunkCut ==
  ASSUME NEW X, NEW f, IsFile(f), f.path \in X, NEW h \in AnyHunk, NEW limit \in Nat
  PROVE  LET ps == HunkPieces(f, h, limit)
         IN  /\ ps \in Seq(OwnPiece(X, f, limit))
             /\ Lines(X, ps) = Chosen(Numbered(h), Fit(limit))
             /\ Charges(X, ps) + Weigh(Numbered(h)) <= WrittenBytes(h) + Weigh(Chosen(Numbered(h), Fit(limit)))
<1> DEFINE end == Cutting!Result(<<f, limit>>, CutAt(h), h.lines)
           ps == HunkPieces(f, h, limit)
           last == IF end.lines = <<>> THEN end ELSE CloseCut(f, end)
<1>1. h.lines \in Seq(AnyLine)
  BY DEF AnyHunk
<1>2. CutIs(X, f, h, limit, h.lines, end)
  BY <1>1, CutAll
<1>3. ps = last.pieces
  BY HunkPiecesIs
<1> HIDE DEF ps, end
<1>4. CutIs(X, f, h, limit, h.lines, last) /\ last.lines = <<>>
  BY <1>1, <1>2, CloseCutKeeps
<1> HIDE DEF last
<1>5. /\ last.charged \in Nat /\ ps \in Seq(OwnPiece(X, f, limit))
      /\ Lines(X, ps) \o NumberedFrom(last.old, last.new, <<>>) = Wanted(h, h.lines, limit)
      /\ Charges(X, ps) + last.charged <= HeaderBytes(h.old, h.new, h.lines) + Weigh(Wanted(h, h.lines, limit))
  BY <1>3, <1>4 DEF CutIs, CutOK
<1>6. Lines(X, ps) \in Seq(PlacedLine) /\ Charges(X, ps) \in Nat
  <2>1. ps \in Seq(AnyPiece(X))
    BY <1>5, OwnIsPiece
  <2>2. Maps(ParseOf(X), AnyPiece(X), Seq(PlacedLine)) /\ Maps(ChargeOf(X), AnyPiece(X), Nat)
    BY PieceTypes
  <2> QED BY <2>1, <2>2, FlatMapConcat, TotalType DEF Lines, Charges
<1>7. Lines(X, ps) = Wanted(h, h.lines, limit)
  BY <1>5, <1>6, NumNone, ConcatEmptySeq
<1>8. Wanted(h, h.lines, limit) = Chosen(Numbered(h), Fit(limit))
  BY NumOfHunk DEF Wanted, Placing
<1>9. /\ WrittenBytes(h) = HeaderBytes(h.old, h.new, h.lines) + Bytes(h.lines) /\ Weigh(Numbered(h)) = Bytes(h.lines)
      /\ HeaderBytes(h.old, h.new, h.lines) \in Nat /\ Bytes(h.lines) \in Nat
  <2>1. h.old \in Nat /\ h.new \in Nat
    BY DEF AnyHunk
  <2> QED BY <1>1, <2>1, HeaderType, BytesBound, SourceType DEF WrittenBytes
<1>10. Weigh(Wanted(h, h.lines, limit)) \in Nat
  <2>1. Numbered(h) \in Seq(PlacedLine)
    BY OneHunk
  <2>2. Weigh(Chosen(Numbered(h), Fit(limit))) \in Nat
    <3>1. Lighter(Chosen(Numbered(h), Fit(limit)), Numbered(h))
      BY <2>1, WeighChosen
    <3> QED BY <3>1 DEF Lighter
  <2> QED BY <1>8, <2>2
<1>11. Charges(X, ps) + Weigh(Numbered(h)) <= WrittenBytes(h) + Weigh(Wanted(h, h.lines, limit))
  <2> DEFINE a == Charges(X, ps)
             g == last.charged
             d == HeaderBytes(h.old, h.new, h.lines)
             e == Weigh(Wanted(h, h.lines, limit))
             k == Bytes(h.lines)
  <2>1. a \in Nat /\ g \in Nat /\ d \in Nat /\ e \in Nat /\ k \in Nat /\ a + g <= d + e
    BY <1>5, <1>6, <1>9, <1>10
  <2> HIDE DEF a, g, d, e, k
  <2>2. a + k <= (d + k) + e
    BY <2>1
  <2> QED BY <1>9, <2>2 DEF a, d, e, k
<1> QED BY <1>5, <1>7, <1>8, <1>11 DEF ps

WrittenOf == [h \in AnyHunk |-> WrittenBytes(h)]
PlainHunk == {h \in AnyHunk : h.heading = 0 /\ h.omitted = 0}

LEMMA HunkMaps ==
  /\ Maps(WrittenOf, AnyHunk, Nat) /\ Maps(WrittenOf, AnyHunk, Int)
  /\ Maps(WeightOf, AnyHunk, Nat) /\ Maps(WeightOf, AnyHunk, Int)
  /\ Maps(OmitOf, AnyHunk, Nat) /\ Maps(OmitOf, AnyHunk, Int)
  /\ Maps(NumberOf, AnyHunk, Seq(PlacedLine))
<1>1. Maps(WrittenOf, AnyHunk, Nat) /\ Maps(WrittenOf, AnyHunk, Int)
  BY WrittenType DEF Maps, WrittenOf
<1>2. Maps(WeightOf, AnyHunk, Nat) /\ Maps(WeightOf, AnyHunk, Int)
  BY WeightOfType DEF Maps
<1>3. Maps(OmitOf, AnyHunk, Nat) /\ Maps(OmitOf, AnyHunk, Int)
  BY SourceType DEF Maps, OmitOf
<1> QED BY <1>1, <1>2, <1>3, NumberOfType

LEMMA OneMoreHunk ==
  ASSUME NEW s \in Seq(AnyHunk), NEW h \in AnyHunk
  PROVE  /\ Append(s, h) \in Seq(AnyHunk)
         /\ Total(WrittenOf, s) \in Nat /\ FlatMap(NumberOf, s) \in Seq(PlacedLine)
         /\ Total(WeightOf, s) \in Nat /\ Total(OmitOf, s) \in Nat
         /\ WrittenBytes(h) \in Nat /\ WrittenBytes(h) > 0 /\ Numbered(h) \in Seq(PlacedLine)
         /\ SourceBytes(h) \in Nat /\ OmittedBytes(h) \in Nat
         /\ Total(WrittenOf, Append(s, h)) = Total(WrittenOf, s) + WrittenBytes(h)
         /\ Total(WeightOf, Append(s, h)) = Total(WeightOf, s) + SourceBytes(h)
         /\ Total(OmitOf, Append(s, h)) = Total(OmitOf, s) + OmittedBytes(h)
         /\ FlatMap(NumberOf, Append(s, h)) = FlatMap(NumberOf, s) \o Numbered(h)
<1>1. WrittenBytes(h) \in Nat /\ WrittenBytes(h) > 0 /\ SourceBytes(h) \in Nat /\ OmittedBytes(h) \in Nat
  BY SourceType
<1>2. /\ WrittenOf[h] = WrittenBytes(h) /\ WeightOf[h] = SourceBytes(h) /\ OmitOf[h] = OmittedBytes(h)
      /\ NumberOf[h] = Numbered(h)
  BY DEF WrittenOf, WeightOf, OmitOf, NumberOf
<1>3. Total(WrittenOf, s) \in Nat /\ Total(WrittenOf, Append(s, h)) = Total(WrittenOf, s) + WrittenOf[h]
  BY HunkMaps, TotalType, TotalAppend
<1>4. Total(WeightOf, s) \in Nat /\ Total(WeightOf, Append(s, h)) = Total(WeightOf, s) + WeightOf[h]
  BY HunkMaps, TotalType, TotalAppend
<1>7. Total(OmitOf, s) \in Nat /\ Total(OmitOf, Append(s, h)) = Total(OmitOf, s) + OmitOf[h]
  BY HunkMaps, TotalType, TotalAppend
<1>5. FlatMap(NumberOf, s) \in Seq(PlacedLine) /\ FlatMap(NumberOf, Append(s, h)) = FlatMap(NumberOf, s) \o NumberOf[h]
  BY HunkMaps, FlatMapAppend
<1>6. NumberOf[h] \in Seq(PlacedLine)
  BY HunkMaps, FValue
<1> QED BY <1>1, <1>2, <1>3, <1>4, <1>5, <1>6, <1>7, AppendProperties

LEMMA NoHunks ==
  /\ Total(WrittenOf, <<>>) = 0 /\ Total(WeightOf, <<>>) = 0 /\ Total(OmitOf, <<>>) = 0
  /\ FlatMap(NumberOf, <<>>) = <<>>
  /\ <<>> \in Seq(AnyHunk)
  BY MapEmpty, EmptySeq

LEMMA HunkTotals ==
  \A s \in Seq(AnyHunk) : /\ Total(WrittenOf, s) \in Nat /\ Total(WeightOf, s) \in Nat /\ Total(OmitOf, s) \in Nat
                          /\ Total(WrittenOf, s) <= Total(WeightOf, s) + Total(OmitOf, s)
                          /\ s # <<>> => Total(WrittenOf, s) > 0
                          /\ FlatMap(NumberOf, s) \in Seq(PlacedLine) /\ Weigh(FlatMap(NumberOf, s)) \in Nat
                          /\ Weigh(FlatMap(NumberOf, s)) <= Total(WeightOf, s)
                          /\ Weigh(FlatMap(NumberOf, s)) <= Total(WrittenOf, s)
<1> DEFINE W(s) == Total(WrittenOf, s)
           S(s) == Total(WeightOf, s)
           O(s) == Total(OmitOf, s)
           L(s) == FlatMap(NumberOf, s)
           G == {s \in Seq(AnyHunk) : /\ W(s) \in Nat /\ S(s) \in Nat /\ O(s) \in Nat
                                      /\ W(s) <= S(s) + O(s)
                                      /\ s # <<>> => W(s) > 0
                                      /\ L(s) \in Seq(PlacedLine) /\ Weigh(L(s)) \in Nat
                                      /\ Weigh(L(s)) <= S(s) /\ Weigh(L(s)) <= W(s)}
<1>1. <<>> \in G
  <2> DEFINE n == <<>>
  <2>1. W(n) = 0 /\ S(n) = 0 /\ O(n) = 0 /\ L(n) = n /\ n \in Seq(AnyHunk)
    BY NoHunks
  <2>2. n \in Seq(PlacedLine) /\ Weigh(n) = 0 /\ n = <<>>
    BY EmptySeq, WeighNone
  <2> HIDE DEF W, S, O, L, n
  <2>4. /\ W(n) \in Nat /\ S(n) \in Nat /\ O(n) \in Nat /\ W(n) <= S(n) + O(n)
        /\ Weigh(L(n)) \in Nat /\ Weigh(L(n)) <= S(n) /\ Weigh(L(n)) <= W(n)
    BY <2>1, <2>2
  <2>3. n \in G
    BY <2>1, <2>2, <2>4
  <2> QED BY <2>2, <2>3
<1>2. ASSUME NEW s \in Seq(AnyHunk), NEW h \in AnyHunk, s \in G PROVE Append(s, h) \in G
  <2> DEFINE r == Append(s, h)
             n == Numbered(h)
             w == WrittenBytes(h)
             d == SourceBytes(h)
             o == OmittedBytes(h)
  <2>1. /\ r \in Seq(AnyHunk) /\ L(s) \in Seq(PlacedLine) /\ n \in Seq(PlacedLine)
        /\ W(r) = W(s) + w /\ S(r) = S(s) + d /\ O(r) = O(s) + o /\ L(r) = L(s) \o n
    BY OneMoreHunk
  <2>2. /\ W(s) \in Nat /\ S(s) \in Nat /\ O(s) \in Nat /\ W(s) <= S(s) + O(s)
        /\ Weigh(L(s)) \in Nat /\ Weigh(L(s)) <= S(s) /\ Weigh(L(s)) <= W(s)
    BY <1>2
  <2>3. /\ w \in Nat /\ w > 0 /\ d \in Nat /\ o \in Nat /\ w <= d + o
        /\ Weigh(n) \in Nat /\ Weigh(n) <= d /\ Weigh(n) <= w
    BY SourceType
  <2> HIDE DEF W, S, O, L, r, n, w, d, o
  <2>4. L(r) \in Seq(PlacedLine) /\ Weigh(L(r)) = Weigh(L(s)) + Weigh(n)
    BY <2>1, ConcatProperties, WeighConcat
  <2>5. W(r) \in Nat /\ S(r) \in Nat /\ O(r) \in Nat /\ W(r) > 0 /\ W(r) <= S(r) + O(r)
    <3>1. W(r) = W(s) + w /\ S(r) = S(s) + d /\ O(r) = O(s) + o
      BY <2>1
    <3>2. W(s) \in Nat /\ S(s) \in Nat /\ O(s) \in Nat /\ W(s) <= S(s) + O(s)
      BY <2>2
    <3>3. w \in Nat /\ w > 0 /\ d \in Nat /\ o \in Nat /\ w <= d + o
      BY <2>3
    <3>4. W(r) \in Nat /\ W(r) > 0
      BY ONLY <3>1, <3>2, <3>3
    <3>5. S(r) \in Nat /\ O(r) \in Nat
      BY ONLY <3>1, <3>2, <3>3
    <3>6. W(s) + w <= (S(s) + O(s)) + (d + o) /\ (S(s) + O(s)) + (d + o) = (S(s) + d) + (O(s) + o)
      BY ONLY <3>2, <3>3
    <3> QED BY ONLY <3>1, <3>4, <3>5, <3>6
  <2>7. Weigh(L(r)) \in Nat /\ Weigh(L(r)) <= S(r) /\ Weigh(L(r)) <= W(r)
    BY <2>1, <2>2, <2>3, <2>4
  <2>8. r \in G
    BY <2>1, <2>4, <2>5, <2>7
  <2> QED BY <2>8 DEF r
<1> HIDE DEF G
<1>3. Seq(AnyHunk) \subseteq G
  BY <1>1, <1>2, SeqInduction
<1> QED BY <1>3 DEF G

\* A hunk that is sent whole has no line that cannot be sent.
LEMMA WholeHunkFits ==
  ASSUME NEW h \in AnyHunk, NEW limit \in Nat, WrittenBytes(h) <= limit
  PROVE  Chosen(Numbered(h), Fit(limit)) = Numbered(h)
<1>1. h.old \in Nat /\ h.new \in Nat /\ h.lines \in Seq(AnyLine)
  BY DEF AnyHunk
<1>2. NumberedFrom(h.old, h.new, h.lines) \in Seq(Fit(limit))
  BY <1>1, AllFit DEF WrittenBytes
<1> QED BY <1>2, NumOfHunk, ChosenAll

LEMMA PlainTotal ==
  \A s \in Seq(PlainHunk) : Total(WeightOf, s) = Total(WrittenOf, s) /\ s \in Seq(AnyHunk)
<1> TAKE s \in Seq(PlainHunk)
<1>1. s \in Seq(AnyHunk)
  <2>1. PlainHunk \subseteq AnyHunk
    BY DEF PlainHunk
  <2> QED BY <2>1, SeqMonotonic
<1>2. \A i \in DOMAIN s : s[i] \in PlainHunk
  BY LenProperties, ElementOfSeq
<1>3. \A i \in DOMAIN s : WeightOf[s[i]] = WrittenOf[s[i]]
  <2> TAKE i \in DOMAIN s
  <2>1. s[i] \in AnyHunk /\ s[i].heading = 0 /\ s[i].omitted = 0
    BY <1>2 DEF PlainHunk
  <2>2. SourceBytes(s[i]) = WrittenBytes(s[i])
    BY <2>1, SourceType
  <2> QED BY <2>1, <2>2 DEF WeightOf, WrittenOf
<1>4. Map(WeightOf, s) = Map(WrittenOf, s)
  BY <1>3 DEF Map
<1> QED BY <1>1, <1>4 DEF Total

LEMMA PlainIs ==
  ASSUME NEW h \in AnyHunk
  PROVE  /\ [h EXCEPT !.heading = 0, !.omitted = 0] \in PlainHunk
         /\ WrittenBytes([h EXCEPT !.heading = 0, !.omitted = 0]) = WrittenBytes(h)
         /\ Numbered([h EXCEPT !.heading = 0, !.omitted = 0]) = Numbered(h)
<1> DEFINE p == [h EXCEPT !.heading = 0, !.omitted = 0]
<1>1. p.heading = 0 /\ p.omitted = 0 /\ p.old = h.old /\ p.new = h.new /\ p.lines = h.lines
  BY DEF AnyHunk
<1>5. p \in AnyHunk
  <2>1. h \in AnyHunk /\ 0 \in Nat /\ 0 \in 0..2
    OBVIOUS
  <2> DEFINE H == [old : Nat, new : Nat, heading : Nat, omitted : 0..2, lines : Seq(AnyLine)]
  <2>2. \A x \in H : [x EXCEPT !.heading = 0] \in H
    BY <2>1
  <2>3. \A x \in H : [x EXCEPT !.omitted = 0] \in H
    BY <2>1
  <2>4. h \in H
    BY DEF AnyHunk
  <2> HIDE DEF H
  <2>5. [[h EXCEPT !.heading = 0] EXCEPT !.omitted = 0] \in H
    BY <2>2, <2>3, <2>4
  <2>6. p = [[h EXCEPT !.heading = 0] EXCEPT !.omitted = 0]
    OBVIOUS
  <2> QED BY <2>5, <2>6 DEF H, AnyHunk
<1> HIDE DEF p
<1>2. p \in PlainHunk
  BY <1>1, <1>5 DEF PlainHunk
<1>3. WrittenBytes(p) = WrittenBytes(h)
  BY <1>1 DEF WrittenBytes
<1>4. Numbered(p) = Numbered(h)
  BY <1>1, NumOfHunk
<1> QED BY <1>2, <1>3, <1>4 DEF p

FlatLines(hs) == FlatMap(NumberOf, hs)
WrittenAll(hs) == Total(WrittenOf, hs)

\* Where packing the hunks of f into pieces stands when the hunks hs are done.
PackOK(X, f, limit, hs, P, hunks) ==
  /\ P \in Seq(OwnPiece(X, f, limit)) /\ hunks \in Seq(PlainHunk)
  /\ Lines(X, P) \o FlatLines(hunks) = Chosen(FlatLines(hs), Fit(limit))
  /\ WrittenAll(hunks) <= limit
  /\ Charges(X, P) + WrittenAll(hunks) + Weigh(FlatLines(hs))
       <= WrittenAll(hs) + Weigh(Chosen(FlatLines(hs), Fit(limit)))

FlushOf(f, P, hunks) == IF hunks = <<>> THEN P ELSE Append(P, Piece(f, hunks, <<>>, WrittenAll(hunks)))

LEMMA PiecesType ==
  ASSUME NEW X, NEW f, NEW limit, NEW P \in Seq(OwnPiece(X, f, limit))
  PROVE  P \in Seq(AnyPiece(X)) /\ Lines(X, P) \in Seq(PlacedLine) /\ Charges(X, P) \in Nat
<1>1. P \in Seq(AnyPiece(X))
  BY OwnIsPiece
<1>2. Maps(ParseOf(X), AnyPiece(X), Seq(PlacedLine)) /\ Maps(ChargeOf(X), AnyPiece(X), Nat)
  BY PieceTypes
<1> QED BY <1>1, <1>2, FlatMapConcat, TotalType DEF Lines, Charges

LEMMA FlushKeeps ==
  ASSUME NEW X, NEW f, IsFile(f), f.path \in X, NEW limit \in Nat, NEW hs \in Seq(AnyHunk),
         NEW P, NEW hunks, PackOK(X, f, limit, hs, P, hunks)
  PROVE  PackOK(X, f, limit, hs, FlushOf(f, P, hunks), <<>>)
<1> DEFINE w == WrittenAll(hunks)
           p == Piece(f, hunks, <<>>, w)
           R == Append(P, p)
<1>1. /\ P \in Seq(OwnPiece(X, f, limit)) /\ hunks \in Seq(PlainHunk)
      /\ Lines(X, P) \o FlatLines(hunks) = Chosen(FlatLines(hs), Fit(limit))
      /\ w <= limit
      /\ Charges(X, P) + w + Weigh(FlatLines(hs)) <= WrittenAll(hs) + Weigh(Chosen(FlatLines(hs), Fit(limit)))
  BY DEF PackOK
<1>2. CASE hunks = <<>>
  BY <1>2 DEF FlushOf
<1>3. CASE hunks # <<>>
  <2>1. /\ hunks \in Seq(AnyHunk) /\ Total(WeightOf, hunks) = w /\ w \in Nat /\ w > 0
        /\ FlatLines(hunks) \in Seq(PlacedLine) /\ WrittenAll(hs) \in Nat /\ Weigh(FlatLines(hunks)) <= w
    BY <1>1, <1>3, PlainTotal, HunkTotals DEF WrittenAll, FlatLines
  <2>2. MadeOf(p, X, f, hunks, <<>>, w)
    <3> DEFINE e == <<>>
    <3>1. e \in Seq(Nat \ {0})
      BY EmptySeq
    <3> HIDE DEF w, p, e
    <3>2. MadeOf(Piece(f, hunks, e, w), X, f, hunks, e, w)
      BY <2>1, <3>1, PieceIs
    <3> QED BY <3>2 DEF p, e
  <2>3. DiffBytes(p) = w + 0 /\ p \in AnyPiece(X) /\ Parsed(p) = FlatLines(hunks) /\ p.charged = w
    BY <2>1, <2>2, SumNone DEF MadeOf, FlatLines
  <2>4. DiffBytes(p) <= limit
    BY <1>1, <2>1, <2>3
  <2>5. p \in OwnPiece(X, f, limit)
    <3> HIDE DEF p, w
    <3> QED BY <2>1, <2>2, <2>3, <2>4 DEF OwnPiece, MadeOf
  <2>6. P \in Seq(AnyPiece(X)) /\ Lines(X, P) \in Seq(PlacedLine) /\ Charges(X, P) \in Nat
    BY <1>1, PiecesType
  <2> HIDE DEF p, w
  <2>7. R \in Seq(OwnPiece(X, f, limit)) /\ Lines(X, R) = Lines(X, P) \o FlatLines(hunks) /\ Charges(X, R) = Charges(X, P) + w
    <3>1. R \in Seq(OwnPiece(X, f, limit))
      BY <1>1, <2>5, AppendProperties
    <3>2. Lines(X, R) = Lines(X, P) \o Parsed(p) /\ Charges(X, R) = Charges(X, P) + p.charged
      BY <2>3, <2>6, OneMorePiece
    <3> QED BY <2>3, <3>1, <3>2
  <2> HIDE DEF R
  <2>8. Lines(X, R) \o FlatLines(<<>>) = Chosen(FlatLines(hs), Fit(limit))
    <3>1. Lines(X, R) \in Seq(PlacedLine)
      BY <2>1, <2>6, <2>7, ConcatProperties
    <3> QED BY <1>1, <2>7, <3>1, ConcatEmptySeq, NoHunks DEF FlatLines
  <2>9. WrittenAll(<<>>) = 0 /\ Charges(X, R) + 0 = Charges(X, P) + w /\ 0 <= limit
    BY <2>1, <2>6, <2>7, NoHunks DEF WrittenAll
  <2>10. <<>> \in Seq(PlainHunk)
    BY EmptySeq
  <2>12. Charges(X, R) + WrittenAll(<<>>) + Weigh(FlatLines(hs))
           <= WrittenAll(hs) + Weigh(Chosen(FlatLines(hs), Fit(limit)))
    BY <1>1, <2>9
  <2>11. PackOK(X, f, limit, hs, R, <<>>)
    BY <2>7, <2>8, <2>9, <2>10, <2>12 DEF PackOK
  <2> QED BY <1>3, <2>11 DEF FlushOf, R, p, w
<1> QED BY <1>2, <1>3

\* A hunk that goes with those that wait.
LEMMA HunkAdded ==
  ASSUME NEW X, NEW f, NEW limit \in Nat, NEW hs \in Seq(AnyHunk), NEW P, NEW hunks, NEW h \in AnyHunk,
         PackOK(X, f, limit, hs, P, hunks), WrittenAll(hunks) + WrittenBytes(h) <= limit
  PROVE  PackOK(X, f, limit, Append(hs, h), P, Append(hunks, [h EXCEPT !.heading = 0, !.omitted = 0]))
<1> DEFINE p == [h EXCEPT !.heading = 0, !.omitted = 0]
           w == WrittenBytes(h)
           c == Charges(X, P)
           n == Numbered(h)
           hs1 == Append(hs, h)
           hunks1 == Append(hunks, p)
<1>1. /\ P \in Seq(OwnPiece(X, f, limit)) /\ hunks \in Seq(PlainHunk)
      /\ Lines(X, P) \o FlatLines(hunks) = Chosen(FlatLines(hs), Fit(limit))
      /\ c + WrittenAll(hunks) + Weigh(FlatLines(hs)) <= WrittenAll(hs) + Weigh(Chosen(FlatLines(hs), Fit(limit)))
  BY DEF PackOK
<1>2. p \in PlainHunk /\ p \in AnyHunk /\ WrittenBytes(p) = w /\ Numbered(p) = n
  BY PlainIs DEF PlainHunk
<1>3. hunks \in Seq(AnyHunk) /\ hunks1 \in Seq(PlainHunk)
  <2> HIDE DEF p
  <2> QED BY <1>1, <1>2, PlainTotal, AppendProperties
<1>4. /\ WrittenAll(hs) \in Nat /\ FlatLines(hs) \in Seq(PlacedLine) /\ w \in Nat /\ n \in Seq(PlacedLine)
      /\ WrittenAll(hs1) = WrittenAll(hs) + w /\ FlatLines(hs1) = FlatLines(hs) \o n
  BY OneMoreHunk DEF WrittenAll, FlatLines
<1>5. /\ WrittenAll(hunks) \in Nat /\ FlatLines(hunks) \in Seq(PlacedLine)
      /\ WrittenAll(hunks1) = WrittenAll(hunks) + w /\ FlatLines(hunks1) = FlatLines(hunks) \o n
  <2> HIDE DEF p
  <2> QED BY <1>2, <1>3, OneMoreHunk DEF WrittenAll, FlatLines
<1>6. Lines(X, P) \in Seq(PlacedLine) /\ c \in Nat
  BY <1>1, PiecesType
<1>7. w <= limit
  <2>1. WrittenAll(hunks) + w <= limit
    OBVIOUS
  <2> HIDE DEF w, hunks1
  <2> QED BY <1>4, <1>5, <2>1
<1>8. Chosen(n, Fit(limit)) = n
  BY <1>7, WholeHunkFits
<1>9. Chosen(FlatLines(hs1), Fit(limit)) = Chosen(FlatLines(hs), Fit(limit)) \o n
  <2> HIDE DEF n
  <2>1. Chosen(FlatLines(hs) \o n, Fit(limit)) = Chosen(FlatLines(hs), Fit(limit)) \o Chosen(n, Fit(limit))
    BY <1>4, ChosenConcat
  <2> QED BY <1>4, <1>8, <2>1
<1>10. Lines(X, P) \o FlatLines(hunks1) = Chosen(FlatLines(hs1), Fit(limit))
  <2> DEFINE a == Lines(X, P)
             b == FlatLines(hunks)
  <2>1. a \in Seq(PlacedLine) /\ b \in Seq(PlacedLine) /\ n \in Seq(PlacedLine)
    BY <1>4, <1>5, <1>6
  <2> HIDE DEF a, b, n
  <2>2. a \o (b \o n) = (a \o b) \o n
    BY <2>1, ConcatAssociative
  <2> QED BY <1>1, <1>5, <1>9, <2>2 DEF a, b
<1>12. /\ Weigh(FlatLines(hs1)) = Weigh(FlatLines(hs)) + Weigh(n)
       /\ Weigh(Chosen(FlatLines(hs1), Fit(limit))) = Weigh(Chosen(FlatLines(hs), Fit(limit))) + Weigh(n)
       /\ Weigh(n) \in Nat /\ Weigh(FlatLines(hs)) \in Nat /\ Weigh(Chosen(FlatLines(hs), Fit(limit))) \in Nat
  <2> DEFINE a == FlatLines(hs)
             b == Chosen(a, Fit(limit))
  <2>1. a \in Seq(PlacedLine) /\ b \in Seq(PlacedLine) /\ n \in Seq(PlacedLine)
    <3> HIDE DEF n
    <3>1. Chosen(a, Fit(limit)) \in Seq(PlacedLine \cap Fit(limit)) /\ PlacedLine \cap Fit(limit) \subseteq PlacedLine
      BY <1>4, ChosenType
    <3> QED BY <1>4, <3>1, SeqMonotonic
  <2> HIDE DEF a, b, n
  <2>2. Weigh(a \o n) = Weigh(a) + Weigh(n) /\ Weigh(b \o n) = Weigh(b) + Weigh(n)
        /\ Weigh(n) \in Nat /\ Weigh(a) \in Nat /\ Weigh(b) \in Nat
    BY <2>1, WeighConcat
  <2> QED BY <1>4, <1>9, <2>2 DEF a, b
<1>11. /\ WrittenAll(hunks1) <= limit
       /\ c + WrittenAll(hunks1) + Weigh(FlatLines(hs1)) <= WrittenAll(hs1) + Weigh(Chosen(FlatLines(hs1), Fit(limit)))
  <2> DEFINE u == WrittenAll(hunks)
             v == WrittenAll(hs)
             a == Weigh(FlatLines(hs))
             b == Weigh(Chosen(FlatLines(hs), Fit(limit)))
             k == Weigh(n)
  <2>1. u + w <= limit /\ c + u + a <= v + b
    BY <1>1
  <2>2. u \in Nat /\ v \in Nat /\ a \in Nat /\ b \in Nat /\ k \in Nat /\ w \in Nat /\ c \in Nat
    BY <1>4, <1>5, <1>6, <1>12
  <2> HIDE DEF c, w, u, v, a, b, k
  <2>3. c + (u + w) + (a + k) <= (v + w) + (b + k)
    BY <2>1, <2>2, SMTT(30)
  <2> QED BY <1>4, <1>5, <1>12, <2>1, <2>3 DEF u, v, a, b, k
<1> HIDE DEF c, w, hs1, hunks1
<1>13. PackOK(X, f, limit, hs1, P, hunks1)
  BY <1>1, <1>3, <1>10, <1>11 DEF PackOK, c
<1> QED BY <1>13 DEF hs1, hunks1

\* A hunk that is cut.
LEMMA HunkCutAdded ==
  ASSUME NEW X, NEW f, IsFile(f), f.path \in X, NEW limit \in Nat, NEW hs \in Seq(AnyHunk), NEW P, NEW h \in AnyHunk,
         PackOK(X, f, limit, hs, P, <<>>)
  PROVE  PackOK(X, f, limit, Append(hs, h), P \o HunkPieces(f, h, limit), <<>>)
<1> DEFINE Q == HunkPieces(f, h, limit)
           w == WrittenBytes(h)
           n == Numbered(h)
           hs1 == Append(hs, h)
           R == P \o Q
<1>1. /\ P \in Seq(OwnPiece(X, f, limit))
      /\ Lines(X, P) \o FlatLines(<<>>) = Chosen(FlatLines(hs), Fit(limit))
      /\ WrittenAll(<<>>) <= limit
      /\ Charges(X, P) + WrittenAll(<<>>) + Weigh(FlatLines(hs))
           <= WrittenAll(hs) + Weigh(Chosen(FlatLines(hs), Fit(limit)))
      /\ <<>> \in Seq(PlainHunk)
  BY DEF PackOK
<1>2. /\ Q \in Seq(OwnPiece(X, f, limit))
      /\ Lines(X, Q) = Chosen(n, Fit(limit))
      /\ Charges(X, Q) + Weigh(n) <= w + Weigh(Chosen(n, Fit(limit)))
  BY HunkCut
<1>3. /\ WrittenAll(hs) \in Nat /\ FlatLines(hs) \in Seq(PlacedLine) /\ w \in Nat /\ n \in Seq(PlacedLine)
      /\ WrittenAll(hs1) = WrittenAll(hs) + w /\ FlatLines(hs1) = FlatLines(hs) \o n
  BY OneMoreHunk DEF WrittenAll, FlatLines
<1> HIDE DEF Q
<1>4. /\ Lines(X, P) \in Seq(PlacedLine) /\ Charges(X, P) \in Nat /\ P \in Seq(AnyPiece(X))
      /\ Lines(X, Q) \in Seq(PlacedLine) /\ Charges(X, Q) \in Nat /\ Q \in Seq(AnyPiece(X))
  BY <1>1, <1>2, PiecesType
<1>5. Lines(X, R) = Lines(X, P) \o Lines(X, Q) /\ Charges(X, R) = Charges(X, P) + Charges(X, Q)
  <2>1. Maps(ParseOf(X), AnyPiece(X), Seq(PlacedLine)) /\ Maps(ChargeOf(X), AnyPiece(X), Int)
    BY PieceTypes
  <2>2. Lines(X, P \o Q) = Lines(X, P) \o Lines(X, Q)
    BY <1>4, <2>1, FlatMapConcat DEF Lines
  <2>3. Charges(X, P \o Q) = Charges(X, P) + Charges(X, Q)
    BY <1>4, <2>1, TotalConcat DEF Charges
  <2> QED BY <2>2, <2>3
<1>6. R \in Seq(OwnPiece(X, f, limit))
  BY <1>1, <1>2, ConcatProperties
<1>7. Chosen(FlatLines(hs1), Fit(limit)) = Chosen(FlatLines(hs), Fit(limit)) \o Chosen(n, Fit(limit))
  BY <1>3, ChosenConcat
<1>8. FlatLines(<<>>) = <<>> /\ WrittenAll(<<>>) = 0
  BY NoHunks DEF FlatLines, WrittenAll
<1>9. Lines(X, P) = Chosen(FlatLines(hs), Fit(limit))
  BY <1>1, <1>4, <1>8, ConcatEmptySeq
<1>10. Lines(X, R) \o FlatLines(<<>>) = Chosen(FlatLines(hs1), Fit(limit))
  <2>1. Lines(X, R) = Chosen(FlatLines(hs1), Fit(limit))
    BY <1>2, <1>5, <1>7, <1>9
  <2>2. Lines(X, R) \in Seq(PlacedLine)
    BY <1>4, <1>5, ConcatProperties
  <2> QED BY <1>8, <2>1, <2>2, ConcatEmptySeq
<1>12. /\ Weigh(FlatLines(hs1)) = Weigh(FlatLines(hs)) + Weigh(n)
       /\ Weigh(Chosen(FlatLines(hs1), Fit(limit)))
            = Weigh(Chosen(FlatLines(hs), Fit(limit))) + Weigh(Chosen(n, Fit(limit)))
       /\ Weigh(n) \in Nat /\ Weigh(FlatLines(hs)) \in Nat
       /\ Weigh(Chosen(n, Fit(limit))) \in Nat /\ Weigh(Chosen(FlatLines(hs), Fit(limit))) \in Nat
  <2> DEFINE a == FlatLines(hs)
             b == Chosen(a, Fit(limit))
             d == Chosen(n, Fit(limit))
  <2>1. a \in Seq(PlacedLine) /\ n \in Seq(PlacedLine)
    BY <1>3
  <2>2. b \in Seq(PlacedLine) /\ d \in Seq(PlacedLine)
    BY <1>2, <1>4, <1>9
  <2> HIDE DEF a, b, d, n
  <2>3. Weigh(a \o n) = Weigh(a) + Weigh(n) /\ Weigh(b \o d) = Weigh(b) + Weigh(d)
        /\ Weigh(n) \in Nat /\ Weigh(a) \in Nat /\ Weigh(b) \in Nat /\ Weigh(d) \in Nat
    BY <2>1, <2>2, WeighConcat
  <2> QED BY <1>3, <1>7, <2>3 DEF a, b, d
<1>11. /\ Charges(X, R) + WrittenAll(<<>>) + Weigh(FlatLines(hs1))
            <= WrittenAll(hs1) + Weigh(Chosen(FlatLines(hs1), Fit(limit)))
       /\ WrittenAll(<<>>) <= limit
  <2> DEFINE a == Charges(X, P)
             b == Charges(X, Q)
             d == WrittenAll(hs)
             g == Weigh(FlatLines(hs))
             k == Weigh(n)
             u == Weigh(Chosen(FlatLines(hs), Fit(limit)))
             v == Weigh(Chosen(n, Fit(limit)))
  <2>1. a \in Nat /\ b \in Nat /\ d \in Nat /\ w \in Nat /\ g \in Nat /\ k \in Nat /\ u \in Nat /\ v \in Nat
    BY <1>3, <1>4, <1>12
  <2>2. a + 0 + g <= d + u /\ b + k <= w + v
    BY <1>1, <1>2, <1>8
  <2>3. Charges(X, R) = a + b
    BY <1>5
  <2> HIDE DEF a, b, d, g, k, u, v, w
  <2>4. (a + b) + 0 + (g + k) <= (d + w) + (u + v)
    BY <2>1, <2>2, SMTT(30)
  <2> QED BY <1>3, <1>8, <1>12, <2>3, <2>4 DEF g, k, u, v, d, w
<1> HIDE DEF R, hs1
<1>15. PackOK(X, f, limit, hs1, R, <<>>)
  BY <1>1, <1>6, <1>10, <1>11 DEF PackOK
<1> QED BY <1>15 DEF R, hs1, Q

PackStep(c, acc, h) == TakeHunk(c[1], acc, h, c[2])
Packing == INSTANCE FoldFacts WITH Op <- PackStep

LEMMA PiecesIs ==
  ASSUME NEW f, NEW limit
  PROVE  Pieces(f, limit) =
           CASE DiffBytes(f) <= limit -> <<Piece(f, f.hunks, f.text, DiffBytes(f))>>
             [] DiffBytes(f) > limit /\ f.hunks = <<>> -> TextPieces(f, limit)
             [] OTHER -> Flushed(f, Packing!Result(<<f, limit>>, [pieces |-> <<>>, hunks |-> <<>>], f.hunks))
<1> QED BY DEF Pieces, FoldLeft, MapThenFoldSet, Packing!Result, PackStep, Packing!Max, Max

PackStates(X, f, limit) == [pieces : Seq(OwnPiece(X, f, limit)), hunks : Seq(PlainHunk)]
PackIs(X, f, limit, hs, acc) ==
  /\ acc \in PackStates(X, f, limit)
  /\ PackOK(X, f, limit, hs, acc.pieces, acc.hunks)

LEMMA WholeIs == \A hunks \in Seq(PlainHunk) : Whole(hunks) = WrittenAll(hunks)
<1> TAKE hunks \in Seq(PlainHunk)
<1>1. \A i \in DOMAIN hunks : hunks[i] \in AnyHunk
  BY LenProperties, ElementOfSeq DEF PlainHunk
<1>2. [i \in DOMAIN hunks |-> WrittenBytes(hunks[i])] = [i \in DOMAIN hunks |-> WrittenOf[hunks[i]]]
  BY <1>1 DEF WrittenOf
<1> QED BY <1>2 DEF Whole, WrittenAll, Total, Map

LEMMA PackStepKeeps ==
  ASSUME NEW X, NEW f, IsFile(f), f.path \in X, NEW limit \in Nat, NEW hs \in Seq(AnyHunk),
         NEW acc, PackIs(X, f, limit, hs, acc), NEW h \in AnyHunk
  PROVE  PackIs(X, f, limit, Append(hs, h), PackStep(<<f, limit>>, acc, h))
<1> DEFINE to == PackStep(<<f, limit>>, acc, h)
           hs1 == Append(hs, h)
           p == [h EXCEPT !.heading = 0, !.omitted = 0]
           F == Flushed(f, acc)
<1>0. acc \in PackStates(X, f, limit) /\ PackOK(X, f, limit, hs, acc.pieces, acc.hunks)
  BY DEF PackIs
<1>1. Whole(acc.hunks) = WrittenAll(acc.hunks)
  BY <1>0, WholeIs DEF PackStates
<1>2. F = FlushOf(f, acc.pieces, acc.hunks)
  BY <1>1 DEF Flushed, FlushOf
<1>3. PackOK(X, f, limit, hs, F, <<>>)
  BY <1>0, <1>2, FlushKeeps
<1>4. ASSUME NEW P, NEW hunks, PackOK(X, f, limit, hs1, P, hunks), to = [pieces |-> P, hunks |-> hunks]
      PROVE  PackIs(X, f, limit, hs1, to)
  <2> HIDE DEF to, hs1
  <2>1. to.pieces = P /\ to.hunks = hunks
    BY <1>4
  <2>2. P \in Seq(OwnPiece(X, f, limit)) /\ hunks \in Seq(PlainHunk)
    BY <1>4 DEF PackOK
  <2>3. to \in PackStates(X, f, limit)
    BY <1>4, <2>2 DEF PackStates
  <2> QED BY <1>4, <2>1, <2>3 DEF PackIs
<1>5. CASE WrittenBytes(h) > limit
  <2>1. PackOK(X, f, limit, hs1, F \o HunkPieces(f, h, limit), <<>>)
    BY <1>3, HunkCutAdded
  <2>2. to = [pieces |-> F \o HunkPieces(f, h, limit), hunks |-> <<>>]
    BY <1>5 DEF PackStep, TakeHunk
  <2> HIDE DEF to, F, hs1
  <2>9. PackIs(X, f, limit, hs1, to)
    BY <1>4, <2>1, <2>2
  <2> QED BY <2>9 DEF to, hs1
<1>6. CASE ~(WrittenBytes(h) > limit) /\ Whole(acc.hunks) + WrittenBytes(h) > limit
  <2>1. WrittenAll(<<>>) + WrittenBytes(h) <= limit
    <3>1. WrittenBytes(h) \in Nat
      BY WrittenType
    <3> QED BY <1>6, <3>1, NoHunks DEF WrittenAll
  <2>2. PackOK(X, f, limit, hs1, F, Append(<<>>, p))
    <3> HIDE DEF F
    <3> QED BY <1>3, <2>1, HunkAdded
  <2>3. to = [pieces |-> F, hunks |-> <<p>>]
    BY <1>6 DEF PackStep, TakeHunk
  <2>4. Append(<<>>, p) = <<p>>
    OBVIOUS
  <2> HIDE DEF to, F, hs1, p
  <2>9. PackIs(X, f, limit, hs1, to)
    BY <1>4, <2>2, <2>3, <2>4
  <2> QED BY <2>9 DEF to, hs1
<1>7. CASE ~(WrittenBytes(h) > limit) /\ ~(Whole(acc.hunks) + WrittenBytes(h) > limit)
  <2>1. WrittenAll(acc.hunks) + WrittenBytes(h) <= limit
    <3>1. WrittenBytes(h) \in Nat /\ WrittenAll(acc.hunks) \in Nat
      BY <1>0, WrittenType, PlainTotal, HunkTotals DEF WrittenAll, PackStates
    <3> QED BY <1>1, <1>7, <3>1
  <2>2. PackOK(X, f, limit, hs1, acc.pieces, Append(acc.hunks, p))
    BY <1>0, <2>1, HunkAdded
  <2>3. to = [acc EXCEPT !.hunks = Append(acc.hunks, p)]
    BY <1>7 DEF PackStep, TakeHunk
  <2> HIDE DEF to, p, hs1
  <2>4. to = [pieces |-> acc.pieces, hunks |-> Append(acc.hunks, p)]
    BY <1>0, <2>3 DEF PackStates
  <2>9. PackIs(X, f, limit, hs1, to)
    BY <1>4, <2>2, <2>4
  <2> QED BY <2>9 DEF to, hs1
<1> QED BY <1>5, <1>6, <1>7

LEMMA PackAll ==
  ASSUME NEW X, NEW f, IsFile(f), f.path \in X, NEW limit \in Nat
  PROVE  \A hs \in Seq(AnyHunk) :
           PackIs(X, f, limit, hs, Packing!Result(<<f, limit>>, [pieces |-> <<>>, hunks |-> <<>>], hs))
<1> DEFINE start == [pieces |-> <<>>, hunks |-> <<>>]
           G == {hs \in Seq(AnyHunk) : PackIs(X, f, limit, hs, Packing!Result(<<f, limit>>, start, hs))}
<1>1. <<>> \in G
  <2>1. start.pieces = <<>> /\ start.hunks = <<>>
    OBVIOUS
  <2>2. <<>> \in Seq(OwnPiece(X, f, limit)) /\ <<>> \in Seq(PlainHunk)
    BY EmptySeq
  <2>3. start \in PackStates(X, f, limit)
    BY <2>2 DEF PackStates
  <2>4. /\ FlatLines(<<>>) = <<>> /\ WrittenAll(<<>>) = 0
        /\ Lines(X, <<>>) = <<>> /\ Charges(X, <<>>) = 0 /\ Chosen(<<>>, Fit(limit)) = <<>>
    BY NoHunks, NoPieces, ChosenEmpty DEF FlatLines, WrittenAll
  <2>5. Lines(X, <<>>) \o FlatLines(<<>>) = Chosen(FlatLines(<<>>), Fit(limit))
    <3>1. <<>> \o <<>> = <<>>
      OBVIOUS
    <3> QED BY <2>4, <3>1
  <2>8. /\ WrittenAll(<<>>) <= limit
        /\ Charges(X, <<>>) + WrittenAll(<<>>) + Weigh(FlatLines(<<>>))
             <= WrittenAll(<<>>) + Weigh(Chosen(FlatLines(<<>>), Fit(limit)))
    BY <2>4, WeighNone
  <2>6. PackOK(X, f, limit, <<>>, <<>>, <<>>)
    BY <2>2, <2>5, <2>8 DEF PackOK
  <2>7. Packing!Result(<<f, limit>>, start, <<>>) = start
    BY Packing!FoldEmpty
  <2> HIDE DEF start
  <2> QED BY <2>1, <2>3, <2>6, <2>7, EmptySeq DEF PackIs
<1>2. ASSUME NEW hs \in Seq(AnyHunk), NEW h \in AnyHunk, hs \in G PROVE Append(hs, h) \in G
  <2> DEFINE acc == Packing!Result(<<f, limit>>, start, hs)
  <2>1. PackIs(X, f, limit, hs, acc)
    BY <1>2
  <2>2. Packing!Result(<<f, limit>>, start, Append(hs, h)) = PackStep(<<f, limit>>, acc, h)
    <3> HIDE DEF start
    <3> QED BY Packing!FoldAppend
  <2> HIDE DEF acc
  <2>3. PackIs(X, f, limit, Append(hs, h), PackStep(<<f, limit>>, acc, h))
    BY <2>1, PackStepKeeps
  <2> QED BY <2>2, <2>3, AppendProperties
<1> HIDE DEF G
<1>3. Seq(AnyHunk) \subseteq G
  BY <1>1, <1>2, SeqInduction
<1> QED BY <1>3 DEF G

TextStep(c, acc, width) == TakeText(c[1], acc, width, c[2])
Texting == INSTANCE FoldFacts WITH Op <- TextStep

LEMMA TextPiecesIs ==
  ASSUME NEW f, NEW limit
  PROVE  TextPieces(f, limit) =
           LET end == Texting!Result(<<f, limit>>, [pieces |-> <<>>, text |-> <<>>], f.text)
           IN  IF end.text = <<>> THEN end.pieces ELSE CloseText(f, end)
<1> QED BY DEF TextPieces, FoldLeft, MapThenFoldSet, Texting!Result, TextStep, Texting!Max, Max

\* Where cutting the text t stands, with the pieces P and the characters w that wait.
TextOK(X, f, limit, t, P, w) ==
  /\ P \in Seq(OwnPiece(X, f, limit)) /\ w \in Seq(Nat \ {0})
  /\ Len(w) = 1 \/ SumFunction(w) <= limit
  /\ Lines(X, P) = <<>>
  /\ Charges(X, P) + SumFunction(w) <= SumFunction(t)

TextStates(X, f, limit) == [pieces : Seq(OwnPiece(X, f, limit)), text : Seq(Nat \ {0})]
TextIs(X, f, limit, t, acc) ==
  acc \in TextStates(X, f, limit) /\ TextOK(X, f, limit, t, acc.pieces, acc.text)

CutText(f, w) == [Piece(f, <<>>, w, SumFunction(w)) EXCEPT !.headers = "cut"]
CutTextOK(p, X, f, w, limit) ==
  p \in OwnPiece(X, f, limit) /\ p.charged = SumFunction(w) /\ Parsed(p) = <<>>

LEMMA CutTextIs ==
  ASSUME NEW X, NEW f, IsFile(f), f.path \in X, NEW limit \in Nat,
         NEW w \in Seq(Nat \ {0}), Len(w) = 1 \/ SumFunction(w) <= limit
  PROVE  CutTextOK(CutText(f, w), X, f, w, limit)
<1> DEFINE p == CutText(f, w)
           q == Piece(f, <<>>, w, SumFunction(w))
           e == <<>>
           c == SumFunction(w)
<1>1. e \in Seq(AnyHunk) /\ c \in Nat
  BY EmptySeq, TextType
<1>2. MadeOf(q, X, f, e, w, c)
  <2> HIDE DEF e, c, q
  <2>1. MadeOf(Piece(f, e, w, c), X, f, e, w, c)
    BY <1>1, PieceIs
  <2> QED BY <2>1 DEF e, c, q
<1> HIDE DEF q, c
<1>3. /\ q \in AnyPiece(X) /\ q.path = f.path /\ q.deleted = f.deleted
      /\ q.hunks = <<>> /\ q.text = w /\ q.charged = c /\ q.reviewable = TRUE
  BY <1>2 DEF MadeOf
<1>4. p = [q EXCEPT !.headers = "cut"]
  BY DEF q, c, CutText
<1> HIDE DEF p
<1>5. /\ p.path = f.path /\ p.deleted = f.deleted /\ p.hunks = <<>> /\ p.text = w /\ p.charged = c
      /\ p \in AnyPiece(X) /\ p.reviewable = TRUE
  <2>1. p.path = f.path /\ p.deleted = f.deleted /\ p.hunks = <<>> /\ p.text = w /\ p.charged = c /\ p.reviewable = TRUE
    BY <1>3, <1>4 DEF AnyPiece
  <2>2. p \in AnyPiece(X)
    BY <1>3, <1>4 DEF AnyPiece
  <2> QED BY <2>1, <2>2
<1>6. DiffBytes(p) = c /\ Parsed(p) = <<>>
  <2>1. p.hunks \in Seq(AnyHunk)
    BY <1>1, <1>5
  <2>2. DiffBytes(p) = 0 + c
    BY <1>5, <2>1, DiffBytesIs, MapEmpty DEF c
  <2>3. Parsed(p) = <<>>
    BY <1>5, <2>1, ParsedIs, MapEmpty
  <2> QED BY <1>1, <2>2, <2>3
<1>7. p \in OwnPiece(X, f, limit)
  <2>1. Weigh(Parsed(p)) = 0 /\ c >= 0
    BY <1>1, <1>6, WeighNone
  <2> QED BY <1>5, <1>6, <2>1 DEF OwnPiece, c
<1> QED BY <1>5, <1>6, <1>7 DEF c, p, CutTextOK

LEMMA TextClosed ==
  ASSUME NEW X, NEW f, IsFile(f), f.path \in X, NEW limit \in Nat, NEW t \in Seq(Nat \ {0}),
         NEW acc, TextIs(X, f, limit, t, acc)
  PROVE  TextOK(X, f, limit, t, CloseText(f, acc), <<>>)
<1> DEFINE P == acc.pieces
           w == acc.text
           p == CutText(f, w)
           R == Append(P, p)
<1>1. /\ P \in Seq(OwnPiece(X, f, limit)) /\ w \in Seq(Nat \ {0})
      /\ Len(w) = 1 \/ SumFunction(w) <= limit
      /\ Lines(X, P) = <<>>
      /\ Charges(X, P) + SumFunction(w) <= SumFunction(t)
  BY DEF TextIs, TextOK
<1>2. p \in OwnPiece(X, f, limit) /\ p.charged = SumFunction(w) /\ Parsed(p) = <<>>
  <2>1. w \in Seq(Nat \ {0}) /\ (Len(w) = 1 \/ SumFunction(w) <= limit)
    BY <1>1
  <2> HIDE DEF w
  <2>2. CutTextOK(CutText(f, w), X, f, w, limit)
    BY <2>1, CutTextIs
  <2> QED BY <2>2 DEF CutTextOK
<1>3. CloseText(f, acc) = R
  BY DEF CloseText, CutText
<1> HIDE DEF p, w, P
<1>4. P \in Seq(AnyPiece(X)) /\ p \in AnyPiece(X)
  BY <1>1, <1>2, OwnIsPiece DEF OwnPiece
<1>5. Lines(X, R) = <<>> \o <<>> /\ Charges(X, R) = Charges(X, P) + SumFunction(w)
  BY <1>1, <1>2, <1>4, OneMorePiece
<1>6. Charges(X, P) \in Nat /\ SumFunction(w) \in Nat /\ SumFunction(t) \in Nat
  BY <1>1, <1>4, OneMorePiece, TextType
<1>7. R \in Seq(OwnPiece(X, f, limit))
  BY <1>1, <1>2, AppendProperties
<1>8. <<>> \o <<>> = <<>> /\ <<>> \in Seq(Nat \ {0})
  BY EmptySeq
<1> HIDE DEF R
<1>9. Charges(X, R) + SumFunction(<<>>) <= SumFunction(t) /\ SumFunction(<<>>) <= limit
  BY <1>1, <1>5, <1>6, SumNone
<1> QED BY <1>3, <1>5, <1>7, <1>8, <1>9 DEF TextOK

LEMMA TextStepKeeps ==
  ASSUME NEW X, NEW f, IsFile(f), f.path \in X, NEW limit \in Nat, NEW t \in Seq(Nat \ {0}),
         NEW acc, TextIs(X, f, limit, t, acc), NEW width \in Nat \ {0}
  PROVE  TextIs(X, f, limit, Append(t, width), TextStep(<<f, limit>>, acc, width))
<1> DEFINE t1 == Append(t, width)
           to == TextStep(<<f, limit>>, acc, width)
           C == CloseText(f, acc)
           w == acc.text
           P == acc.pieces
<1>1. /\ acc \in TextStates(X, f, limit)
      /\ P \in Seq(OwnPiece(X, f, limit)) /\ w \in Seq(Nat \ {0})
      /\ Len(w) = 1 \/ SumFunction(w) <= limit
      /\ Lines(X, P) = <<>>
      /\ Charges(X, P) + SumFunction(w) <= SumFunction(t)
  BY DEF TextIs, TextOK
<1>2. \A s \in Seq(Nat \ {0}) : SumFunction(Append(s, width)) = SumFunction(s) + width /\ SumFunction(s) \in Nat
  <2> TAKE s \in Seq(Nat \ {0})
  <2>1. s \in Seq(Int) /\ width \in Int
    BY SeqMonotonic
  <2> QED BY <2>1, SumAppend, TextType
<1>3. Charges(X, P) \in Nat
  BY <1>1, PiecesType
<1>4. ASSUME NEW Q, NEW v, TextOK(X, f, limit, t1, Q, v), to = [pieces |-> Q, text |-> v]
      PROVE  TextIs(X, f, limit, t1, to)
  <2> HIDE DEF to, t1
  <2>1. to.pieces = Q /\ to.text = v
    BY <1>4
  <2>2. Q \in Seq(OwnPiece(X, f, limit)) /\ v \in Seq(Nat \ {0})
    BY <1>4 DEF TextOK
  <2>3. to \in TextStates(X, f, limit)
    BY <1>4, <2>2 DEF TextStates
  <2>9. TextIs(X, f, limit, t1, to)
    BY <1>4, <2>1, <2>3 DEF TextIs
  <2> QED BY <2>9 DEF to, t1
<1>5. CASE w # <<>> /\ SumFunction(w) + width > limit
  <2>1. TextOK(X, f, limit, t, C, <<>>)
    BY TextClosed
  <2>2. /\ C \in Seq(OwnPiece(X, f, limit)) /\ Lines(X, C) = <<>>
        /\ Charges(X, C) + SumFunction(<<>>) <= SumFunction(t)
    BY <2>1 DEF TextOK
  <2>3. <<width>> \in Seq(Nat \ {0}) /\ Len(<<width>>) = 1 /\ Append(<<>>, width) = <<width>> /\ <<>> \in Seq(Nat \ {0})
    BY EmptySeq, AppendProperties
  <2>4. Charges(X, C) \in Nat
    <3> HIDE DEF C
    <3> QED BY <2>2, PiecesType
  <2>5. SumFunction(<<width>>) = 0 + width /\ SumFunction(t1) = SumFunction(t) + width /\ SumFunction(t) \in Nat
    <3>1. SumFunction(Append(<<>>, width)) = SumFunction(<<>>) + width
      BY <1>2, <2>3
    <3> QED BY <1>2, <2>3, <3>1, SumNone
  <2>6. to = [pieces |-> C, text |-> <<width>>]
    BY <1>5 DEF TextStep, TakeText
  <2> HIDE DEF C, to, t1, w, P
  <2>7. Charges(X, C) + SumFunction(<<width>>) <= SumFunction(t1)
    BY <2>2, <2>4, <2>5, SumNone
  <2>8. TextOK(X, f, limit, t1, C, <<width>>)
    BY <2>2, <2>3, <2>7 DEF TextOK
  <2>9. TextIs(X, f, limit, t1, to)
    BY <1>4, <2>6, <2>8
  <2> QED BY <2>9 DEF to, t1
<1>6. CASE ~(w # <<>> /\ SumFunction(w) + width > limit)
  <2> DEFINE v == Append(w, width)
  <2>1. v \in Seq(Nat \ {0}) /\ SumFunction(v) = SumFunction(w) + width /\ Len(v) = Len(w) + 1
    BY <1>1, <1>2, AppendProperties
  <2>2. SumFunction(w) \in Nat /\ SumFunction(t) \in Nat /\ SumFunction(t1) = SumFunction(t) + width
    BY <1>1, <1>2
  <2>3. Len(v) = 1 \/ SumFunction(v) <= limit
    <3>1. CASE w = <<>>
      BY <2>1, <3>1
    <3>2. CASE w # <<>>
      BY <1>6, <2>1, <2>2, <3>2
    <3> QED BY <3>1, <3>2
  <2>4. to = [acc EXCEPT !.text = v]
    BY <1>6 DEF TextStep, TakeText
  <2> HIDE DEF v, to, t1
  <2>5. to = [pieces |-> P, text |-> v]
    BY <1>1, <2>4 DEF TextStates
  <2> HIDE DEF w, P
  <2>6. Charges(X, P) + SumFunction(v) <= SumFunction(t1)
    BY <1>1, <1>3, <2>1, <2>2
  <2>7. TextOK(X, f, limit, t1, P, v)
    BY <1>1, <2>1, <2>3, <2>6 DEF TextOK
  <2>9. TextIs(X, f, limit, t1, to)
    BY <1>4, <2>5, <2>7
  <2> QED BY <2>9 DEF to, t1
<1> QED BY <1>5, <1>6

LEMMA TextAll ==
  ASSUME NEW X, NEW f, IsFile(f), f.path \in X, NEW limit \in Nat
  PROVE  \A t \in Seq(Nat \ {0}) :
           TextIs(X, f, limit, t, Texting!Result(<<f, limit>>, [pieces |-> <<>>, text |-> <<>>], t))
<1> DEFINE start == [pieces |-> <<>>, text |-> <<>>]
           G == {t \in Seq(Nat \ {0}) : TextIs(X, f, limit, t, Texting!Result(<<f, limit>>, start, t))}
<1>1. <<>> \in G
  <2>1. start.pieces = <<>> /\ start.text = <<>>
    OBVIOUS
  <2>2. <<>> \in Seq(OwnPiece(X, f, limit)) /\ <<>> \in Seq(Nat \ {0})
    BY EmptySeq
  <2>3. start \in TextStates(X, f, limit)
    BY <2>2 DEF TextStates
  <2>4. Lines(X, <<>>) = <<>> /\ Charges(X, <<>>) = 0
    BY NoPieces
  <2>6. TextOK(X, f, limit, <<>>, <<>>, <<>>)
    BY <2>2, <2>4, SumNone DEF TextOK
  <2>7. Texting!Result(<<f, limit>>, start, <<>>) = start
    BY Texting!FoldEmpty
  <2> HIDE DEF start
  <2> QED BY <2>1, <2>3, <2>6, <2>7, EmptySeq DEF TextIs
<1>2. ASSUME NEW t \in Seq(Nat \ {0}), NEW x \in Nat \ {0}, t \in G PROVE Append(t, x) \in G
  <2> DEFINE acc == Texting!Result(<<f, limit>>, start, t)
  <2>1. TextIs(X, f, limit, t, acc)
    BY <1>2
  <2>2. Texting!Result(<<f, limit>>, start, Append(t, x)) = TextStep(<<f, limit>>, acc, x)
    <3> HIDE DEF start
    <3> QED BY Texting!FoldAppend
  <2> HIDE DEF acc
  <2>3. TextIs(X, f, limit, Append(t, x), TextStep(<<f, limit>>, acc, x))
    BY <2>1, TextStepKeeps
  <2> QED BY <2>2, <2>3, AppendProperties
<1> HIDE DEF G
<1>3. Seq(Nat \ {0}) \subseteq G
  BY <1>1, <1>2, SeqInduction
<1> QED BY <1>3 DEF G

\* Text that is cut: every piece is charged what it is, and has no line.
LEMMA TextCut ==
  ASSUME NEW X, NEW f, IsFile(f), f.path \in X, NEW limit \in Nat
  PROVE  /\ TextPieces(f, limit) \in Seq(OwnPiece(X, f, limit))
         /\ Lines(X, TextPieces(f, limit)) = <<>>
         /\ Charges(X, TextPieces(f, limit)) <= SumFunction(f.text)
<1> DEFINE end == Texting!Result(<<f, limit>>, [pieces |-> <<>>, text |-> <<>>], f.text)
           P == TextPieces(f, limit)
<1>1. f.text \in Seq(Nat \ {0})
  BY DEF IsFile
<1>2. TextIs(X, f, limit, f.text, end)
  BY <1>1, TextAll
<1>3. P = IF end.text = <<>> THEN end.pieces ELSE CloseText(f, end)
  BY TextPiecesIs
<1> HIDE DEF end, P
<1>4. TextOK(X, f, limit, f.text, P, <<>>)
  <2>1. CASE end.text = <<>>
    BY <1>2, <1>3, <2>1 DEF TextIs
  <2>2. CASE end.text # <<>>
    BY <1>1, <1>2, <1>3, <2>2, TextClosed
  <2> QED BY <2>1, <2>2
<1>5. P \in Seq(OwnPiece(X, f, limit)) /\ Lines(X, P) = <<>> /\ Charges(X, P) + SumFunction(<<>>) <= SumFunction(f.text)
  BY <1>4 DEF TextOK
<1>6. Charges(X, P) \in Nat
  BY <1>5, PiecesType
<1> QED BY <1>5, <1>6, SumNone DEF P

LEMMA OmittedIs == \A p : p.hunks \in Seq(AnyHunk) => Omitted(p) = Total(OmitOf, p.hunks)
<1> TAKE p
<1> HAVE p.hunks \in Seq(AnyHunk)
<1>1. \A i \in DOMAIN p.hunks : p.hunks[i] \in AnyHunk
  BY LenProperties, ElementOfSeq
<1>2. [i \in DOMAIN p.hunks |-> OmittedBytes(p.hunks[i])] = [i \in DOMAIN p.hunks |-> OmitOf[p.hunks[i]]]
  BY <1>1 DEF OmitOf
<1> QED BY <1>2 DEF Omitted, Total, Map

\* What is to be sent of a file, and what cutting it gives: what is charged
\* beyond the diff's own size is no more than what its headers omit.
WantOf(f, limit) == IF DiffBytes(f) <= limit THEN Parsed(f) ELSE Chosen(Parsed(f), Fit(limit))

CutWell(X, f, limit, P) ==
  /\ P \in Seq(OwnPiece(X, f, limit))
  /\ Lines(X, P) = WantOf(f, limit)
  /\ Charges(X, P) + Weigh(Parsed(f)) <= DiffBytes(f) + Omitted(f) + Weigh(WantOf(f, limit))

LEMMA FileIs ==
  ASSUME NEW f, IsFile(f)
  PROVE  /\ f.hunks \in Seq(AnyHunk) /\ f.text \in Seq(Nat \ {0}) /\ SumFunction(f.text) \in Nat
         /\ Parsed(f) = FlatLines(f.hunks) /\ Parsed(f) \in Seq(PlacedLine)
         /\ Total(WeightOf, f.hunks) \in Nat /\ WrittenAll(f.hunks) \in Nat /\ Omitted(f) \in Nat
         /\ WrittenAll(f.hunks) <= Total(WeightOf, f.hunks) + Omitted(f)
         /\ f.hunks # <<>> => WrittenAll(f.hunks) > 0
         /\ DiffBytes(f) = Total(WeightOf, f.hunks) + SumFunction(f.text) /\ DiffBytes(f) \in Nat
         /\ Weigh(Parsed(f)) \in Nat /\ Weigh(Parsed(f)) <= Total(WeightOf, f.hunks)
         /\ Weigh(Parsed(f)) <= DiffBytes(f)
<1> DEFINE hs == f.hunks
           d == Total(WeightOf, hs)
           t == SumFunction(f.text)
           o == Total(OmitOf, hs)
           w == Weigh(FlatMap(NumberOf, hs))
<1>1. hs \in Seq(AnyHunk) /\ f.text \in Seq(Nat \ {0})
  BY DEF IsFile
<1>2. t \in Nat
  BY <1>1, TextType
<1>3. /\ Parsed(f) = FlatMap(NumberOf, hs) /\ DiffBytes(f) = d + t /\ Omitted(f) = o
  BY <1>1, ParsedIs, DiffBytesIs, OmittedIs
<1>4. /\ Total(WrittenOf, hs) \in Nat /\ d \in Nat /\ o \in Nat /\ Total(WrittenOf, hs) <= d + o
      /\ hs # <<>> => Total(WrittenOf, hs) > 0
      /\ FlatMap(NumberOf, hs) \in Seq(PlacedLine) /\ w \in Nat /\ w <= d
  BY <1>1, HunkTotals
<1> HIDE DEF d, t, o, w
<1>5. d + t \in Nat /\ w <= d + t
  BY <1>2, <1>4
<1> QED BY <1>1, <1>2, <1>3, <1>4, <1>5 DEF d, t, o, w, FlatLines, WrittenAll

LEMMA WantIs ==
  ASSUME NEW f, IsFile(f), NEW limit
  PROVE  /\ WantOf(f, limit) \in Seq(PlacedLine) /\ Weigh(WantOf(f, limit)) \in Nat
         /\ Weigh(WantOf(f, limit)) <= Weigh(Parsed(f)) /\ Weigh(Parsed(f)) \in Nat
         /\ Weigh(WantOf(f, limit)) = Weigh(Parsed(f)) => WantOf(f, limit) = Parsed(f)
<1> DEFINE s == Parsed(f)
           c == Chosen(s, Fit(limit))
<1>1. s \in Seq(PlacedLine) /\ Weigh(s) \in Nat
  BY FileIs
<1> HIDE DEF s
<1>2. c \in Seq(PlacedLine)
  <2>1. c \in Seq(PlacedLine \cap Fit(limit)) /\ PlacedLine \cap Fit(limit) \subseteq PlacedLine
    BY <1>1, ChosenType
  <2> QED BY <2>1, SeqMonotonic
<1>3. Weigh(c) \in Nat /\ Weigh(c) <= Weigh(s) /\ (Weigh(c) = Weigh(s) => c = s)
  <2>1. Lighter(Chosen(s, Fit(limit)), s)
    BY <1>1, WeighChosen
  <2> QED BY <2>1 DEF Lighter
<1> HIDE DEF c
<1>4. WantOf(f, limit) = IF DiffBytes(f) <= limit THEN s ELSE c
  BY DEF WantOf, s, c
<1>5. CASE DiffBytes(f) <= limit
  <2>1. WantOf(f, limit) = s
    BY <1>4, <1>5
  <2>2. Weigh(s) <= Weigh(s)
    BY <1>1
  <2> QED BY <1>1, <2>1, <2>2 DEF s
<1>6. CASE ~(DiffBytes(f) <= limit)
  <2>1. WantOf(f, limit) = c
    BY <1>4, <1>6
  <2> QED BY <1>1, <1>2, <1>3, <2>1 DEF s
<1> QED BY <1>5, <1>6

LEMMA OneMorePieceOf ==
  ASSUME NEW X, NEW p \in AnyPiece(X)
  PROVE  Lines(X, <<p>>) = Parsed(p) /\ Charges(X, <<p>>) = p.charged /\ <<p>> \in Seq(AnyPiece(X))
<1> DEFINE e == <<>>
<1>1. e \in Seq(AnyPiece(X)) /\ Append(e, p) = <<p>> /\ Lines(X, e) = <<>> /\ Charges(X, e) = 0
  BY EmptySeq, NoPieces
<1> HIDE DEF e
<1>2. Lines(X, Append(e, p)) = Lines(X, e) \o Parsed(p) /\ Charges(X, Append(e, p)) = Charges(X, e) + p.charged
  BY <1>1, OneMorePiece
<1>3. Parsed(p) \in Seq(PlacedLine) /\ p.charged \in Nat
  <2>1. ParseOf(X)[p] \in Seq(PlacedLine)
    BY PieceTypes, FValue
  <2> QED BY <2>1 DEF ParseOf, AnyPiece
<1>4. <<>> \o Parsed(p) = Parsed(p)
  BY <1>3, ConcatEmptySeq
<1>5. Append(e, p) \in Seq(AnyPiece(X))
  BY <1>1, AppendProperties
<1> QED BY <1>1, <1>2, <1>3, <1>4, <1>5

LEMMA WholeFile ==
  ASSUME NEW X, NEW f, IsFile(f), f.path \in X, NEW limit \in Nat, DiffBytes(f) <= limit
  PROVE  CutWell(X, f, limit, <<Piece(f, f.hunks, f.text, DiffBytes(f))>>)
<1> DEFINE p == Piece(f, f.hunks, f.text, DiffBytes(f))
           P == <<p>>
           hs == f.hunks
           t == f.text
           c == DiffBytes(f)
<1>1. /\ hs \in Seq(AnyHunk) /\ t \in Seq(Nat \ {0}) /\ SumFunction(t) \in Nat
      /\ Parsed(f) = FlatLines(hs)
      /\ Total(WeightOf, hs) \in Nat
      /\ c = Total(WeightOf, hs) + SumFunction(t) /\ c \in Nat
      /\ Weigh(Parsed(f)) \in Nat /\ Weigh(Parsed(f)) <= c /\ Omitted(f) \in Nat
  BY FileIs
<1>0. c <= limit
  OBVIOUS
<1>2. MadeOf(p, X, f, hs, t, c)
  <2>1. c \in Nat
    BY <1>1
  <2> HIDE DEF p, hs, t, c
  <2>2. MadeOf(Piece(f, hs, t, c), X, f, hs, t, c)
    BY <1>1, <2>1, PieceIs
  <2> QED BY <2>2 DEF p, hs, t, c
<1> HIDE DEF hs, t, p, c
<1>3. /\ p \in AnyPiece(X) /\ p.path = f.path /\ p.deleted = f.deleted
      /\ p.hunks = hs /\ p.text = t /\ p.charged = c /\ p.reviewable = TRUE
      /\ DiffBytes(p) = c /\ Parsed(p) = FlatLines(hs)
  BY <1>1, <1>2 DEF MadeOf, FlatLines
<1>5. p \in OwnPiece(X, f, limit)
  <2>1. Weigh(Parsed(p)) <= p.charged
    BY <1>1, <1>3
  <2> QED BY <1>0, <1>3, <2>1 DEF OwnPiece
<1>6. P \in Seq(OwnPiece(X, f, limit)) /\ Lines(X, P) = FlatLines(hs) /\ Charges(X, P) = c
  <2>1. <<p>> \in Seq(OwnPiece(X, f, limit))
    <3> DEFINE e == <<>>
    <3>1. e \in Seq(OwnPiece(X, f, limit)) /\ Append(e, p) = <<p>>
      BY EmptySeq
    <3> HIDE DEF e
    <3> QED BY <1>5, <3>1, AppendProperties
  <2> QED BY <1>3, <2>1, OneMorePieceOf
<1>7. WantOf(f, limit) = Parsed(f)
  BY <1>0 DEF WantOf, c
<1>8. c + Weigh(Parsed(f)) <= c + Omitted(f) + Weigh(WantOf(f, limit))
  <2> DEFINE a == Weigh(Parsed(f))
             o == Omitted(f)
  <2>1. a \in Nat /\ o \in Nat /\ c \in Nat
    BY <1>1
  <2> HIDE DEF a, o
  <2>2. c + a <= c + o + a
    BY <2>1
  <2> QED BY <1>7, <2>2 DEF a, o
<1>9. CutWell(X, f, limit, P)
  BY <1>1, <1>6, <1>7, <1>8 DEF CutWell, c
<1> QED BY <1>9 DEF P, p, hs, t, c

LEMMA PiecesCut ==
  ASSUME NEW X, NEW f, IsFile(f), f.path \in X, NEW limit \in Nat
  PROVE  CutWell(X, f, limit, Pieces(f, limit))
<1> DEFINE P == Pieces(f, limit)
           c == DiffBytes(f)
           end == Packing!Result(<<f, limit>>, [pieces |-> <<>>, hunks |-> <<>>], f.hunks)
           o == Omitted(f)
           g == Weigh(Parsed(f))
           v == Weigh(WantOf(f, limit))
<1>1. /\ f.hunks \in Seq(AnyHunk) /\ f.text \in Seq(Nat \ {0}) /\ SumFunction(f.text) \in Nat
      /\ Parsed(f) = FlatLines(f.hunks)
      /\ Total(WeightOf, f.hunks) \in Nat /\ WrittenAll(f.hunks) \in Nat
      /\ WrittenAll(f.hunks) <= Total(WeightOf, f.hunks) + o
      /\ c = Total(WeightOf, f.hunks) + SumFunction(f.text)
      /\ Parsed(f) \in Seq(PlacedLine)
      /\ c \in Nat /\ o \in Nat /\ g \in Nat /\ v \in Nat
  BY FileIs, WantIs
<1>2. P = CASE c <= limit -> <<Piece(f, f.hunks, f.text, c)>>
            [] c > limit /\ f.hunks = <<>> -> TextPieces(f, limit)
            [] OTHER -> Flushed(f, end)
  BY PiecesIs
<1> HIDE DEF P, c, end, o, g, v
<1>3. WrittenAll(f.hunks) <= c + o
  BY <1>1
<1>7. ASSUME c > limit PROVE WantOf(f, limit) = Chosen(FlatLines(f.hunks), Fit(limit))
  BY <1>1, <1>7 DEF WantOf, c
<1>4. CASE c <= limit
  <2>1. P = <<Piece(f, f.hunks, f.text, c)>>
    BY <1>1, <1>2, <1>4
  <2>2. CutWell(X, f, limit, <<Piece(f, f.hunks, f.text, c)>>)
    BY <1>4, WholeFile DEF c
  <2> QED BY <2>1, <2>2 DEF P
<1>5. CASE c > limit /\ f.hunks = <<>>
  <2>1. P = TextPieces(f, limit)
    BY <1>1, <1>2, <1>5
  <2>2. P \in Seq(OwnPiece(X, f, limit)) /\ Lines(X, P) = <<>> /\ Charges(X, P) <= SumFunction(f.text)
    BY <2>1, TextCut
  <2>3. Charges(X, P) \in Nat
    BY <2>2, PiecesType
  <2>4. Parsed(f) = <<>> /\ WantOf(f, limit) = <<>>
    BY <1>1, <1>5, <1>7, NoHunks, ChosenEmpty DEF FlatLines
  <2>5. g = 0 /\ v = 0
    BY <2>4, WeighNone DEF g, v
  <2>6. Charges(X, P) + g <= c + o + v
    BY <1>1, <2>2, <2>3, <2>5
  <2>7. CutWell(X, f, limit, P)
    BY <2>2, <2>4, <2>6 DEF CutWell, c, o, g, v
  <2> QED BY <2>7 DEF P
<1>6. CASE c > limit /\ f.hunks # <<>>
  <2>1. P = Flushed(f, end)
    BY <1>1, <1>2, <1>6
  <2>2. PackIs(X, f, limit, f.hunks, end)
    BY <1>1, PackAll DEF end
  <2>3. end \in PackStates(X, f, limit) /\ PackOK(X, f, limit, f.hunks, end.pieces, end.hunks)
    BY <2>2 DEF PackIs
  <2>4. Whole(end.hunks) = WrittenAll(end.hunks)
    BY <2>3, WholeIs DEF PackStates
  <2>5. P = FlushOf(f, end.pieces, end.hunks)
    BY <2>1, <2>4 DEF Flushed, FlushOf
  <2>6. PackOK(X, f, limit, f.hunks, P, <<>>)
    BY <1>1, <2>3, <2>5, FlushKeeps
  <2>7. /\ P \in Seq(OwnPiece(X, f, limit))
        /\ Lines(X, P) \o FlatLines(<<>>) = WantOf(f, limit)
        /\ Charges(X, P) + WrittenAll(<<>>) + g <= WrittenAll(f.hunks) + v
    <3>1. WantOf(f, limit) = Chosen(FlatLines(f.hunks), Fit(limit))
      BY <1>6, <1>7
    <3> QED BY <1>1, <2>6, <3>1 DEF PackOK, g, v
  <2>8. Lines(X, P) \in Seq(PlacedLine) /\ Charges(X, P) \in Nat
    BY <2>7, PiecesType
  <2>9. FlatLines(<<>>) = <<>> /\ WrittenAll(<<>>) = 0 /\ Lines(X, P) \o <<>> = Lines(X, P)
    BY <2>8, NoHunks, ConcatEmptySeq DEF FlatLines, WrittenAll
  <2>10. Charges(X, P) + g <= c + o + v
    <3> DEFINE a == Charges(X, P)
               w == WrittenAll(f.hunks)
    <3>1. a \in Nat /\ w \in Nat /\ a + 0 + g <= w + v /\ w <= c + o
      BY <1>1, <1>3, <2>7, <2>8, <2>9
    <3> HIDE DEF a, w
    <3>2. a + g <= c + o + v
      BY <1>1, <3>1
    <3> QED BY <3>2 DEF a
  <2>11. Lines(X, P) = WantOf(f, limit)
    BY <2>7, <2>9
  <2>13. CutWell(X, f, limit, P)
    BY <2>7, <2>10, <2>11 DEF CutWell, c, o, g, v
  <2> QED BY <2>13 DEF P
<1>8. c <= limit \/ c > limit
  BY <1>1
<1> QED BY <1>4, <1>5, <1>6, <1>8

(* Tests of the model as sets of what passes them.                         *)

FilesOwn(X, path) == {p \in AnyPiece(X) : p.path = path}

LEMMA OfIs ==
  ASSUME NEW X, NEW path
  PROVE  \A s \in Seq(AnyPiece(X)) : Of(path, s) = Chosen(s, FilesOwn(X, path))
<1> SUFFICES ASSUME NEW s \in Seq(AnyPiece(X))
             PROVE  Of(path, s) = Chosen(s, FilesOwn(X, path))
  OBVIOUS
<1> DEFINE F(it) == [t \in SUBSET DOMAIN s |->
                       IF t = {} THEN <<>>
                       ELSE IF s[Max(t)].path = path
                            THEN Append(it[t \ {Max(t)}], s[Max(t)]) ELSE it[t \ {Max(t)}]]
<1>1. Of(path, s) = (CHOOSE it : it = F(it))[DOMAIN s]
  BY DEF Of, Only, FoldLeft, MapThenFoldSet, Max
<1>2. \A x \in AnyPiece(X) : x.path = path <=> x \in FilesOwn(X, path)
  BY DEF FilesOwn
<1>3. \A it : F(it) = Keeping(FilesOwn(X, path), s, it)
  BY <1>2, LastElement DEF Keeping, KeepStep
<1> HIDE DEF F
<1>4. (CHOOSE it : it = F(it)) = (CHOOSE it : it = Keeping(FilesOwn(X, path), s, it))
  BY <1>3, Zenon
<1> QED BY <1>1, <1>4, ChosenIs

Reviewable(X) == {p \in AnyPiece(X) : p.reviewable}

LEMMA ReviewableIs ==
  ASSUME NEW X
  PROVE  \A s \in Seq(AnyPiece(X)) : Only(s, LAMBDA p : p.reviewable) = Chosen(s, Reviewable(X))
<1> SUFFICES ASSUME NEW s \in Seq(AnyPiece(X))
             PROVE  Only(s, LAMBDA p : p.reviewable) = Chosen(s, Reviewable(X))
  OBVIOUS
<1> DEFINE F(it) == [t \in SUBSET DOMAIN s |->
                       IF t = {} THEN <<>>
                       ELSE IF s[Max(t)].reviewable
                            THEN Append(it[t \ {Max(t)}], s[Max(t)]) ELSE it[t \ {Max(t)}]]
<1>1. Only(s, LAMBDA p : p.reviewable) = (CHOOSE it : it = F(it))[DOMAIN s]
  BY DEF Only, FoldLeft, MapThenFoldSet, Max
<1>2. \A x \in AnyPiece(X) : x.reviewable <=> x \in Reviewable(X)
  BY DEF Reviewable
<1>3. \A it : F(it) = Keeping(Reviewable(X), s, it)
  BY <1>2, LastElement DEF Keeping, KeepStep
<1> HIDE DEF F
<1>4. (CHOOSE it : it = F(it)) = (CHOOSE it : it = Keeping(Reviewable(X), s, it))
  BY <1>3, Zenon
<1> QED BY <1>1, <1>4, ChosenIs

(* The pieces of all files.                                                *)

LinesFrom(p, f) == Parsed(p) \in Seq({Parsed(f)[k] : k \in DOMAIN Parsed(f)})
TrueOf(X, f) == {p \in AnyPiece(X) : p.path = f.path /\ LinesFrom(p, f)}

\* A piece of one of the files U.
GoodPiece(X, U, limit) ==
  {p \in AnyPiece(X) :
     /\ p.reviewable => DiffBytes(p) <= limit \/ (Len(p.text) = 1 /\ p.hunks = <<>>)
     /\ p.hunks # <<>> => p.reviewable
     /\ Weigh(Parsed(p)) <= p.charged
     /\ ~p.reviewable => p.charged = 0
     /\ \E f \in U : p.path = f.path /\ LinesFrom(p, f)}

FilesIn(X, U) == \A f \in U : IsFile(f) /\ f.path \in X
PiecesOf(U, limit) == [f \in U |-> Pieces(f, limit)]

LEMMA SeqWithin == ASSUME NEW U, NEW s \in Seq(U), NEW V, \A i \in DOMAIN s : s[i] \in V PROVE s \in Seq(V)
<1>1. Len(s) \in Nat /\ DOMAIN s = 1..Len(s) /\ s \in [1..Len(s) -> U]
  BY LenProperties
<1>2. s = [i \in 1..Len(s) |-> s[i]]
  BY <1>1
<1>3. s \in [1..Len(s) -> V]
  BY <1>1, <1>2
<1> QED BY <1>1, <1>3, SeqDef

LEMMA ConcatWithin ==
  ASSUME NEW U, NEW s \in Seq(U), NEW t \in Seq(U), NEW V, s \o t \in Seq(V)
  PROVE  s \in Seq(V) /\ t \in Seq(V)
<1> DEFINE r == s \o t
           m == Len(s)
           n == Len(t)
<1>1. /\ m \in Nat /\ n \in Nat /\ DOMAIN s = 1..m /\ DOMAIN t = 1..n /\ Len(r) = m + n
      /\ \A i \in 1..(m + n) : r[i] = IF i <= m THEN s[i] ELSE t[i - m]
  BY LenProperties, ConcatProperties
<1>2. \A i \in 1..(m + n) : r[i] \in V
  BY <1>1, ElementOfSeq
<1> HIDE DEF r, m, n
<1>3. \A i \in DOMAIN s : s[i] \in V
  <2> TAKE i \in DOMAIN s
  <2>1. i \in 1..(m + n) /\ i <= m
    BY <1>1
  <2> QED BY <1>1, <1>2, <2>1
<1>4. \A i \in DOMAIN t : t[i] \in V
  <2> TAKE i \in DOMAIN t
  <2>1. m + i \in 1..(m + n) /\ ~(m + i <= m) /\ (m + i) - m = i
    BY <1>1
  <2> QED BY <1>1, <1>2, <2>1
<1> QED BY <1>3, <1>4, SeqWithin

LEMMA ParsedType == ASSUME NEW X PROVE \A p \in AnyPiece(X) : Parsed(p) \in Seq(PlacedLine)
<1> TAKE p \in AnyPiece(X)
<1>1. ParseOf(X)[p] \in Seq(PlacedLine)
  BY PieceTypes, FValue
<1> QED BY <1>1 DEF ParseOf

\* Lines that all pieces have together, each has.
LEMMA LinesWithin ==
  ASSUME NEW X, NEW V
  PROVE  \A P \in Seq(AnyPiece(X)) : Lines(X, P) \in Seq(V) => P \in Seq({p \in AnyPiece(X) : Parsed(p) \in Seq(V)})
<1> DEFINE W == {p \in AnyPiece(X) : Parsed(p) \in Seq(V)}
           G == {P \in Seq(AnyPiece(X)) : Lines(X, P) \in Seq(V) => P \in Seq(W)}
<1>1. <<>> \in G
  BY EmptySeq
<1>2. ASSUME NEW P \in Seq(AnyPiece(X)), NEW p \in AnyPiece(X), P \in G PROVE Append(P, p) \in G
  <2> DEFINE R == Append(P, p)
  <2>1. Lines(X, P) \in Seq(PlacedLine) /\ Lines(X, R) = Lines(X, P) \o Parsed(p) /\ Parsed(p) \in Seq(PlacedLine)
    BY OneMorePiece, ParsedType
  <2>2. ASSUME Lines(X, R) \in Seq(V) PROVE R \in Seq(W)
    <3> HIDE DEF R
    <3>1. Lines(X, P) \o Parsed(p) \in Seq(V)
      BY <2>1, <2>2
    <3>2. Lines(X, P) \in Seq(V) /\ Parsed(p) \in Seq(V)
      BY <2>1, <3>1, ConcatWithin
    <3>3. P \in Seq(W) /\ p \in W
      BY <1>2, <3>2
    <3> HIDE DEF W
    <3> QED BY <3>3, AppendProperties DEF R
  <2>3. R \in Seq(AnyPiece(X))
    BY AppendProperties
  <2> QED BY <2>2, <2>3
<1> HIDE DEF G
<1>3. Seq(AnyPiece(X)) \subseteq G
  BY <1>1, <1>2, SeqInduction
<1> QED BY <1>3 DEF G, W

LEMMA PiecesGood ==
  ASSUME NEW X, NEW U, FilesIn(X, U), NEW limit \in Nat, NEW f \in U
  PROVE  /\ Pieces(f, limit) \in Seq(GoodPiece(X, U, limit))
         /\ Pieces(f, limit) \in Seq(OwnPiece(X, f, limit))
         /\ Pieces(f, limit) \in Seq(AnyPiece(X))
         /\ Lines(X, Pieces(f, limit)) = WantOf(f, limit)
<1> DEFINE P == Pieces(f, limit)
           T == {Parsed(f)[k] : k \in DOMAIN Parsed(f)}
           W == {p \in AnyPiece(X) : Parsed(p) \in Seq(T)}
<1>0. IsFile(f) /\ f.path \in X
  BY DEF FilesIn
<1>1. P \in Seq(OwnPiece(X, f, limit)) /\ Lines(X, P) = WantOf(f, limit)
  BY <1>0, PiecesCut DEF CutWell
<1> HIDE DEF P
<1>2. P \in Seq(AnyPiece(X))
  BY <1>1, OwnIsPiece
<1>3. WantOf(f, limit) \in Seq(T)
  <2>1. Parsed(f) \in Seq(PlacedLine)
    BY <1>0, FileIs
  <2>2. Parsed(f) \in Seq(T)
    <3>1. \A k \in DOMAIN Parsed(f) : Parsed(f)[k] \in T
      OBVIOUS
    <3> HIDE DEF T
    <3> QED BY <2>1, <3>1, SeqWithin
  <2> HIDE DEF T
  <2>3. Chosen(Parsed(f), Fit(limit)) \in Seq(T \cap Fit(limit))
    BY <2>2, ChosenType
  <2>4. T \cap Fit(limit) \subseteq T
    OBVIOUS
  <2>5. Chosen(Parsed(f), Fit(limit)) \in Seq(T)
    BY <2>3, <2>4, SeqMonotonic
  <2> QED BY <2>2, <2>5 DEF WantOf
<1>4. P \in Seq(W)
  <2> HIDE DEF T
  <2> QED BY <1>1, <1>2, <1>3, LinesWithin
<1>5. \A i \in DOMAIN P : P[i] \in OwnPiece(X, f, limit) /\ P[i] \in W
  <2> HIDE DEF W
  <2> QED BY <1>1, <1>4, LenProperties, ElementOfSeq
<1>6. \A p \in OwnPiece(X, f, limit) : p \in W => p \in GoodPiece(X, U, limit)
  <2> TAKE p \in OwnPiece(X, f, limit)
  <2> HAVE p \in W
  <2>1. LinesFrom(p, f)
    BY DEF LinesFrom
  <2> QED BY <2>1 DEF OwnPiece, GoodPiece
<1> HIDE DEF W
<1>7. \A i \in DOMAIN P : P[i] \in GoodPiece(X, U, limit)
  BY <1>5, <1>6
<1>8. P \in Seq(GoodPiece(X, U, limit))
  BY <1>1, <1>7, SeqWithin
<1> QED BY <1>1, <1>2, <1>8 DEF P

LEMMA PiecesOfMaps ==
  ASSUME NEW X, NEW U, FilesIn(X, U), NEW limit \in Nat
  PROVE  /\ Maps(PiecesOf(U, limit), U, Seq(GoodPiece(X, U, limit)))
         /\ Maps(PiecesOf(U, limit), U, Seq(AnyPiece(X)))
  BY PiecesGood DEF Maps, PiecesOf

LEMMA AllPiecesIs ==
  ASSUME NEW X, NEW U, FilesIn(X, U), NEW limit \in Nat, NEW list \in Seq(U)
  PROVE  /\ AllPieces(list, limit) = FlatMap(PiecesOf(U, limit), list)
         /\ AllPieces(list, limit) \in Seq(GoodPiece(X, U, limit))
         /\ AllPieces(list, limit) \in Seq(AnyPiece(X))
<1>1. \A i \in DOMAIN list : list[i] \in U
  BY LenProperties, ElementOfSeq
<1>2. [i \in DOMAIN list |-> Pieces(list[i], limit)] = [i \in DOMAIN list |-> PiecesOf(U, limit)[list[i]]]
  BY <1>1 DEF PiecesOf
<1>3. AllPieces(list, limit) = FlatMap(PiecesOf(U, limit), list)
  BY <1>2 DEF AllPieces, FlatMap, Map
<1>4. FlatMap(PiecesOf(U, limit), list) \in Seq(GoodPiece(X, U, limit))
  BY PiecesOfMaps, FlatMapConcat
<1>5. FlatMap(PiecesOf(U, limit), list) \in Seq(AnyPiece(X))
  BY PiecesOfMaps, FlatMapConcat
<1> QED BY <1>3, <1>4, <1>5

LEMMA OwnChosen ==
  ASSUME NEW X, NEW U, FilesIn(X, U), NEW limit \in Nat, NEW f \in U, NEW path
  PROVE  Chosen(Pieces(f, limit), FilesOwn(X, path)) = IF f.path = path THEN Pieces(f, limit) ELSE <<>>
<1> DEFINE P == Pieces(f, limit)
           O == OwnPiece(X, f, limit)
<1>1. P \in Seq(O)
  BY PiecesGood
<1>2. \A p \in O : p \in FilesOwn(X, path) <=> f.path = path
  BY DEF OwnPiece, FilesOwn
<1> HIDE DEF P, O
<1>3. CASE f.path = path
  <2>1. \A p \in O : p \in FilesOwn(X, path) <=> p \in O
    BY <1>2, <1>3
  <2>2. Chosen(P, FilesOwn(X, path)) = Chosen(P, O)
    BY <1>1, <2>1, ChosenSame
  <2>3. Chosen(P, O) = P
    BY <1>1, ChosenAll
  <2> QED BY <1>3, <2>2, <2>3 DEF P
<1>4. CASE f.path # path
  <2>1. \A p \in O : p \in FilesOwn(X, path) <=> p \in {}
    BY <1>2, <1>4
  <2>2. Chosen(P, FilesOwn(X, path)) = Chosen(P, {})
    BY <1>1, <2>1, ChosenSame
  <2>3. Chosen(P, {}) = <<>>
    BY <1>1, ChosenAll
  <2> QED BY <1>4, <2>2, <2>3 DEF P
<1> QED BY <1>3, <1>4

\* No file of the list has this path, or only the one at i.
Nowhere(list, path) == \A j \in DOMAIN list : list[j].path # path
OnlyAt(list, i, path) == \A j \in DOMAIN list : list[j].path = path <=> j = i

LEMMA NoneOwn ==
  ASSUME NEW X, NEW U, FilesIn(X, U), NEW limit \in Nat, NEW path
  PROVE  \A list \in Seq(U) : Nowhere(list, path) => Chosen(AllPieces(list, limit), FilesOwn(X, path)) = <<>>
<1> DEFINE F == PiecesOf(U, limit)
           C(list) == Chosen(FlatMap(F, list), FilesOwn(X, path))
           G == {list \in Seq(U) : Nowhere(list, path) => C(list) = <<>>}
<1>1. <<>> \in G
  BY EmptySeq, MapEmpty, ChosenEmpty
<1>2. ASSUME NEW s \in Seq(U), NEW f \in U, s \in G PROVE Append(s, f) \in G
  <2> DEFINE r == Append(s, f)
  <2>1. r \in Seq(U) /\ Len(s) \in Nat /\ DOMAIN s = 1..Len(s) /\ DOMAIN r = 1..(Len(s) + 1)
        /\ (\A i \in 1..Len(s) : r[i] = s[i]) /\ r[Len(s) + 1] = f
    BY AppendProperties, LenProperties
  <2>2. FlatMap(F, s) \in Seq(AnyPiece(X)) /\ FlatMap(F, r) = FlatMap(F, s) \o F[f]
    <3> HIDE DEF F
    <3> QED BY PiecesOfMaps, FlatMapAppend DEF F
  <2>3. F[f] = Pieces(f, limit) /\ Pieces(f, limit) \in Seq(AnyPiece(X))
    BY PiecesGood DEF PiecesOf
  <2> HIDE DEF F, r
  <2>4. C(r) = C(s) \o Chosen(Pieces(f, limit), FilesOwn(X, path))
    BY <2>2, <2>3, ChosenConcat
  <2>5. ASSUME Nowhere(r, path) PROVE C(r) = <<>>
    <3>1. Nowhere(s, path) /\ f.path # path
      BY <2>1, <2>5 DEF Nowhere
    <3>2. C(s) = <<>> /\ Chosen(Pieces(f, limit), FilesOwn(X, path)) = <<>>
      BY <1>2, <3>1, OwnChosen
    <3>3. <<>> \o <<>> = <<>>
      OBVIOUS
    <3> HIDE DEF C
    <3> QED BY <2>4, <3>2, <3>3
  <2>6. r \in G
    BY <2>1, <2>5
  <2> QED BY <2>6 DEF r
<1> HIDE DEF G
<1>3. Seq(U) \subseteq G
  BY <1>1, <1>2, SeqInduction
<1>4. \A list \in Seq(U) : AllPieces(list, limit) = FlatMap(F, list)
  BY AllPiecesIs
<1> QED BY <1>3, <1>4 DEF G, C

LEMMA OneOwn ==
  ASSUME NEW X, NEW U, FilesIn(X, U), NEW limit \in Nat, NEW path
  PROVE  \A list \in Seq(U) : \A i \in DOMAIN list :
           OnlyAt(list, i, path) =>
             Chosen(AllPieces(list, limit), FilesOwn(X, path)) = Pieces(list[i], limit)
<1> DEFINE F == PiecesOf(U, limit)
           C(list) == Chosen(FlatMap(F, list), FilesOwn(X, path))
           G == {list \in Seq(U) : \A i \in DOMAIN list : OnlyAt(list, i, path) => C(list) = Pieces(list[i], limit)}
<1>1. <<>> \in G
  BY EmptySeq
<1>0. \A list \in Seq(U) : AllPieces(list, limit) = FlatMap(F, list)
  BY AllPiecesIs
<1>2. ASSUME NEW s \in Seq(U), NEW f \in U, s \in G PROVE Append(s, f) \in G
  <2> DEFINE r == Append(s, f)
             n == Len(s)
  <2>1. r \in Seq(U) /\ n \in Nat /\ DOMAIN s = 1..n /\ DOMAIN r = 1..(n + 1)
        /\ (\A i \in 1..n : r[i] = s[i] /\ s[i] \in U) /\ r[n + 1] = f
    BY AppendProperties, LenProperties, ElementOfSeq
  <2>2. FlatMap(F, s) \in Seq(AnyPiece(X)) /\ FlatMap(F, r) = FlatMap(F, s) \o F[f]
    <3> HIDE DEF F
    <3> QED BY PiecesOfMaps, FlatMapAppend DEF F
  <2>3. F[f] = Pieces(f, limit) /\ Pieces(f, limit) \in Seq(AnyPiece(X))
    BY PiecesGood DEF PiecesOf
  <2> HIDE DEF F, r, n
  <2>4. C(r) = C(s) \o Chosen(Pieces(f, limit), FilesOwn(X, path))
    BY <2>2, <2>3, ChosenConcat
  <2>5. ASSUME NEW i \in DOMAIN r, OnlyAt(r, i, path) PROVE C(r) = Pieces(r[i], limit)
    <3>1. CASE i = n + 1
      <4>1. Nowhere(s, path) /\ f.path = path /\ r[i] = f
        <5>1. \A j \in 1..n : j # n + 1 /\ j \in DOMAIN r
          BY <2>1
        <5> QED BY <2>1, <2>5, <3>1, <5>1 DEF OnlyAt, Nowhere
      <4>2. C(s) = <<>>
        BY <1>0, <4>1, NoneOwn
      <4>3. Chosen(Pieces(f, limit), FilesOwn(X, path)) = Pieces(f, limit)
        BY <4>1, OwnChosen
      <4>4. <<>> \o Pieces(f, limit) = Pieces(f, limit)
        BY <2>3, ConcatEmptySeq
      <4> HIDE DEF C
      <4> QED BY <2>4, <4>1, <4>2, <4>3, <4>4
    <3>2. CASE i # n + 1
      <4>0. i \in 1..n /\ n + 1 \in DOMAIN r /\ \A j \in 1..n : j \in DOMAIN r
        BY <2>1, <3>2
      <4>1. OnlyAt(s, i, path) /\ f.path # path /\ r[i] = s[i] /\ s[i] \in U /\ i \in DOMAIN s
        BY <2>1, <2>5, <3>2, <4>0 DEF OnlyAt
      <4>2. C(s) = Pieces(s[i], limit)
        BY <1>2, <4>1
      <4>3. Chosen(Pieces(f, limit), FilesOwn(X, path)) = <<>>
        BY <4>1, OwnChosen
      <4>4. Pieces(s[i], limit) \o <<>> = Pieces(s[i], limit)
        <5>1. Pieces(s[i], limit) \in Seq(AnyPiece(X))
          BY <4>1, PiecesGood
        <5> QED BY <5>1, ConcatEmptySeq
      <4> HIDE DEF C
      <4> QED BY <2>4, <4>1, <4>2, <4>3, <4>4
    <3> QED BY <3>1, <3>2
  <2>6. r \in G
    BY <2>1, <2>5
  <2> QED BY <2>6 DEF r
<1> HIDE DEF G
<1>3. Seq(U) \subseteq G
  BY <1>1, <1>2, SeqInduction
<1> QED BY <1>0, <1>3 DEF G, C

\* Pieces that are not sent hold no lines.
LEMMA SentHoldLines ==
  ASSUME NEW X, NEW U, NEW limit \in Nat
  PROVE  \A P \in Seq(GoodPiece(X, U, limit)) : Lines(X, Chosen(P, Reviewable(X))) = Lines(X, P)
<1> DEFINE W == GoodPiece(X, U, limit)
           R == Reviewable(X)
           G == {P \in Seq(W) : Lines(X, Chosen(P, R)) = Lines(X, P)}
<1>1. <<>> \in G
  BY EmptySeq, ChosenEmpty
<1>2. ASSUME NEW P \in Seq(W), NEW p \in W, P \in G PROVE Append(P, p) \in G
  <2>1. P \in Seq(AnyPiece(X)) /\ p \in AnyPiece(X) /\ Chosen(P, R) \in Seq(AnyPiece(X))
    <3>1. W \subseteq AnyPiece(X)
      BY DEF GoodPiece
    <3> HIDE DEF W, R
    <3>2. P \in Seq(AnyPiece(X)) /\ p \in AnyPiece(X)
      BY <3>1, SeqMonotonic
    <3>3. Chosen(P, R) \in Seq(AnyPiece(X) \cap R) /\ AnyPiece(X) \cap R \subseteq AnyPiece(X)
      BY <3>2, ChosenType
    <3> QED BY <3>2, <3>3, SeqMonotonic
  <2>2. p.reviewable \in BOOLEAN /\ p.hunks \in Seq(AnyHunk)
    BY <2>1 DEF AnyPiece
  <2>3. Lines(X, Append(P, p)) = Lines(X, P) \o Parsed(p) /\ Lines(X, P) \in Seq(PlacedLine)
    BY <2>1, OneMorePiece
  <2>4. Chosen(Append(P, p), R) = IF p \in R THEN Append(Chosen(P, R), p) ELSE Chosen(P, R)
    <3> HIDE DEF R
    <3> QED BY <2>1, ChosenAppend
  <2>5. p \in R <=> p.reviewable
    BY <2>1 DEF Reviewable
  <2>6. Lines(X, Chosen(P, R)) = Lines(X, P)
    BY <1>2
  <2>7. CASE p.reviewable
    <3> HIDE DEF R
    <3>1. Lines(X, Append(Chosen(P, R), p)) = Lines(X, Chosen(P, R)) \o Parsed(p)
      BY <2>1, OneMorePiece
    <3>2. Lines(X, Chosen(Append(P, p), R)) = Lines(X, Append(P, p))
      BY <2>3, <2>4, <2>5, <2>6, <2>7, <3>1
    <3> QED BY <3>2, AppendProperties
  <2>8. CASE ~p.reviewable
    <3>1. p.hunks = <<>>
      BY <2>8 DEF GoodPiece
    <3>2. Parsed(p) = <<>>
      BY <2>2, <3>1, ParsedIs, MapEmpty
    <3>3. Lines(X, P) \o <<>> = Lines(X, P)
      BY <2>3, ConcatEmptySeq
    <3> HIDE DEF R
    <3>4. Lines(X, Chosen(Append(P, p), R)) = Lines(X, Append(P, p))
      BY <2>3, <2>4, <2>5, <2>6, <2>8, <3>2, <3>3
    <3> QED BY <3>4, AppendProperties
  <2> QED BY <2>2, <2>7, <2>8
<1> HIDE DEF G
<1>3. Seq(W) \subseteq G
  <2> HIDE DEF W
  <2> QED BY <1>1, <1>2, SeqInduction
<1> QED BY <1>3 DEF G

\* What of a file can be sent, is in the pieces of that file that are sent.
LEMMA FileLines ==
  ASSUME NEW X, NEW U, FilesIn(X, U), NEW limit \in Nat, NEW list \in Seq(U), NEW i \in DOMAIN list,
         OnlyAt(list, i, list[i].path)
  PROVE  Lines(X, Chosen(Chosen(AllPieces(list, limit), Reviewable(X)), FilesOwn(X, list[i].path)))
           = WantOf(list[i], limit)
<1> DEFINE A == AllPieces(list, limit)
           R == Reviewable(X)
           O == FilesOwn(X, list[i].path)
           P == Pieces(list[i], limit)
<1>1. A \in Seq(AnyPiece(X))
  BY AllPiecesIs
<1>2. list[i] \in U
  BY LenProperties, ElementOfSeq
<1>3. P \in Seq(GoodPiece(X, U, limit)) /\ Lines(X, P) = WantOf(list[i], limit)
  BY <1>2, PiecesGood
<1>4. Chosen(A, O) = P
  BY OneOwn
<1> HIDE DEF A, R, O, P
<1>5. Chosen(Chosen(A, R), O) = Chosen(A, R \cap O) /\ Chosen(Chosen(A, O), R) = Chosen(A, O \cap R)
  BY <1>1, ChosenTwice
<1>6. R \cap O = O \cap R
  OBVIOUS
<1>7. Chosen(Chosen(A, R), O) = Chosen(P, R)
  BY <1>4, <1>5, <1>6
<1>8. Lines(X, Chosen(P, R)) = Lines(X, P)
  BY <1>3, SentHoldLines DEF R
<1> QED BY <1>3, <1>7, <1>8 DEF A, R, O

(* Pieces into batches.                                                    *)

BatchStep(limit, acc, piece) == TakePiece(acc, piece, limit)
Batching == INSTANCE FoldFacts WITH Op <- BatchStep

LEMMA BatchesIs ==
  ASSUME NEW pieces, NEW limit
  PROVE  Batches(pieces, limit) =
           LET end == Batching!Result(limit, [batches |-> <<>>, batch |-> <<>>], pieces)
           IN  IF end.batch = <<>> THEN end.batches ELSE Append(end.batches, end.batch)
<1> QED BY DEF Batches, FoldLeft, MapThenFoldSet, Batching!Result, BatchStep, Batching!Max, Max

\* Pieces that are sent, and batches of them that are not too large.
SentPiece(X, U, limit) == GoodPiece(X, U, limit) \cap Reviewable(X)
FitBatch(limit, b) ==
  /\ b # <<>>
  /\ BatchBytes(b) <= limit \/ (Len(b) = 1 /\ Len(b[1].text) = 1 /\ b[1].hunks = <<>>)
FitBatches(X, U, limit) == {b \in Seq(SentPiece(X, U, limit)) : FitBatch(limit, b)}

BatchOK(X, U, limit, s, B, b) ==
  /\ B \in Seq(FitBatches(X, U, limit)) /\ b \in Seq(SentPiece(X, U, limit))
  /\ FlattenSeq(B) \o b = s
  /\ b = <<>> => B = <<>>
  /\ b # <<>> => FitBatch(limit, b)

BatchStates(X, U, limit) == [batches : Seq(FitBatches(X, U, limit)), batch : Seq(SentPiece(X, U, limit))]
BatchIs(X, U, limit, s, acc) ==
  acc \in BatchStates(X, U, limit) /\ BatchOK(X, U, limit, s, acc.batches, acc.batch)

LEMMA BatchBytesIs ==
  ASSUME NEW X
  PROVE  \A b \in Seq(AnyPiece(X)) : BatchBytes(b) = Total(SizeOf(X), b) /\ BatchBytes(b) \in Nat
<1> TAKE b \in Seq(AnyPiece(X))
<1>1. \A i \in DOMAIN b : b[i] \in AnyPiece(X)
  BY LenProperties, ElementOfSeq
<1>2. [i \in DOMAIN b |-> DiffBytes(b[i])] = [i \in DOMAIN b |-> SizeOf(X)[b[i]]]
  BY <1>1 DEF SizeOf
<1>3. BatchBytes(b) = Total(SizeOf(X), b)
  BY <1>2 DEF BatchBytes, Total, Map
<1> QED BY <1>3, PieceTypes, TotalType

LEMMA SentTypes ==
  ASSUME NEW X, NEW U, NEW limit
  PROVE  /\ SentPiece(X, U, limit) \subseteq AnyPiece(X) /\ Seq(SentPiece(X, U, limit)) \subseteq Seq(AnyPiece(X))
         /\ FitBatches(X, U, limit) \subseteq Seq(SentPiece(X, U, limit))
         /\ Seq(FitBatches(X, U, limit)) \subseteq Seq(Seq(SentPiece(X, U, limit)))
<1>1. SentPiece(X, U, limit) \subseteq AnyPiece(X) /\ FitBatches(X, U, limit) \subseteq Seq(SentPiece(X, U, limit))
  BY DEF SentPiece, GoodPiece, FitBatches
<1> QED BY <1>1, SeqMonotonic

LEMMA OneFits ==
  ASSUME NEW X, NEW U, NEW limit \in Nat, NEW p \in SentPiece(X, U, limit)
  PROVE  <<p>> \in Seq(SentPiece(X, U, limit)) /\ FitBatch(limit, <<p>>)
<1> DEFINE b == <<p>>
           e == <<>>
<1>1. p \in AnyPiece(X) /\ p.reviewable
  BY SentTypes DEF SentPiece, Reviewable
<1>2. DiffBytes(p) <= limit \/ (Len(p.text) = 1 /\ p.hunks = <<>>)
  BY <1>1 DEF SentPiece, GoodPiece
<1>3. /\ b \in Seq(SentPiece(X, U, limit)) /\ b \in Seq(AnyPiece(X)) /\ b = Append(e, p) /\ e \in Seq(AnyPiece(X))
      /\ b # <<>> /\ Len(b) = 1 /\ b[1] = p
  BY <1>1, EmptySeq
<1>4. Total(SizeOf(X), e) = 0
  BY MapEmpty
<1>5. DiffBytes(p) \in Nat /\ SizeOf(X)[p] = DiffBytes(p)
  <2>1. SizeOf(X)[p] \in Nat
    BY <1>1, PieceTypes, FValue
  <2> QED BY <1>1, <2>1 DEF SizeOf
<1> HIDE DEF b, e
<1>6. Total(SizeOf(X), Append(e, p)) = Total(SizeOf(X), e) + SizeOf(X)[p]
  BY <1>1, <1>3, PieceTypes, TotalAppend
<1>7. BatchBytes(b) = DiffBytes(p)
  <2>1. BatchBytes(b) = Total(SizeOf(X), b)
    BY <1>3, BatchBytesIs
  <2>2. Total(SizeOf(X), b) = 0 + DiffBytes(p)
    BY <1>3, <1>4, <1>5, <1>6
  <2> QED BY <1>5, <2>1, <2>2
<1>8. FitBatch(limit, b)
  BY <1>2, <1>3, <1>7 DEF FitBatch
<1> QED BY <1>3, <1>8 DEF b

LEMMA BatchClosed ==
  ASSUME NEW X, NEW U, NEW limit \in Nat, NEW s, NEW B, NEW b, BatchOK(X, U, limit, s, B, b), b # <<>>
  PROVE  Append(B, b) \in Seq(FitBatches(X, U, limit)) /\ FlattenSeq(Append(B, b)) = s
<1>1. B \in Seq(FitBatches(X, U, limit)) /\ b \in FitBatches(X, U, limit) /\ FlattenSeq(B) \o b = s
  BY DEF BatchOK, FitBatches
<1>2. B \in Seq(Seq(SentPiece(X, U, limit))) /\ b \in Seq(SentPiece(X, U, limit))
  BY <1>1, SentTypes
<1> QED BY <1>1, <1>2, AppendProperties, FlattenAppend

LEMMA BatchStepKeeps ==
  ASSUME NEW X, NEW U, NEW limit \in Nat, NEW s \in Seq(SentPiece(X, U, limit)),
         NEW acc, BatchIs(X, U, limit, s, acc), NEW p \in SentPiece(X, U, limit)
  PROVE  BatchIs(X, U, limit, Append(s, p), BatchStep(limit, acc, p))
<1> DEFINE V == SentPiece(X, U, limit)
           W == FitBatches(X, U, limit)
           B == acc.batches
           b == acc.batch
           to == BatchStep(limit, acc, p)
           s1 == Append(s, p)
           C == Append(B, b)
           c == Append(b, p)
<1>1. /\ acc \in BatchStates(X, U, limit) /\ BatchOK(X, U, limit, s, B, b)
      /\ B \in Seq(W) /\ b \in Seq(V) /\ FlattenSeq(B) \o b = s
      /\ b = <<>> => B = <<>>
      /\ b # <<>> => FitBatch(limit, b)
  BY DEF BatchIs, BatchOK
<1>2. <<p>> \in Seq(V) /\ FitBatch(limit, <<p>>) /\ <<p>> # <<>>
  BY OneFits
<1>3. ASSUME NEW D, NEW d, BatchOK(X, U, limit, s1, D, d), to = [batches |-> D, batch |-> d]
      PROVE  BatchIs(X, U, limit, s1, to)
  <2> HIDE DEF to, s1
  <2>1. to.batches = D /\ to.batch = d
    BY <1>3
  <2>2. D \in Seq(W) /\ d \in Seq(V)
    BY <1>3 DEF BatchOK
  <2>3. to \in BatchStates(X, U, limit)
    BY <1>3, <2>2 DEF BatchStates
  <2>9. BatchIs(X, U, limit, s1, to)
    BY <1>3, <2>1, <2>3 DEF BatchIs
  <2> QED BY <2>9 DEF to, s1
<1>4. CASE b # <<>> /\ BatchBytes(b) + DiffBytes(p) > limit
  <2>1. C \in Seq(W) /\ FlattenSeq(C) = s
    <3> HIDE DEF B, b
    <3> QED BY <1>1, <1>4, BatchClosed
  <2>2. s \o <<p>> = s1
    BY AppendIsConcat
  <2>3. to = [batches |-> C, batch |-> <<p>>]
    BY <1>4 DEF BatchStep, TakePiece
  <2> HIDE DEF to, C, s1, V, W
  <2>4. BatchOK(X, U, limit, s1, C, <<p>>)
    BY <1>2, <2>1, <2>2 DEF BatchOK, V, W
  <2>9. BatchIs(X, U, limit, s1, to)
    BY <1>3, <2>3, <2>4
  <2> QED BY <2>9 DEF to, s1
<1>5. CASE ~(b # <<>> /\ BatchBytes(b) + DiffBytes(p) > limit)
  <2>1. c \in Seq(V) /\ c # <<>> /\ (b = <<>> => c = <<p>>)
    <3>0. p \in V
      OBVIOUS
    <3>1. c \in Seq(V) /\ c # <<>>
      <4> HIDE DEF V, b
      <4> QED BY <1>1, <3>0, AppendProperties
    <3>2. b = <<>> => c = <<p>>
      <4> HIDE DEF b
      <4> QED OBVIOUS
    <3> HIDE DEF c
    <3> QED BY <3>1, <3>2
  <2>2. FitBatch(limit, c)
    <3>1. CASE b = <<>>
      BY <1>2, <2>1, <3>1
    <3>2. CASE b # <<>>
      <4>1. b \in Seq(AnyPiece(X)) /\ p \in AnyPiece(X)
        BY <1>1, SentTypes
      <4> HIDE DEF b
      <4>2. Total(SizeOf(X), c) = Total(SizeOf(X), b) + SizeOf(X)[p] /\ c \in Seq(AnyPiece(X))
        BY <4>1, PieceTypes, TotalAppend, AppendProperties
      <4>3. SizeOf(X)[p] \in Nat /\ SizeOf(X)[p] = DiffBytes(p)
        <5>1. SizeOf(X)[p] \in Nat
          BY <4>1, PieceTypes, FValue
        <5> QED BY <4>1, <5>1 DEF SizeOf
      <4> HIDE DEF c
      <4>4. BatchBytes(c) = BatchBytes(b) + DiffBytes(p) /\ BatchBytes(b) \in Nat
        BY <4>1, <4>2, <4>3, BatchBytesIs
      <4>5. BatchBytes(c) <= limit
        BY <1>5, <3>2, <4>3, <4>4
      <4> QED BY <2>1, <4>5 DEF FitBatch
    <3> QED BY <3>1, <3>2
  <2>3. FlattenSeq(B) \o c = s1
    <3>1. B \in Seq(Seq(V))
      BY <1>1, SentTypes
    <3> HIDE DEF V, B, b
    <3>2. FlattenSeq(B) \in Seq(V)
      BY <3>1, FlattenType
    <3>3. FlattenSeq(B) \o Append(b, p) = Append(FlattenSeq(B) \o b, p)
      BY <1>1, <3>2, AppendBehind, SMTT(30) DEF V
    <3> QED BY <1>1, <3>3
  <2>4. to = [acc EXCEPT !.batch = c]
    BY <1>5 DEF BatchStep, TakePiece
  <2> HIDE DEF to, c, s1
  <2>5. to = [batches |-> B, batch |-> c]
    BY <1>1, <2>4 DEF BatchStates
  <2> HIDE DEF B
  <2>6. BatchOK(X, U, limit, s1, B, c)
    BY <1>1, <2>1, <2>2, <2>3 DEF BatchOK
  <2>9. BatchIs(X, U, limit, s1, to)
    BY <1>3, <2>5, <2>6
  <2> QED BY <2>9 DEF to, s1
<1> QED BY <1>4, <1>5

LEMMA BatchAll ==
  ASSUME NEW X, NEW U, NEW limit \in Nat
  PROVE  \A s \in Seq(SentPiece(X, U, limit)) :
           BatchIs(X, U, limit, s, Batching!Result(limit, [batches |-> <<>>, batch |-> <<>>], s))
<1> DEFINE V == SentPiece(X, U, limit)
           start == [batches |-> <<>>, batch |-> <<>>]
           G == {s \in Seq(V) : BatchIs(X, U, limit, s, Batching!Result(limit, start, s))}
<1>1. <<>> \in G
  <2>1. start.batches = <<>> /\ start.batch = <<>>
    OBVIOUS
  <2>2. <<>> \in Seq(FitBatches(X, U, limit)) /\ <<>> \in Seq(V) /\ <<>> \in Seq(Seq(V))
    BY EmptySeq
  <2>3. start \in BatchStates(X, U, limit)
    BY <2>2 DEF BatchStates
  <2>4. FlattenSeq(<<>>) \o <<>> = <<>>
    <3>1. FlattenSeq(<<>>) = <<>> /\ <<>> \o <<>> = <<>>
      BY FlattenEmpty
    <3> QED BY <3>1
  <2>6. BatchOK(X, U, limit, <<>>, <<>>, <<>>)
    BY <2>2, <2>4 DEF BatchOK
  <2>7. Batching!Result(limit, start, <<>>) = start
    BY Batching!FoldEmpty
  <2> HIDE DEF start
  <2> QED BY <2>1, <2>2, <2>3, <2>6, <2>7 DEF BatchIs
<1>2. ASSUME NEW s \in Seq(V), NEW x \in V, s \in G PROVE Append(s, x) \in G
  <2> DEFINE acc == Batching!Result(limit, start, s)
  <2>1. BatchIs(X, U, limit, s, acc)
    BY <1>2
  <2>2. Batching!Result(limit, start, Append(s, x)) = BatchStep(limit, acc, x)
    <3> HIDE DEF start, V
    <3> QED BY Batching!FoldAppend
  <2> HIDE DEF acc
  <2>3. BatchIs(X, U, limit, Append(s, x), BatchStep(limit, acc, x))
    BY <2>1, BatchStepKeeps
  <2> QED BY <2>2, <2>3, AppendProperties
<1> HIDE DEF G
<1>3. Seq(V) \subseteq G
  <2> HIDE DEF V
  <2> QED BY <1>1, <1>2, SeqInduction
<1> QED BY <1>3 DEF G

LEMMA BatchesWhole ==
  ASSUME NEW X, NEW U, NEW limit \in Nat, NEW s \in Seq(SentPiece(X, U, limit))
  PROVE  Batches(s, limit) \in Seq(FitBatches(X, U, limit)) /\ FlattenSeq(Batches(s, limit)) = s
<1> DEFINE end == Batching!Result(limit, [batches |-> <<>>, batch |-> <<>>], s)
           R == Batches(s, limit)
<1>1. BatchIs(X, U, limit, s, end)
  BY BatchAll
<1>2. R = IF end.batch = <<>> THEN end.batches ELSE Append(end.batches, end.batch)
  BY BatchesIs
<1> HIDE DEF end, R
<1>3. BatchOK(X, U, limit, s, end.batches, end.batch)
  BY <1>1 DEF BatchIs
<1>4. CASE end.batch = <<>>
  <2>1. R = <<>> /\ FlattenSeq(<<>>) \o <<>> = s /\ <<>> \in Seq(FitBatches(X, U, limit))
    BY <1>2, <1>3, <1>4, EmptySeq DEF BatchOK
  <2>2. FlattenSeq(<<>>) = <<>> /\ <<>> \o <<>> = <<>>
    BY FlattenEmpty
  <2> QED BY <2>1, <2>2 DEF R
<1>5. CASE end.batch # <<>>
  BY <1>2, <1>3, <1>5, BatchClosed DEF R
<1> QED BY <1>4, <1>5

\* What comes after some batches.
GoesOn(V, some, all) == \E rest \in Seq(V) : FlattenSeq(all) = FlattenSeq(some) \o rest

\* Of batches some are sent, in front.
LEMMA SomeBatches ==
  ASSUME NEW V, NEW W, W \subseteq Seq(V), NEW all \in Seq(W), NEW n \in 0..Len(all)
  PROVE  /\ SubSeq(all, 1, n) \in Seq(W) /\ Len(SubSeq(all, 1, n)) = n
         /\ FlattenSeq(SubSeq(all, 1, n)) \in Seq(V)
         /\ GoesOn(V, SubSeq(all, 1, n), all)
<1> DEFINE m == Len(all)
           a == SubSeq(all, 1, n)
           b == SubSeq(all, n + 1, m)
<1>1. m \in Nat /\ n \in Nat /\ n <= m /\ DOMAIN all = 1..m /\ \A i \in 1..m : all[i] \in W
  BY LenProperties, ElementOfSeq
<1>2. a \in Seq(W) /\ Len(a) = n /\ \A i \in 1..n : a[i] = all[i]
  <2>1. \A i \in 1..n : i \in 1..m
    BY <1>1
  <2> HIDE DEF m
  <2> QED BY <1>1, <2>1, SubSeqProperties DEF m
<1>3. b \in Seq(W) /\ Len(b) = m - n /\ \A i \in 1..(m - n) : b[i] = all[n + i]
  <2>1. \A i \in (n + 1)..m : i \in 1..m
    BY <1>1
  <2>2. n + 1 \in Int /\ m \in Int /\ m - (n + 1) + 1 = m - n /\ (n + 1 <= m \/ m - n = 0)
    <3> HIDE DEF m
    <3> QED BY <1>1
  <2>3. \A i \in 1..(m - n) : (n + 1) + i - 1 = n + i
    BY <1>1
  <2> HIDE DEF m
  <2>4. \A i \in (n + 1)..m : all[i] \in W
    BY <1>1, <2>1
  <2>5. /\ b \in Seq(W) /\ Len(b) = IF n + 1 <= m THEN m - (n + 1) + 1 ELSE 0
        /\ \A i \in 1..(m - (n + 1) + 1) : b[i] = all[(n + 1) + i - 1]
    BY <2>2, <2>4, SubSeqProperties
  <2>6. Len(b) = m - n
    BY <2>2, <2>5
  <2>7. \A i \in 1..(m - n) : b[i] = all[n + i]
    BY <2>2, <2>3, <2>5
  <2> QED BY <2>5, <2>6, <2>7
<1> HIDE DEF a, b
<1>4. a \o b \in Seq(W) /\ Len(a \o b) = m /\ \A i \in 1..m : (a \o b)[i] = all[i]
  <2>0. Len(a) + Len(b) = m
    BY <1>1, <1>2, <1>3
  <2>1. a \o b \in Seq(W) /\ Len(a \o b) = Len(a) + Len(b)
        /\ \A i \in 1..(Len(a) + Len(b)) : (a \o b)[i] = IF i <= Len(a) THEN a[i] ELSE b[i - Len(a)]
    BY <1>2, <1>3, ConcatProperties
  <2>2. \A i \in 1..m : (a \o b)[i] = all[i]
    <3> TAKE i \in 1..m
    <3>1. CASE i <= n
      <4>1. i \in 1..n
        BY <1>1, <3>1
      <4> QED BY <1>2, <2>0, <2>1, <3>1, <4>1
    <3>2. CASE ~(i <= n)
      <4>1. i - n \in 1..(m - n) /\ n + (i - n) = i
        BY <1>1, <3>2
      <4> QED BY <1>2, <1>3, <2>0, <2>1, <3>2, <4>1
    <3> QED BY <3>1, <3>2
  <2> QED BY <2>0, <2>1, <2>2
<1>5. all = a \o b
  BY <1>1, <1>4, SeqEqual
<1>6. a \in Seq(Seq(V)) /\ b \in Seq(Seq(V))
  BY <1>2, <1>3, SeqMonotonic
<1>7. FlattenSeq(all) = FlattenSeq(a) \o FlattenSeq(b) /\ FlattenSeq(a) \in Seq(V) /\ FlattenSeq(b) \in Seq(V)
  BY <1>5, <1>6, FlattenConcat, FlattenType
<1>8. GoesOn(V, a, all)
  BY <1>7 DEF GoesOn
<1> QED BY <1>2, <1>7, <1>8 DEF a

IsSeq(s) == s \in Seq(Range(s))

\* The i-th file is that of a version, as listed.
ShownAt(v, i) == files[i] = Shown(v, v.files[i]) /\ flags[i] = Flag(v, v.files[i])

Clear == \A i \in DOMAIN flags : ~flags[i].collapsed /\ ~flags[i].large

PagesFollow ==
  /\ at = "metadata" => files = <<>> /\ flags = <<>> /\ page = 1
  /\ at \in {"metadata", "legacy", "raw"} => counted.count = "none"
  /\ at = "raw" => overflow
  /\ at = "paging" /\ ~pushed =>
       /\ counted = Number(case.before)
       /\ Len(files) = (page - 1) * case.page /\ Len(files) <= case.before.listed
       /\ Len(flags) = Len(files)
       /\ \A i \in 1..Len(files) : ShownAt(case.before, i)

WholeIfSo ==
  at \notin {"metadata", "paging", "legacy", "raw", "failed"} /\ ~overflow =>
    /\ counted.count = "exact" => Len(files) >= counted.number
    /\ ~pushed /\ Clear /\ case.before.count # "none" => files = case.before.files

SequencesOK ==
  /\ IsSeq(files) /\ IsSeq(flags) /\ page \in Nat \ {0}
  /\ counted.count = "exact" => counted.number \in Nat

IInv ==
  /\ TypeOK /\ SequencesOK /\ PagesFollow /\ WholeIfSo
  /\ Told /\ complete => ~overflow /\ Clear

-----------------------------------------------------------------------------
(* Sequences.                                                              *)

LEMMA Own == ASSUME NEW U, NEW s \in Seq(U) PROVE IsSeq(s)
<1>1. Len(s) \in Nat /\ s \in [1..Len(s) -> U] /\ DOMAIN s = 1..Len(s)
  BY LenProperties
<1>2. s \in [1..Len(s) -> Range(s)]
  BY <1>1 DEF Range
<1> QED BY <1>1, <1>2, SeqDef DEF IsSeq

LEMMA Domain == ASSUME NEW s, IsSeq(s) PROVE Len(s) \in Nat /\ DOMAIN s = 1..Len(s)
<1> QED BY LenProperties DEF IsSeq

LEMMA Joined ==
  ASSUME NEW s, NEW t, IsSeq(s), IsSeq(t)
  PROVE  /\ IsSeq(s \o t) /\ Len(s \o t) = Len(s) + Len(t)
         /\ \A i \in 1..Len(s) + Len(t) :
              (s \o t)[i] = IF i <= Len(s) THEN s[i] ELSE t[i - Len(s)]
<1> DEFINE U == Range(s) \cup Range(t)
<1>1. s \in Seq(U) /\ t \in Seq(U)
  BY SeqMonotonic DEF IsSeq
<1> HIDE DEF U
<1> QED BY <1>1, ConcatProperties, Own

\* What is made of each element of a sequence.
LEMMA Mapped ==
  ASSUME NEW v, NEW list, IsSeq(list)
  PROVE  /\ IsSeq(ShownAll(v, list)) /\ Len(ShownAll(v, list)) = Len(list)
         /\ IsSeq(FlagAll(v, list)) /\ Len(FlagAll(v, list)) = Len(list)
         /\ \A i \in 1..Len(list) : /\ ShownAll(v, list)[i] = Shown(v, list[i])
                                    /\ FlagAll(v, list)[i] = Flag(v, list[i])
<1>1. Len(list) \in Nat /\ DOMAIN list = 1..Len(list)
  BY Domain
<1>2. /\ ShownAll(v, list) \in [1..Len(list) -> {Shown(v, list[i]) : i \in 1..Len(list)}]
      /\ FlagAll(v, list) \in [1..Len(list) -> {Flag(v, list[i]) : i \in 1..Len(list)}]
  BY <1>1 DEF ShownAll, FlagAll
<1>3. /\ ShownAll(v, list) \in Seq({Shown(v, list[i]) : i \in 1..Len(list)})
      /\ FlagAll(v, list) \in Seq({Flag(v, list[i]) : i \in 1..Len(list)})
  BY <1>1, <1>2, SeqDef
<1>4. IsSeq(ShownAll(v, list)) /\ IsSeq(FlagAll(v, list))
  BY <1>3, Own
<1>5. Len(ShownAll(v, list)) = Len(list) /\ Len(FlagAll(v, list)) = Len(list)
  <2>1. DOMAIN ShownAll(v, list) = 1..Len(list) /\ DOMAIN FlagAll(v, list) = 1..Len(list)
    BY <1>2
  <2>2. /\ Len(ShownAll(v, list)) \in Nat /\ DOMAIN ShownAll(v, list) = 1..Len(ShownAll(v, list))
        /\ Len(FlagAll(v, list)) \in Nat /\ DOMAIN FlagAll(v, list) = 1..Len(FlagAll(v, list))
    BY <1>4, Domain
  <2> QED BY <1>1, <2>1, <2>2
<1>6. \A i \in 1..Len(list) : /\ ShownAll(v, list)[i] = Shown(v, list[i])
                              /\ FlagAll(v, list)[i] = Flag(v, list[i])
  BY <1>1 DEF ShownAll, FlagAll
<1> QED BY <1>4, <1>5, <1>6

LEMMA Smaller ==
  ASSUME NEW a \in Int, NEW b \in Int
  PROVE  Min({a, b}) = IF a <= b THEN a ELSE b
<1>1. Min({a, b}) \in {a, b} /\ \A y \in {a, b} : Min({a, b}) <= y
  <2>1. \E x \in {a, b} : \A y \in {a, b} : x <= y
    OBVIOUS
  <2> QED BY <2>1 DEF Min
<1> QED BY <1>1

\* The versions of a merge request are as GitLab may have them.
LEMMA Versions ==
  ASSUME NEW c \in Cases, NEW v \in {c.before, c.after}
  PROVE  /\ IsSeq(v.files) /\ v.listed \in Nat /\ v.listed <= Len(v.files)
         /\ Len(v.files) \in Nat /\ v.count \in {"exact", "plus", "none"}
         /\ c.page \in Nat /\ 1 <= c.page /\ c.page <= PerPage /\ PerPage \in Nat
<1>1. IsVersion(v)
  BY CasesAssumption
<1>2. IsSeq(v.files)
  BY <1>1 DEF IsVersion, IsSeq
<1>3. Len(v.files) \in Nat
  BY <1>2, Domain
<1> QED BY <1>1, <1>2, <1>3, CasesAssumption DEF IsVersion

LEMMA ListedFirst ==
  ASSUME NEW c \in Cases, NEW v \in {c.before, c.after}
  PROVE  /\ IsSeq(Listed(v)) /\ Len(Listed(v)) = v.listed
         /\ \A i \in 1..v.listed : Listed(v)[i] = v.files[i]
<1>1. IsSeq(v.files) /\ v.listed \in Nat /\ v.listed <= Len(v.files) /\ Len(v.files) \in Nat
  BY Versions
<1>2. \A i \in 1..v.listed : v.files[i] \in Range(v.files)
  BY <1>1, ElementOfSeq DEF IsSeq
<1>3. /\ Listed(v) \in Seq(Range(v.files)) /\ Len(Listed(v)) = v.listed
      /\ \A i \in 1..v.listed : Listed(v)[i] = v.files[i]
  BY <1>1, <1>2, SubSeqProperties DEF Listed
<1> QED BY <1>3, Own

\* A part of a sequence.
LEMMA Cut ==
  ASSUME NEW s, IsSeq(s), NEW first \in Nat \ {0}, NEW end \in Nat, end <= Len(s)
  PROVE  /\ IsSeq(SubSeq(s, first, end))
         /\ Len(SubSeq(s, first, end)) = (IF first <= end THEN (end - first) + 1 ELSE 0)
         /\ \A i \in 1..(end - first) + 1 : SubSeq(s, first, end)[i] = s[(first + i) - 1]
<1>1. Len(s) \in Nat
  BY Domain
<1>2. \A i \in first..end : s[i] \in Range(s)
  <2>1. \A i \in first..end : i \in 1..Len(s)
    BY <1>1
  <2> QED BY <2>1, ElementOfSeq DEF IsSeq
<1>3. /\ SubSeq(s, first, end) \in Seq(Range(s))
      /\ Len(SubSeq(s, first, end)) = (IF first <= end THEN (end - first) + 1 ELSE 0)
      /\ \A i \in 1..(end - first) + 1 : SubSeq(s, first, end)[i] = s[(first + i) - 1]
  BY <1>2, SubSeqProperties
<1> QED BY <1>3, Own

\* A page: how many files it has, and which.
LEMMA OnePage ==
  ASSUME NEW c \in Cases, NEW v \in {c.before, c.after}, NEW from \in Nat
  PROVE  LET got == SubSeq(Listed(v), from + 1, Min({from + c.page, Len(Listed(v))}))
         IN  /\ IsSeq(got)
             /\ \E n \in Nat :
                  /\ Len(got) = n /\ n <= c.page
                  /\ from <= v.listed => from + n <= v.listed
                  /\ from + c.page <= v.listed => n = c.page
                  /\ \A i \in 1..n : got[i] = v.files[from + i]
<1> DEFINE end == Min({from + c.page, Len(Listed(v))})
           got == SubSeq(Listed(v), from + 1, end)
           n == IF from + 1 <= end THEN (end - (from + 1)) + 1 ELSE 0
<1>1. /\ IsSeq(Listed(v)) /\ Len(Listed(v)) = v.listed /\ v.listed \in Nat
      /\ \A i \in 1..v.listed : Listed(v)[i] = v.files[i]
      /\ c.page \in Nat /\ 1 <= c.page
  BY ListedFirst, Versions
<1>2. end = (IF from + c.page <= v.listed THEN from + c.page ELSE v.listed)
  <2>1. from + c.page \in Int /\ Len(Listed(v)) \in Int
    BY <1>1
  <2> QED BY <1>1, <2>1, Smaller
<1> HIDE DEF end
<1>3. end \in Nat /\ end <= Len(Listed(v)) /\ from + 1 \in Nat \ {0}
  BY <1>1, <1>2
<1>4. /\ IsSeq(got) /\ Len(got) = n
      /\ \A i \in 1..(end - (from + 1)) + 1 : got[i] = Listed(v)[((from + 1) + i) - 1]
  BY <1>1, <1>3, Cut
<1>5. /\ n \in Nat /\ n <= c.page
      /\ from <= v.listed => from + n <= v.listed
      /\ from + c.page <= v.listed => n = c.page
  BY <1>1, <1>2, <1>3, SMTT(30)
<1>6. ASSUME NEW i \in 1..n PROVE got[i] = v.files[from + i]
  <2>1. i \in 1..(end - (from + 1)) + 1 /\ ((from + 1) + i) - 1 = from + i
    BY <1>1, <1>3, <1>5
  <2>2. from + i \in 1..v.listed
    BY <1>1, <1>2, <1>3, <1>5
  <2> HIDE DEF got, n
  <2> QED BY <1>1, <1>4, <2>1, <2>2
<1> HIDE DEF got, n
<1>7. \E m \in Nat :
        /\ Len(got) = m /\ m <= c.page
        /\ from <= v.listed => from + m <= v.listed
        /\ from + c.page <= v.listed => m = c.page
        /\ \A i \in 1..m : got[i] = v.files[from + i]
  <2> WITNESS n \in Nat
  <2> QED BY <1>4, <1>5, <1>6
<1> QED BY <1>4, <1>7 DEF got, end

\* Where nothing is hidden, what is shown is what there is.
LEMMA Unhidden ==
  ASSUME NEW v, NEW list, NEW marks, IsSeq(v.files), IsSeq(list), IsSeq(marks),
         Len(list) = Len(v.files), Len(marks) = Len(list),
         \A i \in 1..Len(list) : list[i] = Shown(v, v.files[i]) /\ marks[i] = Flag(v, v.files[i]),
         \A i \in DOMAIN marks : ~marks[i].collapsed /\ ~marks[i].large
  PROVE  list = v.files
<1> DEFINE U == Range(v.files) \cup Range(list)
<1>1. v.files \in Seq(U) /\ list \in Seq(U)
  BY SeqMonotonic DEF IsSeq
<1>2. ASSUME NEW i \in 1..Len(list) PROVE list[i] = v.files[i]
  <2>1. ~marks[i].collapsed /\ ~marks[i].large
    BY Domain
  <2>2. marks[i] = [path |-> v.files[i].path, collapsed |-> v.files[i].path \in v.collapsed,
                    large |-> v.files[i].path \in v.large]
    BY DEF Flag
  <2>3. v.files[i].path \notin v.collapsed \cup v.large
    <3>1. /\ marks[i].collapsed = (v.files[i].path \in v.collapsed)
          /\ marks[i].large = (v.files[i].path \in v.large)
      BY <2>2
    <3> QED BY <2>1, <3>1
  <2> QED BY <2>3 DEF Shown
<1> HIDE DEF U
<1> QED BY <1>1, <1>2, SeqEqual

-----------------------------------------------------------------------------
(* The invariant is inductive.                                             *)

LEMMA InitIInv == Init => IInv
<1> SUFFICES ASSUME Init PROVE IInv
  OBVIOUS
<1>1. TypeOK
  BY DEF Init, TypeOK
<1>2. SequencesOK
  <2>1. IsSeq(<<>>)
    BY EmptySeq, Own
  <2> QED BY <2>1 DEF Init, SequencesOK
<1>3. PagesFollow /\ WholeIfSo /\ ~Told
  BY DEF Init, PagesFollow, WholeIfSo, Told
<1> QED BY <1>1, <1>2, <1>3 DEF IInv

LEMMA ReadPageKeeps == ASSUME IInv, ReadPage PROVE IInv'
<1> DEFINE v == Request
           from == (page - 1) * case.page
           got == SubSeq(Listed(v), from + 1, Min({from + case.page, Len(Listed(v))}))
           more == Another(Len(got), from + case.page >= Len(Listed(v)))
<1>1. /\ at = "paging" /\ files' = files \o ShownAll(v, got) /\ flags' = flags \o FlagAll(v, got)
      /\ at' = (IF more THEN "paging" ELSE "context")
      /\ page' = (IF more THEN page + 1 ELSE page)
      /\ overflow' = (~more /\ Overflow(counted, Len(files')))
      /\ UNCHANGED <<case, pushed, counted, mode, running, row>>
  BY DEF ReadPage
<1>2. /\ case \in Cases /\ v \in {case.before, case.after} /\ (~pushed => v = case.before)
      /\ IsSeq(files) /\ IsSeq(flags) /\ page \in Nat \ {0}
  BY DEF IInv, TypeOK, SequencesOK, Request
<1>3. /\ IsSeq(v.files) /\ v.listed \in Nat /\ v.listed <= Len(v.files)
      /\ Len(v.files) \in Nat /\ v.count \in {"exact", "plus", "none"}
      /\ case.page \in Nat /\ 1 <= case.page /\ case.page <= PerPage /\ PerPage \in Nat
  BY <1>2, Versions
<1>4. from \in Nat /\ ((page + 1) - 1) * case.page = from + case.page
  BY <1>2, <1>3
<1> HIDE DEF v, from
<1>5. /\ IsSeq(got) /\ Len(got) \in Nat /\ Len(got) <= case.page
      /\ from <= v.listed => from + Len(got) <= v.listed
      /\ from + case.page <= v.listed => Len(got) = case.page
      /\ \A i \in 1..Len(got) : got[i] = v.files[from + i]
  <2>1. /\ IsSeq(got)
        /\ \E n \in Nat :
             /\ Len(got) = n /\ n <= case.page
             /\ from <= v.listed => from + n <= v.listed
             /\ from + case.page <= v.listed => n = case.page
             /\ \A i \in 1..n : got[i] = v.files[from + i]
    BY <1>2, <1>4, OnePage
  <2> HIDE DEF got
  <2> QED BY <2>1
<1>6. more => Len(got) = case.page
  <2>1. Len(Listed(v)) = v.listed
    BY <1>2, ListedFirst
  <2>2. more => Len(got) = PerPage \/ ~(from + case.page >= v.listed)
    BY <2>1 DEF Another
  <2> HIDE DEF got, more
  <2> QED BY <1>3, <1>4, <1>5, <2>2
<1> HIDE DEF got, more
<1>7. /\ IsSeq(ShownAll(v, got)) /\ Len(ShownAll(v, got)) = Len(got)
      /\ IsSeq(FlagAll(v, got)) /\ Len(FlagAll(v, got)) = Len(got)
      /\ \A i \in 1..Len(got) : /\ ShownAll(v, got)[i] = Shown(v, got[i])
                                /\ FlagAll(v, got)[i] = Flag(v, got[i])
  BY <1>5, Mapped
<1>8. Len(files) \in Nat /\ Len(flags) \in Nat
  BY <1>2, Domain
<1>9. /\ IsSeq(files') /\ Len(files') = Len(files) + Len(got)
      /\ IsSeq(flags') /\ Len(flags') = Len(flags) + Len(got)
      /\ \A i \in 1..Len(files) + Len(got) :
           files'[i] = IF i <= Len(files) THEN files[i] ELSE ShownAll(v, got)[i - Len(files)]
      /\ \A i \in 1..Len(flags) + Len(got) :
           flags'[i] = IF i <= Len(flags) THEN flags[i] ELSE FlagAll(v, got)[i - Len(flags)]
  BY <1>1, <1>2, <1>7, Joined
<1>10. TypeOK'
  BY <1>1 DEF IInv, TypeOK, running
<1>11. SequencesOK'
  BY <1>1, <1>2, <1>9 DEF IInv, SequencesOK
<1>12. ASSUME ~pushed
       PROVE  /\ counted = Number(v) /\ Len(files) = from /\ Len(files') <= v.listed
              /\ Len(flags') = Len(files')
              /\ \A i \in 1..Len(files') : /\ files'[i] = Shown(v, v.files[i])
                                           /\ flags'[i] = Flag(v, v.files[i])
  <2>1. /\ counted = Number(v) /\ Len(files) = from /\ Len(files) <= v.listed
        /\ Len(flags) = Len(files)
        /\ \A i \in 1..Len(files) : ShownAt(v, i)
    BY <1>1, <1>2, <1>12 DEF IInv, PagesFollow, from
  <2>2. ASSUME NEW i \in 1..Len(files')
        PROVE  files'[i] = Shown(v, v.files[i]) /\ flags'[i] = Flag(v, v.files[i])
    <3>1. CASE i <= Len(files)
      BY <1>8, <1>9, <2>1, <3>1 DEF ShownAt
    <3>2. CASE i > Len(files)
      <4>1. i - Len(files) \in 1..Len(got) /\ from + (i - Len(files)) = i
        BY <1>4, <1>5, <1>8, <1>9, <2>1, <3>2
      <4>2. got[i - Len(files)] = v.files[i]
        BY <1>5, <4>1
      <4> QED BY <1>7, <1>8, <1>9, <2>1, <3>2, <4>1, <4>2
    <3> QED BY <1>8, <1>9, <3>1, <3>2
  <2> QED BY <1>5, <1>9, <2>1, <2>2
<1>13. PagesFollow'
  <2> SUFFICES ASSUME more, ~pushed
               PROVE  /\ counted = Number(case.before) /\ Len(files') <= case.before.listed
                      /\ Len(files') = (page' - 1) * case.page /\ Len(flags') = Len(files')
                      /\ \A i \in 1..Len(files') : ShownAt(case.before, i)'
    BY <1>1 DEF PagesFollow, ShownAt
  <2>1. Len(files') = from + case.page
    BY <1>6, <1>9, <1>12
  <2>2. page' = page + 1
    BY <1>1
  <2>3. Len(files') = (page' - 1) * case.page
    BY <1>4, <2>1, <2>2
  <2>4. v = case.before
    BY <1>2
  <2> QED BY <1>1, <1>12, <2>3, <2>4 DEF ShownAt
<1>14. WholeIfSo'
  <2> SUFFICES ASSUME ~more, ~Overflow(counted, Len(files'))
               PROVE  WholeIfSo'
    BY <1>1 DEF WholeIfSo
  <2>1. counted.count = "exact" => Len(files') >= counted.number
    BY <1>5, <1>8, <1>9 DEF Overflow, IInv, SequencesOK
  <2>2. ASSUME ~pushed, Clear', case.before.count # "none" PROVE files' = case.before.files
    <3>1. Len(files') = Len(v.files)
      <4>1. v = case.before /\ counted.count = v.count /\ counted.number = Len(v.files)
        BY <1>2, <1>12, <2>2 DEF Number
      <4>2. v.count = "exact"
        BY <1>3, <2>2, <4>1 DEF Overflow
      <4>3. Len(files') >= Len(v.files) /\ Len(files') \in Nat
        BY <1>5, <1>8, <1>9, <2>1, <4>1, <4>2
      <4>4. Len(files') <= v.listed
        BY <1>12, <2>2
      <4> QED BY <1>3, <4>3, <4>4
    <3>2. \A i \in 1..Len(files') : /\ files'[i] = Shown(v, v.files[i])
                                    /\ flags'[i] = Flag(v, v.files[i])
      BY <1>12, <2>2
    <3>3. Len(flags') = Len(files')
      BY <1>12, <2>2
    <3>4. files' = v.files
      BY <1>3, <1>9, <2>2, <3>1, <3>2, <3>3, Unhidden DEF Clear
    <3> QED BY <1>2, <2>2, <3>4
  <2> QED BY <1>1, <2>1, <2>2 DEF WholeIfSo
<1>15. ~Told'
  BY <1>1 DEF Told
<1> QED BY <1>10, <1>11, <1>13, <1>14, <1>15 DEF IInv

\* The other ways to have the diff read, or not.
LEMMA PushKeeps == ASSUME IInv, Push PROVE IInv'
<1>1. TypeOK'
  BY DEF IInv, Push, TypeOK, reading, running
<1>2. SequencesOK'
  BY DEF IInv, Push, SequencesOK, reading
<1>3. PagesFollow' /\ WholeIfSo' /\ ~Told'
  BY DEF IInv, Push, PagesFollow, WholeIfSo, Told, reading
<1> QED BY <1>1, <1>2, <1>3 DEF IInv

LEMMA ReadMetadataKeeps == ASSUME IInv, ReadMetadata PROVE IInv'
<1> DEFINE v == Request
<1>1. case \in Cases /\ v \in {case.before, case.after} /\ (~pushed => v = case.before)
  BY DEF IInv, TypeOK, Request
<1>2. /\ at = "metadata" /\ at' = "paging" /\ counted' = [count |-> v.count, number |-> Len(v.files)]
      /\ UNCHANGED <<case, pushed, page, files, flags, overflow, mode, running, row>>
  BY DEF ReadMetadata, Number
<1>3. v.listed \in Nat /\ Len(v.files) \in Nat /\ case.page \in Nat
  BY <1>1, Versions
<1>4. TypeOK'
  BY <1>2 DEF IInv, TypeOK, running
<1>5. SequencesOK'
  BY <1>2, <1>3 DEF IInv, SequencesOK
<1>6. PagesFollow'
  <2>1. files' = <<>> /\ flags' = <<>> /\ page' = 1
    BY <1>2 DEF IInv, PagesFollow
  <2>2. Len(files') = 0 /\ Len(flags') = 0 /\ 1..0 = {}
    BY <2>1
  <2>3. (page' - 1) * case'.page = 0
    BY <1>2, <1>3, <2>1
  <2>4. ~pushed' => counted' = Number(case'.before) /\ 0 <= case'.before.listed
    BY <1>1, <1>2, <1>3 DEF Number
  <2> QED BY <1>2, <2>2, <2>3, <2>4 DEF PagesFollow
<1>7. WholeIfSo' /\ ~Told'
  BY <1>2 DEF WholeIfSo, Told
<1> QED BY <1>4, <1>5, <1>6, <1>7 DEF IInv

LEMMA PagesUnknownKeeps == ASSUME IInv, PagesUnknown PROVE IInv'
<1>1. TypeOK'
  BY DEF IInv, PagesUnknown, TypeOK, running
<1>2. SequencesOK'
  <2>1. IsSeq(<<>>)
    BY EmptySeq, Own
  <2> QED BY <2>1 DEF IInv, PagesUnknown, SequencesOK
<1>3. PagesFollow' /\ WholeIfSo' /\ ~Told'
  BY DEF PagesUnknown, PagesFollow, WholeIfSo, Told
<1> QED BY <1>1, <1>2, <1>3 DEF IInv

LEMMA ReadLegacyKeeps == ASSUME IInv, ReadLegacy PROVE IInv'
<1> DEFINE v == Request
<1>1. case \in Cases /\ v \in {case.before, case.after} /\ (~pushed => v = case.before)
  BY DEF IInv, TypeOK, Request
<1>2. /\ at = "legacy" /\ files' = ShownAll(v, Listed(v)) /\ flags' = FlagAll(v, Listed(v))
      /\ overflow' = (v.listed < Len(v.files))
      /\ at' = (IF overflow' THEN "raw" ELSE "context")
      /\ UNCHANGED <<case, pushed, counted, page, mode, running, row>>
  BY DEF ReadLegacy
<1>3. /\ IsSeq(v.files) /\ v.listed \in Nat /\ v.listed <= Len(v.files) /\ Len(v.files) \in Nat
      /\ IsSeq(Listed(v)) /\ Len(Listed(v)) = v.listed
      /\ \A i \in 1..v.listed : Listed(v)[i] = v.files[i]
  BY <1>1, Versions, ListedFirst
<1> HIDE DEF v
<1>4. /\ IsSeq(files') /\ Len(files') = v.listed /\ IsSeq(flags') /\ Len(flags') = v.listed
      /\ \A i \in 1..v.listed : files'[i] = Shown(v, v.files[i]) /\ flags'[i] = Flag(v, v.files[i])
  BY <1>2, <1>3, Mapped
<1>5. TypeOK'
  BY <1>2 DEF IInv, TypeOK, running
<1>6. SequencesOK'
  BY <1>2, <1>4 DEF IInv, SequencesOK
<1>7. counted'.count = "none"
  BY <1>2 DEF IInv, PagesFollow
<1>8. PagesFollow' /\ ~Told'
  BY <1>2, <1>7 DEF PagesFollow, Told
<1>9. WholeIfSo'
  <2>1. ASSUME ~overflow', Clear', ~pushed PROVE files' = case.before.files
    <3>1. Len(files') = Len(v.files) /\ Len(flags') = Len(files')
      <4>1. ~(v.listed < Len(v.files))
        BY <1>2, <2>1, Zenon
      <4> QED BY <1>3, <1>4, <4>1
    <3>2. files' = v.files
      BY <1>3, <1>4, <2>1, <3>1, Unhidden DEF Clear
    <3> QED BY <1>1, <2>1, <3>2
  <2> QED BY <1>2, <1>7, <2>1 DEF WholeIfSo
<1> QED BY <1>5, <1>6, <1>8, <1>9 DEF IInv

LEMMA ReadRawKeeps == ASSUME IInv, ReadRaw PROVE IInv'
<1>1. /\ case \in Cases /\ Request \in {case.before, case.after}
      /\ ~pushed => Request = case.before
  BY DEF IInv, TypeOK, Request
<1>2. /\ at = "raw" /\ at' = "context" /\ overflow /\ counted.count = "none"
      /\ UNCHANGED <<case, pushed, counted, page, mode, running, row>>
  BY DEF IInv, PagesFollow, ReadRaw
<1>3. TypeOK' /\ PagesFollow' /\ ~Told'
  BY <1>2 DEF IInv, ReadRaw, TypeOK, PagesFollow, Told, running
<1>4. CASE UNCHANGED <<files, flags, overflow>>
  BY <1>2, <1>3, <1>4 DEF IInv, SequencesOK, WholeIfSo
<1>5. CASE /\ files' = Request.files
           /\ flags' = [i \in DOMAIN files' |->
                          [path |-> files'[i].path, collapsed |-> FALSE, large |-> FALSE]]
  <2>1. IsSeq(files') /\ Len(files') \in Nat /\ DOMAIN files' = 1..Len(files')
    BY <1>1, <1>5, Versions, Domain
  <2> DEFINE U == {[path |-> files'[i].path, collapsed |-> FALSE, large |-> FALSE] : i \in 1..Len(files')}
  <2>2. flags' \in [1..Len(files') -> U]
    BY <1>5, <2>1
  <2> HIDE DEF U
  <2>3. IsSeq(flags')
    BY <2>1, <2>2, SeqDef, Own
  <2>4. SequencesOK'
    BY <1>2, <2>1, <2>3 DEF IInv, SequencesOK
  <2>5. WholeIfSo'
    BY <1>1, <1>2, <1>5 DEF WholeIfSo
  <2> QED BY <1>3, <2>4, <2>5 DEF IInv
<1> QED BY <1>4, <1>5 DEF ReadRaw

\* What follows the reading leaves what was read alone.
LEMMA ReadOnly ==
  ASSUME IInv, UNCHANGED <<case, pushed, reading>>, TypeOK',
         at \in {"context", "planning", "batch", "returned", "corrected"},
         at' \in {"context", "planning", "batch", "returned", "corrected", "stored", "failed"},
         (Told /\ complete => ~overflow /\ Clear)'
  PROVE  IInv'
<1>1. SequencesOK'
  BY DEF IInv, SequencesOK, reading
<1>2. PagesFollow'
  BY DEF PagesFollow
<1>3. WholeIfSo'
  BY DEF IInv, WholeIfSo, Clear, reading
<1> QED BY <1>1, <1>2, <1>3 DEF IInv

LEMMA NextIInv == IInv /\ [Next]_vars => IInv'
<1> SUFFICES ASSUME IInv, [Next]_vars PROVE IInv'
  OBVIOUS
<1> USE DEF IInv
<1>1. CASE Push
  BY <1>1, PushKeeps
<1>2. CASE Reading
  <2>1. CASE ReadFails
    <3>1. TypeOK' /\ SequencesOK' /\ PagesFollow' /\ WholeIfSo' /\ ~Told'
      BY <2>1 DEF ReadFails, TypeOK, SequencesOK, PagesFollow, WholeIfSo, Told, reading, running
    <3> QED BY <3>1
  <2> HIDE DEF IInv
  <2> QED BY <1>2, <2>1, ReadMetadataKeeps, ReadPageKeeps, PagesUnknownKeeps, ReadLegacyKeeps,
            ReadRawKeeps DEF Reading
<1>3. CASE Reviewing
  <2>1. /\ UNCHANGED <<case, pushed, reading>> /\ TypeOK'
        /\ at \in {"context", "planning", "batch", "returned"}
        /\ at' \in {"planning", "batch", "returned"}
    <3>1. CASE PrepareContext
      BY <3>1 DEF PrepareContext, TypeOK, reading
    <3>2. CASE Plan
      BY <3>2 DEF Plan, TypeOK, reading
    <3>3. CASE BatchSucceeds
      BY <3>3 DEF BatchSucceeds, TypeOK, reading
    <3>4. CASE BatchFails
      BY <3>4 DEF BatchFails, Failing, Recount, TypeOK, reading
    <3>5. CASE BatchesEnd
      BY <3>5 DEF BatchesEnd, TypeOK, reading
    <3>6. CASE FallBack
      BY <3>6 DEF FallBack, TypeOK, reading, running
    <3> QED BY <1>3, <3>1, <3>2, <3>3, <3>4, <3>5, <3>6 DEF Reviewing
  <2>2. ~Told'
    BY <2>1 DEF Told
  <2> HIDE DEF IInv
  <2> QED BY <2>1, <2>2, ReadOnly
<1>4. CASE Telling
  <2>1. /\ UNCHANGED <<case, pushed, reading>> /\ TypeOK'
        /\ at \in {"returned", "corrected"} /\ at' \in {"corrected", "stored", "failed"}
        /\ (Told /\ complete => ~overflow /\ Clear)'
    <3>1. CASE Correct
      BY <3>1 DEF Correct, TypeOK, Told, Clear, reading
    <3>2. CASE Store
      BY <3>2 DEF Store, TypeOK, Told, Clear, reading, running
    <3>3. CASE StoreFails
      BY <3>3 DEF StoreFails, TypeOK, Told, reading, running
    <3> QED BY <1>4, <3>1, <3>2, <3>3 DEF Telling
  <2> HIDE DEF IInv
  <2> QED BY <2>1, ReadOnly
<1>5. CASE Over \/ UNCHANGED vars
  <2>1. UNCHANGED vars
    BY <1>5 DEF Over
  <2> QED BY <2>1 DEF TypeOK, SequencesOK, PagesFollow, ShownAt, WholeIfSo, Told, Clear, vars, reading, running
<1> QED BY <1>1, <1>2, <1>3, <1>4, <1>5 DEF Next

LEMMA Inductive == Spec => []IInv
<1> QED BY InitIInv, NextIInv, PTL DEF Spec

(* Whatever GitLab collapses, leaves out or counts, in pages of any size   *)
(* and however many, and at whatever moment the merge request is pushed    *)
(* to: a coverage is complete only for a diff that was read whole.         *)
(* (merge_request_changes, apply_gitlab_diff_incompleteness.)              *)
THEOREM ShortDiffIsTold == Spec => [](TypeOK /\ ListedOrTold)
<1>1. IInv => TypeOK /\ ListedOrTold
  BY DEF IInv, WholeIfSo, ListedOrTold, Told, Request, TypeOK
<1> QED BY <1>1, Inductive, PTL

SentOf(list, limit) == Only(AllPieces(list, limit), LAMBDA p : p.reviewable)
PlanOf(list, limit) == Batches(SentOf(list, limit), limit)
Elements(s) == {s[i] : i \in DOMAIN s}
PathsIn(s) == {s[i].path : i \in DOMAIN s}
AllFiles(list) == \A i \in DOMAIN list : IsFile(list[i])

LEMMA FilesType ==
  ASSUME NEW list, IsSeq(list), AllFiles(list)
  PROVE  list \in Seq(Elements(list)) /\ FilesIn(PathsIn(list), Elements(list))
<1>1. Range(list) = Elements(list)
  BY DEF Range, Elements
<1>2. list \in Seq(Elements(list))
  BY <1>1 DEF IsSeq
<1>3. FilesIn(PathsIn(list), Elements(list))
  BY DEF FilesIn, PathsIn, Elements, AllFiles
<1> QED BY <1>2, <1>3

LEMMA PlanIs ==
  ASSUME NEW X, NEW U, FilesIn(X, U), NEW limit \in Nat, NEW list \in Seq(U)
  PROVE  /\ SentOf(list, limit) = Chosen(AllPieces(list, limit), Reviewable(X))
         /\ SentOf(list, limit) \in Seq(SentPiece(X, U, limit))
         /\ PlanOf(list, limit) \in Seq(FitBatches(X, U, limit))
         /\ FlattenSeq(PlanOf(list, limit)) = SentOf(list, limit)
<1>1. AllPieces(list, limit) \in Seq(GoodPiece(X, U, limit)) /\ AllPieces(list, limit) \in Seq(AnyPiece(X))
  BY AllPiecesIs
<1>2. SentOf(list, limit) = Chosen(AllPieces(list, limit), Reviewable(X))
  BY <1>1, ReviewableIs DEF SentOf
<1>3. SentOf(list, limit) \in Seq(SentPiece(X, U, limit))
  BY <1>1, <1>2, ChosenType DEF SentPiece
<1> QED BY <1>2, <1>3, BatchesWhole DEF PlanOf

\* The plan as it stands: the first batches of all, as many as the coverage says.
CoverageKeys == {"known", "total", "full", "partial", "unreviewed", "reviewed", "bytes", "required", "planned"}
IsCoverage(c) == DOMAIN c = CoverageKeys /\ c = [k \in CoverageKeys |-> c[k]]

PlanFollows ==
  /\ coverage.required = Len(PlanOf(files, case.limit))
  /\ coverage.planned \in 0..Len(PlanOf(files, case.limit))
  /\ batches = SubSeq(PlanOf(files, case.limit), 1, coverage.planned)

Unread == at \in {"metadata", "paging", "legacy", "raw"}

PlanInv ==
  /\ AllFiles(files)
  /\ Unread => coverage = Unknown /\ batches = <<>> /\ findings = {}
  /\ IsCoverage(coverage) /\ coverage.known \in BOOLEAN
  /\ IF coverage.known THEN PlanFollows ELSE batches = <<>>
  /\ FindingsOnAddedLines

LEMMA ShownIsFile == ASSUME NEW v, NEW f, IsFile(f) PROVE IsFile(Shown(v, f))
<1>1. <<>> \in Seq(AnyHunk) /\ <<>> \in Seq(Nat \ {0})
  BY EmptySeq
<1> DEFINE g == [f EXCEPT !.hunks = <<>>, !.text = <<>>]
<1>2. IsFile(g)
  <2>1. f \in [path : {f.path}, deleted : BOOLEAN, headers : {"read", "bad"}, hunks : Seq(AnyHunk), text : Seq(Nat \ {0})]
    BY DEF IsFile
  <2>2. g.path = f.path /\ g.hunks = <<>>
    BY <2>1
  <2>3. g \in [path : {f.path}, deleted : BOOLEAN, headers : {"read", "bad"}, hunks : Seq(AnyHunk), text : Seq(Nat \ {0})]
    BY <1>1, <2>1
  <2> HIDE DEF g
  <2> QED BY <2>2, <2>3 DEF IsFile
<1> QED BY <1>2 DEF Shown

LEMMA ShownFiles ==
  ASSUME NEW v, NEW list, IsSeq(list), AllFiles(list)
  PROVE  AllFiles(ShownAll(v, list))
  BY ShownIsFile DEF AllFiles, ShownAll

LEMMA VersionFiles ==
  ASSUME NEW c \in Cases, NEW v \in {c.before, c.after}
  PROVE  AllFiles(v.files) /\ IsSeq(v.files) /\ AllFiles(Listed(v)) /\ IsSeq(Listed(v))
<1>1. IsVersion(v)
  BY CasesAssumption
<1>2. AllFiles(v.files) /\ IsSeq(v.files)
  BY <1>1 DEF IsVersion, AllFiles, IsSeq
<1>3. /\ IsSeq(Listed(v)) /\ Len(Listed(v)) = v.listed /\ v.listed \in Nat /\ v.listed <= Len(v.files)
      /\ \A i \in 1..v.listed : Listed(v)[i] = v.files[i]
  BY ListedFirst, Versions
<1>4. DOMAIN Listed(v) = 1..v.listed /\ DOMAIN v.files = 1..Len(v.files) /\ Len(v.files) \in Nat
  BY <1>2, <1>3, Domain
<1>5. AllFiles(Listed(v))
  BY <1>2, <1>3, <1>4 DEF AllFiles
<1> QED BY <1>2, <1>3, <1>5

AddedIn(list) ==
  UNION {LET lines == Parsed(list[i])
         IN  {<<list[i].path, lines[k].new>> : k \in {k \in DOMAIN lines : lines[k].kind = "added"}}
           : i \in DOMAIN list}

LEMMA AllJoined ==
  ASSUME NEW s, NEW t, IsSeq(s), IsSeq(t), AllFiles(s), AllFiles(t)
  PROVE  AllFiles(s \o t)
<1>1. /\ DOMAIN s = 1..Len(s) /\ DOMAIN t = 1..Len(t) /\ Len(s) \in Nat /\ Len(t) \in Nat
      /\ IsSeq(s \o t) /\ Len(s \o t) = Len(s) + Len(t)
      /\ \A i \in 1..Len(s) + Len(t) : (s \o t)[i] = IF i <= Len(s) THEN s[i] ELSE t[i - Len(s)]
  BY Domain, Joined
<1>2. DOMAIN (s \o t) = 1..Len(s) + Len(t)
  BY <1>1, Domain
<1>3. ASSUME NEW i \in DOMAIN (s \o t) PROVE IsFile((s \o t)[i])
  <2>1. CASE i <= Len(s)
    <3>1. i \in 1..Len(s)
      BY <1>1, <1>2, <2>1
    <3> QED BY <1>1, <1>2, <2>1, <3>1 DEF AllFiles
  <2>2. CASE ~(i <= Len(s))
    <3>1. i - Len(s) \in 1..Len(t)
      BY <1>1, <1>2, <2>2
    <3> QED BY <1>1, <1>2, <2>2, <3>1 DEF AllFiles
  <2> QED BY <2>1, <2>2
<1> QED BY <1>3 DEF AllFiles

LEMMA PageFiles ==
  ASSUME NEW c \in Cases, NEW v \in {c.before, c.after}, NEW from \in Nat
  PROVE  LET got == SubSeq(Listed(v), from + 1, Min({from + c.page, Len(Listed(v))}))
         IN  IsSeq(got) /\ AllFiles(got)
<1> DEFINE L == Listed(v)
           end == Min({from + c.page, Len(L)})
           got == SubSeq(L, from + 1, end)
           S == {x \in Range(L) : IsFile(x)}
<1>1. AllFiles(L) /\ IsSeq(L) /\ Len(L) \in Nat /\ DOMAIN L = 1..Len(L) /\ c.page \in Nat
  BY VersionFiles, Domain, Versions
<1>2. end \in Nat /\ end <= Len(L)
  <2>1. from + c.page \in Int /\ Len(L) \in Int
    BY <1>1
  <2>2. end = IF from + c.page <= Len(L) THEN from + c.page ELSE Len(L)
    BY <2>1, Smaller
  <2> QED BY <1>1, <2>2
<1> HIDE DEF L, end
<1>3. \A i \in (from + 1)..end : L[i] \in S
  <2> TAKE i \in (from + 1)..end
  <2>1. i \in DOMAIN L
    BY <1>1, <1>2
  <2> QED BY <1>1, <2>1 DEF AllFiles, Range
<1>4. got \in Seq(S)
  <2> HIDE DEF S
  <2> QED BY <1>2, <1>3, SubSeqProperties
<1> HIDE DEF got
<1>5. \A i \in DOMAIN got : got[i] \in S
  <2> HIDE DEF S
  <2> QED BY <1>4, LenProperties, ElementOfSeq
<1>6. AllFiles(got)
  BY <1>5 DEF AllFiles
<1>7. IsSeq(got)
  BY <1>4, Own
<1> QED BY <1>6, <1>7 DEF got, end, L

LEMMA InitPlanInv == Init => PlanInv
<1> SUFFICES ASSUME Init PROVE PlanInv
  OBVIOUS
<1>1. files = <<>> /\ coverage = Unknown /\ batches = <<>> /\ findings = {}
  BY DEF Init
<1>2. AllFiles(files)
  BY <1>1 DEF AllFiles
<1>3. IsCoverage(coverage) /\ coverage.known = FALSE
  BY <1>1 DEF IsCoverage, CoverageKeys, Unknown
<1> QED BY <1>1, <1>2, <1>3 DEF PlanInv, FindingsOnAddedLines

\* While the files are being read, nothing is planned.
LEMMA ReadingKeepsPlan ==
  ASSUME IInv, PlanInv, Reading
  PROVE  PlanInv'
<1>1. Unread /\ coverage = Unknown /\ batches = <<>> /\ findings = {} /\ AllFiles(files) /\ IsSeq(files)
  BY DEF PlanInv, Unread, Reading, ReadMetadata, ReadPage, PagesUnknown, ReadLegacy, ReadRaw, ReadFails, IInv, SequencesOK
<1>2. UNCHANGED running
  BY DEF Reading, ReadMetadata, ReadPage, PagesUnknown, ReadLegacy, ReadRaw, ReadFails
<1>3. case \in Cases /\ Request \in {case.before, case.after}
  BY DEF IInv, TypeOK, Request
<1>4. AllFiles(files')
  <2>1. CASE ReadMetadata \/ ReadFails
    BY <1>1, <2>1 DEF ReadMetadata, ReadFails, reading
  <2>2. CASE ReadPage
    <3> DEFINE v == Request
               from == (page - 1) * case.page
               got == SubSeq(Listed(v), from + 1, Min({from + case.page, Len(Listed(v))}))
    <3>1. files' = files \o ShownAll(v, got)
      BY <2>2 DEF ReadPage
    <3>2. from \in Nat
      <4>1. page \in Nat \ {0} /\ case.page \in Nat
        BY <1>3, Versions DEF IInv, SequencesOK
      <4> QED BY <4>1
    <3> HIDE DEF v, from
    <3>3. IsSeq(got) /\ AllFiles(got)
      BY <1>3, <3>2, PageFiles DEF v
    <3> HIDE DEF got
    <3>4. IsSeq(ShownAll(v, got)) /\ AllFiles(ShownAll(v, got))
      BY <3>3, Mapped, ShownFiles
    <3> QED BY <1>1, <3>1, <3>4, AllJoined
  <2>3. CASE PagesUnknown
    BY <2>3 DEF PagesUnknown, AllFiles
  <2>4. CASE ReadLegacy
    <3>1. files' = ShownAll(Request, Listed(Request))
      BY <2>4 DEF ReadLegacy
    <3> QED BY <1>3, <3>1, VersionFiles, ShownFiles
  <2>5. CASE ReadRaw
    <3>1. files' = Request.files \/ files' = files
      BY <2>5 DEF ReadRaw
    <3> QED BY <1>1, <1>3, <3>1, VersionFiles
  <2> QED BY <2>1, <2>2, <2>3, <2>4, <2>5 DEF Reading
<1>5. coverage' = Unknown /\ batches' = <<>> /\ findings' = {}
  BY <1>1, <1>2 DEF running
<1>6. IsCoverage(coverage') /\ coverage'.known = FALSE
  BY <1>5 DEF IsCoverage, CoverageKeys, Unknown
<1>7. FindingsOnAddedLines'
  BY <1>5 DEF FindingsOnAddedLines
<1> QED BY <1>4, <1>5, <1>6, <1>7 DEF PlanInv, Unread

\* Steps that leave files and plan alone.
LEMMA PlanStands ==
  ASSUME PlanInv, UNCHANGED <<case, files, batches>>, Unread' => Unread,
         IsCoverage(coverage'), coverage'.known = coverage.known, coverage'.planned = coverage.planned,
         coverage'.required = coverage.required, Unread' => coverage' = coverage,
         findings' \subseteq findings
  PROVE  PlanInv'
<1>1. PlanFollows => PlanFollows'
  BY DEF PlanFollows
<1>2. FindingsOnAddedLines'
  BY DEF PlanInv, FindingsOnAddedLines
<1>3. AllFiles(files')
  BY DEF PlanInv
<1>4. Unread' => coverage' = Unknown /\ batches' = <<>> /\ findings' = {}
  BY DEF PlanInv
<1>5. IF coverage'.known THEN PlanFollows' ELSE batches' = <<>>
  BY <1>1 DEF PlanInv
<1>6. coverage'.known \in BOOLEAN
  BY DEF PlanInv
<1> QED BY <1>2, <1>3, <1>4, <1>5, <1>6 DEF PlanInv

LEMMA PlanKeepsPlan ==
  ASSUME IInv, PlanInv, Plan
  PROVE  PlanInv'
<1> DEFINE limit == case.limit
           all == PlanOf(files, limit)
           planned == IF case.most = 0 THEN Len(all) ELSE Min({Len(all), case.most})
           sum == Summary(files, FlattenSeq(SubSeq(all, 1, planned)) \o Only(AllPieces(files, limit), LAMBDA p : ~p.reviewable))
           X == PathsIn(files)
           U == Elements(files)
<1>1. /\ at' = "batch" /\ files' = files /\ case' = case /\ findings' = {}
      /\ batches' = SubSeq(all, 1, planned)
      /\ coverage' = Counts(sum, Len(all), planned)
  BY DEF Plan, PlanOf, SentOf, reading
<1>2. limit \in Nat /\ case.most \in Nat /\ IsSeq(files) /\ AllFiles(files)
  BY CasesAssumption DEF IInv, TypeOK, SequencesOK, PlanInv
<1>3. files \in Seq(U) /\ FilesIn(X, U)
  BY <1>2, FilesType
<1> HIDE DEF limit, all, sum, X, U
<1>4. all \in Seq(FitBatches(X, U, limit))
  BY <1>2, <1>3, PlanIs DEF all
<1>5. Len(all) \in Nat
  BY <1>4, LenProperties
<1>6. planned \in 0..Len(all)
  <2>1. case.most # 0 => planned = IF Len(all) <= case.most THEN Len(all) ELSE case.most
    <3>1. Len(all) \in Int /\ case.most \in Int
      BY <1>2, <1>5
    <3> QED BY <3>1, Smaller
  <2> QED BY <1>2, <1>5, <2>1
<1> HIDE DEF planned
<1>7. coverage'.known = TRUE /\ coverage'.required = Len(all) /\ coverage'.planned = planned /\ IsCoverage(coverage')
  BY <1>1 DEF Counts, IsCoverage, CoverageKeys
<1>8. PlanFollows'
  BY <1>1, <1>6, <1>7 DEF PlanFollows, all, limit
<1>9. FindingsOnAddedLines'
  BY <1>1 DEF FindingsOnAddedLines
<1>10. AllFiles(files') /\ ~Unread'
  BY <1>1, <1>2 DEF Unread
<1> QED BY <1>7, <1>8, <1>9, <1>10 DEF PlanInv

LEMMA PlannedBatches ==
  ASSUME IInv, PlanInv
  PROVE  /\ batches \in Seq(FitBatches(PathsIn(files), Elements(files), case.limit))
         /\ case.limit \in Nat /\ files \in Seq(Elements(files)) /\ FilesIn(PathsIn(files), Elements(files))
<1> DEFINE X == PathsIn(files)
           U == Elements(files)
           limit == case.limit
           all == PlanOf(files, limit)
<1>1. limit \in Nat /\ IsSeq(files) /\ AllFiles(files)
  BY CasesAssumption DEF IInv, TypeOK, SequencesOK, PlanInv
<1>2. files \in Seq(U) /\ FilesIn(X, U)
  BY <1>1, FilesType
<1> HIDE DEF X, U, limit
<1>3. all \in Seq(FitBatches(X, U, limit))
  BY <1>1, <1>2, PlanIs
<1>4. CASE coverage.known
  <2>1. coverage.planned \in 0..Len(all) /\ batches = SubSeq(all, 1, coverage.planned)
    BY <1>4 DEF PlanInv, PlanFollows, limit
  <2> HIDE DEF all
  <2>2. FitBatches(X, U, limit) \subseteq Seq(SentPiece(X, U, limit))
    BY SentTypes
  <2>3. SubSeq(all, 1, coverage.planned) \in Seq(FitBatches(X, U, limit))
    BY <1>3, <2>1, <2>2, SomeBatches
  <2> QED BY <1>1, <1>2, <2>1, <2>3 DEF X, U, limit
<1>5. CASE ~coverage.known
  <2>1. batches = <<>>
    BY <1>5 DEF PlanInv
  <2> QED BY <1>1, <1>2, <2>1, EmptySeq DEF X, U, limit
<1> QED BY <1>4, <1>5 DEF PlanInv

LEMMA AddedOfFiles ==
  ASSUME NEW X, NEW list, NEW limit, NEW b \in Seq(SentPiece(X, Elements(list), limit))
  PROVE  Added(b) \subseteq AddedIn(list)
<1> SUFFICES ASSUME NEW x \in Added(b) PROVE x \in AddedIn(list)
  OBVIOUS
<1>0. PICK i \in DOMAIN b :
        x \in {<<b[i].path, Parsed(b[i])[k].new>> : k \in {l \in DOMAIN Parsed(b[i]) : Parsed(b[i])[l].kind = "added"}}
  BY DEF Added
<1>1. PICK k \in DOMAIN Parsed(b[i]) : Parsed(b[i])[k].kind = "added" /\ x = <<b[i].path, Parsed(b[i])[k].new>>
  BY <1>0
<1>2. b[i] \in SentPiece(X, Elements(list), limit)
  BY LenProperties, ElementOfSeq
<1>3. PICK f \in Elements(list) : b[i].path = f.path /\ LinesFrom(b[i], f)
  BY <1>2 DEF SentPiece, GoodPiece
<1> DEFINE V == {Parsed(f)[m] : m \in DOMAIN Parsed(f)}
<1>4. Parsed(b[i]) \in Seq(V)
  BY <1>3 DEF LinesFrom
<1>5. Parsed(b[i])[k] \in V
  <2> HIDE DEF V
  <2> QED BY <1>1, <1>4, LenProperties, ElementOfSeq
<1>6. PICK m \in DOMAIN Parsed(f) : Parsed(b[i])[k] = Parsed(f)[m]
  BY <1>5
<1>7. PICK j \in DOMAIN list : f = list[j]
  BY DEF Elements
<1>8. x = <<list[j].path, Parsed(list[j])[m].new>> /\ Parsed(list[j])[m].kind = "added" /\ m \in DOMAIN Parsed(list[j])
  BY <1>1, <1>3, <1>6, <1>7
<1> QED BY <1>8 DEF AddedIn

LEMMA FindingsIs == FindingsOnAddedLines <=> findings \subseteq AddedIn(files)
  BY DEF FindingsOnAddedLines, AddedIn

LEMMA BatchKeepsPlan ==
  ASSUME IInv, PlanInv, BatchSucceeds
  PROVE  PlanInv'
<1> DEFINE b == batches[done + 1]
           U == Elements(files)
           X == PathsIn(files)
<1>1. /\ at = "batch" /\ at' = "batch" /\ done < Len(batches)
      /\ findings' \subseteq findings \cup Added(b)
      /\ UNCHANGED <<case, files, batches, coverage>>
  BY DEF BatchSucceeds, Kept, reading
<1>2. batches \in Seq(FitBatches(X, U, case.limit)) /\ done \in Nat
  BY PlannedBatches DEF IInv, TypeOK
<1>3. b \in Seq(SentPiece(X, U, case.limit))
  <2>1. FitBatches(X, U, case.limit) \subseteq Seq(SentPiece(X, U, case.limit))
    BY SentTypes
  <2>2. Len(batches) \in Nat /\ done + 1 \in 1..Len(batches)
    BY <1>1, <1>2, LenProperties
  <2> HIDE DEF X, U
  <2>3. batches[done + 1] \in FitBatches(X, U, case.limit)
    BY <1>2, <2>2, ElementOfSeq
  <2> QED BY <2>1, <2>3
<1> HIDE DEF b, X
<1>4. Added(b) \subseteq AddedIn(files)
  BY <1>3, AddedOfFiles
<1>5. findings' \subseteq AddedIn(files)
  BY <1>1, <1>4, FindingsIs DEF PlanInv
<1>6. FindingsOnAddedLines'
  BY <1>1, <1>5 DEF FindingsOnAddedLines, AddedIn
<1>7. PlanFollows => PlanFollows'
  BY <1>1 DEF PlanFollows
<1> QED BY <1>1, <1>6, <1>7 DEF PlanInv, Unread

Recounted(c, s) ==
  [c EXCEPT !.full = s.full, !.partial = s.partial, !.unreviewed = s.unreviewed, !.reviewed = s.reviewed]
Raised(c, m) == [c EXCEPT !.total = c.total + m, !.unreviewed = c.unreviewed + m]
SamePlan(c, d) == IsCoverage(d) /\ d.known = c.known /\ d.planned = c.planned /\ d.required = c.required

LEMMA RecountedIs ==
  ASSUME NEW c, IsCoverage(c), NEW s
  PROVE  /\ SamePlan(c, Recounted(c, s))
         /\ Recounted(c, s).full = s.full /\ Recounted(c, s).partial = s.partial
         /\ Recounted(c, s).unreviewed = s.unreviewed /\ Recounted(c, s).total = c.total
<1> DEFINE d == Recounted(c, s)
<1>1. DOMAIN d = CoverageKeys
  BY DEF IsCoverage, Recounted
<1>2. /\ d.known = c.known /\ d.planned = c.planned /\ d.required = c.required /\ d.total = c.total
      /\ d.full = s.full /\ d.partial = s.partial /\ d.unreviewed = s.unreviewed
  BY DEF IsCoverage, Recounted, CoverageKeys
<1>3. d = [k \in CoverageKeys |-> d[k]]
  BY DEF IsCoverage, Recounted
<1> QED BY <1>1, <1>2, <1>3 DEF SamePlan, IsCoverage

LEMMA RaisedIs ==
  ASSUME NEW c, IsCoverage(c), NEW m
  PROVE  /\ SamePlan(c, Raised(c, m))
         /\ Raised(c, m).full = c.full /\ Raised(c, m).partial = c.partial
         /\ Raised(c, m).unreviewed = c.unreviewed + m /\ Raised(c, m).total = c.total + m
<1> DEFINE d == Raised(c, m)
<1>1. DOMAIN d = CoverageKeys
  BY DEF IsCoverage, Raised
<1>2. /\ d.known = c.known /\ d.planned = c.planned /\ d.required = c.required
      /\ d.full = c.full /\ d.partial = c.partial
  BY DEF IsCoverage, Raised, CoverageKeys
<1>3. d.total = c.total + m /\ d.unreviewed = c.unreviewed + m
  BY DEF IsCoverage, Raised, CoverageKeys
<1>4. d = [k \in CoverageKeys |-> d[k]]
  BY DEF IsCoverage, Raised
<1> QED BY <1>1, <1>2, <1>3, <1>4 DEF SamePlan, IsCoverage

LEMMA NextPlanInv == IInv /\ PlanInv /\ [Next]_vars => PlanInv'
<1> SUFFICES ASSUME IInv, PlanInv, [Next]_vars PROVE PlanInv'
  OBVIOUS
<1>0. IsCoverage(coverage)
  BY DEF PlanInv
<1>1. CASE Push
  <2>1. UNCHANGED <<at, case, files, batches, coverage, findings>>
    BY <1>1 DEF Push, reading, running
  <2> QED BY <1>0, <2>1, PlanStands DEF Unread
<1>2. CASE Reading
  BY <1>2, ReadingKeepsPlan
<1>3. CASE Plan
  BY <1>3, PlanKeepsPlan
<1>4. CASE BatchSucceeds
  BY <1>4, BatchKeepsPlan
<1>5. CASE BatchFails
  <2>1. /\ UNCHANGED <<case, files, batches>> /\ findings' = {} /\ at' = "returned"
        /\ \E s : coverage' = Recounted(coverage, s)
    BY <1>5 DEF BatchFails, Failing, Recount, Recounted, reading
  <2>2. /\ IsCoverage(coverage') /\ coverage'.known = coverage.known
        /\ coverage'.planned = coverage.planned /\ coverage'.required = coverage.required
    BY <1>0, <2>1, RecountedIs DEF SamePlan
  <2> QED BY <2>1, <2>2, PlanStands DEF Unread
<1>6. CASE PrepareContext \/ BatchesEnd \/ FallBack
  <2>1. UNCHANGED <<case, files, batches, coverage, findings>> /\ at' \in {"planning", "returned"}
    BY <1>6 DEF PrepareContext, BatchesEnd, FallBack, reading, running
  <2> QED BY <1>0, <2>1, PlanStands DEF Unread
<1>7. CASE Correct
  <2>1. /\ UNCHANGED <<case, files, batches, findings>> /\ at' = "corrected"
        /\ coverage' = coverage \/ \E m : coverage' = Raised(coverage, m)
    BY <1>7 DEF Correct, Raised, reading
  <2>2. /\ IsCoverage(coverage') /\ coverage'.known = coverage.known
        /\ coverage'.planned = coverage.planned /\ coverage'.required = coverage.required
    BY <1>0, <2>1, RaisedIs DEF SamePlan
  <2> QED BY <2>1, <2>2, PlanStands DEF Unread
<1>8. CASE Store \/ StoreFails \/ Over \/ UNCHANGED vars
  <2>1. UNCHANGED <<case, files, batches, coverage, findings>> /\ (Unread' => Unread)
    BY <1>8 DEF Store, StoreFails, Over, vars, reading, running, Unread
  <2> QED BY <1>0, <2>1, PlanStands
<1> QED BY <1>1, <1>2, <1>3, <1>4, <1>5, <1>6, <1>7, <1>8 DEF Next, Reviewing, Telling

LEMMA PlanInductive == Spec => [](IInv /\ PlanInv)
<1>1. Init => PlanInv
  BY InitPlanInv
<1> QED BY <1>1, InitIInv, NextIInv, NextPlanInv, PTL DEF Spec

(* Whatever the files and the limit, no batch that is planned is empty,    *)
(* and none is larger than configured, but for one that is a single        *)
(* character wider than that.  (plan_ai_review_batches.)                   *)
THEOREM BatchesAlwaysFit == Spec => []BatchesFit
<1>1. ASSUME IInv, PlanInv PROVE BatchesFit
  <2> SUFFICES ASSUME NEW b \in DOMAIN batches PROVE
        /\ batches[b] /= <<>>
        /\ \/ BatchBytes(batches[b]) <= case.limit
           \/ Len(batches[b]) = 1 /\ Len(batches[b][1].text) = 1 /\ batches[b][1].hunks = <<>>
    BY DEF BatchesFit
  <2>1. batches \in Seq(FitBatches(PathsIn(files), Elements(files), case.limit))
    BY <1>1, PlannedBatches
  <2>2. batches[b] \in FitBatches(PathsIn(files), Elements(files), case.limit)
    BY <2>1, LenProperties, ElementOfSeq
  <2> QED BY <2>2 DEF FitBatches, FitBatch
<1> QED BY <1>1, PlanInductive, PTL

(* A finding that is kept is on a line the diff adds, also when its batch  *)
(* held a piece of the file only.  (filter_findings_to_added_lines.)       *)
THEOREM FindingsKeepToAddedLines == Spec => []FindingsOnAddedLines
<1>1. PlanInv => FindingsOnAddedLines
  BY DEF PlanInv
<1> QED BY <1>1, PlanInductive, PTL

LEMMA SendableIs == \A s \in Seq(PlacedLine) : Only(s, Sendable) = Chosen(s, Fit(case.limit))
<1> SUFFICES ASSUME NEW s \in Seq(PlacedLine)
             PROVE  Only(s, Sendable) = Chosen(s, Fit(case.limit))
  OBVIOUS
<1> DEFINE F(it) == [t \in SUBSET DOMAIN s |->
                       IF t = {} THEN <<>>
                       ELSE IF HeaderBytes(s[Max(t)].old, s[Max(t)].new, <<s[Max(t)]>>) + s[Max(t)].bytes <= case.limit
                            THEN Append(it[t \ {Max(t)}], s[Max(t)]) ELSE it[t \ {Max(t)}]]
<1>1. Only(s, Sendable) = (CHOOSE it : it = F(it))[DOMAIN s]
  BY DEF Sendable, Only, FoldLeft, MapThenFoldSet, Max
<1>2. \A x \in PlacedLine : HeaderBytes(x.old, x.new, <<x>>) + x.bytes <= case.limit <=> x \in Fit(case.limit)
  BY DEF Fit
<1>3. \A it : F(it) = Keeping(Fit(case.limit), s, it)
  BY <1>2, LastElement DEF Keeping, KeepStep
<1> HIDE DEF F
<1>4. (CHOOSE it : it = F(it)) = (CHOOSE it : it = Keeping(Fit(case.limit), s, it))
  BY <1>3, Zenon
<1> QED BY <1>1, <1>4, ChosenIs

LEMMA SentLinesIs ==
  ASSUME NEW X, NEW path, NEW list \in Seq(Seq(AnyPiece(X)))
  PROVE  /\ SentLines(path, list) = Lines(X, Chosen(FlattenSeq(list), FilesOwn(X, path)))
         /\ FlattenSeq(list) \in Seq(AnyPiece(X))
         /\ Of(path, FlattenSeq(list)) = Chosen(FlattenSeq(list), FilesOwn(X, path))
         /\ Chosen(FlattenSeq(list), FilesOwn(X, path)) \in Seq(AnyPiece(X))
<1> DEFINE own == Of(path, FlattenSeq(list))
<1>1. FlattenSeq(list) \in Seq(AnyPiece(X))
  BY FlattenType
<1>2. own = Chosen(FlattenSeq(list), FilesOwn(X, path))
  BY <1>1, OfIs
<1>3. own \in Seq(AnyPiece(X))
  <2>1. own \in Seq(AnyPiece(X) \cap FilesOwn(X, path)) /\ AnyPiece(X) \cap FilesOwn(X, path) \subseteq AnyPiece(X)
    BY <1>1, <1>2, ChosenType
  <2> HIDE DEF own
  <2> QED BY <2>1, SeqMonotonic
<1>4. SentLines(path, list) = FlattenSeq([i \in DOMAIN own |-> Parsed(own[i])])
  BY DEF SentLines
<1> HIDE DEF own
<1>5. \A i \in DOMAIN own : own[i] \in AnyPiece(X)
  BY <1>3, LenProperties, ElementOfSeq
<1>6. [i \in DOMAIN own |-> Parsed(own[i])] = [i \in DOMAIN own |-> ParseOf(X)[own[i]]]
  BY <1>5 DEF ParseOf
<1>7. SentLines(path, list) = Lines(X, own)
  BY <1>4, <1>6 DEF Lines, FlatMap, Map
<1> QED BY <1>1, <1>2, <1>3, <1>7 DEF own

LEMMA LinesConcat ==
  ASSUME NEW X, NEW P \in Seq(AnyPiece(X)), NEW Q \in Seq(AnyPiece(X))
  PROVE  /\ Lines(X, P \o Q) = Lines(X, P) \o Lines(X, Q)
         /\ Lines(X, P) \in Seq(PlacedLine) /\ Lines(X, Q) \in Seq(PlacedLine)
         /\ Charges(X, P \o Q) = Charges(X, P) + Charges(X, Q)
         /\ Charges(X, P) \in Nat /\ Charges(X, Q) \in Nat
<1>1. /\ Maps(ParseOf(X), AnyPiece(X), Seq(PlacedLine))
      /\ Maps(ChargeOf(X), AnyPiece(X), Int) /\ Maps(ChargeOf(X), AnyPiece(X), Nat)
  BY PieceTypes
<1>2. Lines(X, P \o Q) = Lines(X, P) \o Lines(X, Q) /\ Lines(X, P) \in Seq(PlacedLine) /\ Lines(X, Q) \in Seq(PlacedLine)
  BY <1>1, FlatMapConcat DEF Lines
<1>3. Charges(X, P \o Q) = Charges(X, P) + Charges(X, Q)
  BY <1>1, TotalConcat DEF Charges
<1>4. Charges(X, P) \in Nat /\ Charges(X, Q) \in Nat
  BY <1>1, TotalType DEF Charges
<1> QED BY <1>2, <1>3, <1>4

\* What some batches hold of a file, of all that is to be sent of it.
SentSo(X, V, all, some, path, want) ==
  /\ some \in Seq(Seq(AnyPiece(X)))
  /\ \E rest \in Seq(V) :
       /\ FlattenSeq(all) = FlattenSeq(some) \o rest
       /\ want = SentLines(path, some) \o Lines(X, Chosen(rest, FilesOwn(X, path)))
  /\ some = all => SentLines(path, some) = want

LEMMA SomeSent ==
  ASSUME NEW X, NEW V, V \subseteq AnyPiece(X), NEW W, W \subseteq Seq(V), NEW all \in Seq(W),
         NEW path, NEW n \in 0..Len(all)
  PROVE  SentSo(X, V, all, SubSeq(all, 1, n), path, Lines(X, Chosen(FlattenSeq(all), FilesOwn(X, path))))
<1> DEFINE some == SubSeq(all, 1, n)
           S == FlattenSeq(all)
           O == FilesOwn(X, path)
           want == Lines(X, Chosen(S, O))
<1>3. Seq(V) \subseteq Seq(AnyPiece(X))
  BY SeqMonotonic
<1>4. /\ some \in Seq(W) /\ FlattenSeq(some) \in Seq(V)
      /\ \E rest \in Seq(V) : S = FlattenSeq(some) \o rest
  <2> HIDE DEF O, want
  <2>1. W \subseteq Seq(V) /\ all \in Seq(W) /\ n \in 0..Len(all)
    OBVIOUS
  <2>2. SubSeq(all, 1, n) \in Seq(W) /\ FlattenSeq(SubSeq(all, 1, n)) \in Seq(V)
    BY <2>1, SomeBatches
  <2>3. GoesOn(V, SubSeq(all, 1, n), all)
    BY <2>1, SomeBatches
  <2> QED BY <2>2, <2>3 DEF GoesOn
<1> HIDE DEF S, O, want, some
<1>5. PICK rest \in Seq(V) : S = FlattenSeq(some) \o rest
  BY <1>4
<1>6. some \in Seq(Seq(AnyPiece(X)))
  <2>1. W \subseteq Seq(AnyPiece(X))
    BY <1>3
  <2> QED BY <1>4, <2>1, SeqMonotonic
<1>7. FlattenSeq(some) \in Seq(AnyPiece(X)) /\ rest \in Seq(AnyPiece(X))
  BY <1>3, <1>4
<1> DEFINE a == Chosen(FlattenSeq(some), O)
           b == Chosen(rest, O)
<1>8. Chosen(S, O) = a \o b
  BY <1>5, <1>7, ChosenConcat
<1>9. a \in Seq(AnyPiece(X)) /\ b \in Seq(AnyPiece(X))
  <2>1. a \in Seq(AnyPiece(X) \cap O) /\ b \in Seq(AnyPiece(X) \cap O) /\ AnyPiece(X) \cap O \subseteq AnyPiece(X)
    BY <1>7, ChosenType
  <2> HIDE DEF a, b
  <2> QED BY <2>1, SeqMonotonic
<1>10. SentLines(path, some) = Lines(X, a)
  BY <1>6, SentLinesIs DEF O
<1> HIDE DEF a, b
<1>11. want = SentLines(path, some) \o Lines(X, b)
  BY <1>8, <1>9, <1>10, LinesConcat DEF want
<1>12. some = all => SentLines(path, some) = want
  BY <1>10 DEF want, a, S
<1>13. want = SentLines(path, some) \o Lines(X, Chosen(rest, O))
  BY <1>11 DEF b
<1>14. SentSo(X, V, all, some, path, want)
  BY <1>5, <1>6, <1>12, <1>13 DEF SentSo, S, O
<1> QED BY <1>14 DEF some, want, S, O

\* The first n batches of a plan, for the file at i.
LEMMA PlanSends ==
  ASSUME NEW X, NEW U, FilesIn(X, U), NEW limit \in Nat, NEW list \in Seq(U), NEW i \in DOMAIN list,
         OnlyAt(list, i, list[i].path), NEW n \in 0..Len(PlanOf(list, limit))
  PROVE  SentSo(X, SentPiece(X, U, limit), PlanOf(list, limit), SubSeq(PlanOf(list, limit), 1, n), list[i].path,
                WantOf(list[i], limit))
<1> DEFINE V == SentPiece(X, U, limit)
           W == FitBatches(X, U, limit)
           all == PlanOf(list, limit)
           S == SentOf(list, limit)
           path == list[i].path
           want == WantOf(list[i], limit)
<1>1. S = Chosen(AllPieces(list, limit), Reviewable(X)) /\ all \in Seq(W) /\ FlattenSeq(all) = S
  BY PlanIs
<1>2. Lines(X, Chosen(Chosen(AllPieces(list, limit), Reviewable(X)), FilesOwn(X, list[i].path))) = want
  BY FileLines
<1>3. V \subseteq AnyPiece(X) /\ W \subseteq Seq(V)
  BY SentTypes
<1>4. n \in 0..Len(all)
  OBVIOUS
<1> HIDE DEF V, W, all, S, want
<1>5. want = Lines(X, Chosen(FlattenSeq(all), FilesOwn(X, path)))
  BY <1>1, <1>2
<1> HIDE DEF path
<1>6. SentSo(X, V, all, SubSeq(all, 1, n), path, Lines(X, Chosen(FlattenSeq(all), FilesOwn(X, path))))
  BY <1>1, <1>3, <1>4, SomeSent
<1>7. SentSo(X, V, all, SubSeq(all, 1, n), path, want)
  BY <1>5, <1>6
<1> QED BY <1>7 DEF V, all, path, want

(* Whatever the files and the limit: as long as no file was read twice,    *)
(* the batches hold every line that can be sent at all, once, in its order *)
(* and with its place in the whole diff; cut off at the end where the      *)
(* configured number of batches is too small.  A diff within the limit is  *)
(* sent with all of its lines.                                             *)
(* (split_change_into_review_work_items, plan_ai_review_batches.)          *)
THEOREM LinesAreSentOnce == Spec => []EveryLineOnce
<1>1. ASSUME IInv, PlanInv PROVE EveryLineOnce
  <2> SUFFICES ASSUME Planned, Once, NEW i \in DOMAIN files
               PROVE  LET want == IF DiffBytes(files[i]) <= case.limit THEN Parsed(files[i])
                                  ELSE Only(Parsed(files[i]), Sendable)
                          sent == SentLines(files[i].path, batches)
                      IN  /\ IsPrefix(sent, want)
                          /\ coverage.planned = coverage.required => sent = want
    BY DEF EveryLineOnce
  <2> DEFINE X == PathsIn(files)
             U == Elements(files)
             limit == case.limit
             n == coverage.planned
             path == files[i].path
             want == IF DiffBytes(files[i]) <= limit THEN Parsed(files[i]) ELSE Only(Parsed(files[i]), Sendable)
             sent == SentLines(path, batches)
  <2>1. files \in Seq(U) /\ FilesIn(X, U) /\ limit \in Nat
    BY <1>1, PlannedBatches
  <2>2. n \in 0..Len(PlanOf(files, limit)) /\ batches = SubSeq(PlanOf(files, limit), 1, n)
        /\ coverage.required = Len(PlanOf(files, limit))
    BY <1>1 DEF PlanInv, PlanFollows, Planned
  <2>3. OnlyAt(files, i, path)
    BY DEF OnlyAt, Once
  <2>4. IsFile(files[i])
    BY <1>1 DEF PlanInv, AllFiles
  <2>5. Parsed(files[i]) \in Seq(PlacedLine)
    BY <2>4, FileIs
  <2>6. want = WantOf(files[i], limit)
    BY <2>5, SendableIs DEF WantOf
  <2> HIDE DEF X, U, limit, n, want, sent
  <2>7. SentSo(X, SentPiece(X, U, limit), PlanOf(files, limit), batches, path, want)
    <3>1. WantOf(files[i], limit) = want
      BY <2>6
    <3>2. SentSo(X, SentPiece(X, U, limit), PlanOf(files, limit), SubSeq(PlanOf(files, limit), 1, n), path,
                 WantOf(files[i], limit))
      BY <2>1, <2>2, <2>3, PlanSends
    <3> QED BY <2>2, <3>1, <3>2
  <2>8. PICK rest \in Seq(SentPiece(X, U, limit)) : want = sent \o Lines(X, Chosen(rest, FilesOwn(X, path)))
    BY <2>7 DEF sent, SentSo
  <2> DEFINE more == Chosen(rest, FilesOwn(X, path))
  <2>9. sent \in Seq(PlacedLine) /\ Lines(X, more) \in Seq(PlacedLine)
    <3>1. Chosen(FlattenSeq(batches), FilesOwn(X, path)) \in Seq(AnyPiece(X))
          /\ sent = Lines(X, Chosen(FlattenSeq(batches), FilesOwn(X, path)))
      BY <2>7, SentLinesIs DEF sent, SentSo
    <3>2. rest \in Seq(AnyPiece(X))
      BY SentTypes
    <3>3. more \in Seq(AnyPiece(X) \cap FilesOwn(X, path)) /\ AnyPiece(X) \cap FilesOwn(X, path) \subseteq AnyPiece(X)
      BY <3>2, ChosenType
    <3> HIDE DEF more
    <3>4. more \in Seq(AnyPiece(X))
      BY <3>3, SeqMonotonic
    <3> QED BY <3>1, <3>4, LinesConcat
  <2>10. IsPrefix(sent, want)
    <3> HIDE DEF more
    <3> QED BY <2>8, <2>9, PrefixOfConcat DEF more
  <2>11. coverage.planned = coverage.required => sent = want
    <3>1. PlanOf(files, limit) \in Seq(FitBatches(X, U, limit))
      BY <2>1, PlanIs
    <3>2. coverage.planned = coverage.required => batches = PlanOf(files, limit)
      BY <2>2, <3>1, SubSeqFull DEF n
    <3> QED BY <2>7, <3>2 DEF sent, SentSo
  <2> QED BY <2>10, <2>11 DEF sent, want, path, limit
<1> QED BY <1>1, PlanInductive, PTL

-----------------------------------------------------------------------------
(* What is charged is what was sent.                                       *)

\* Pieces that are not sent are charged nothing, and lines that are sent take
\* up no more than what is charged.
LEMMA ChargedOnce ==
  ASSUME NEW X, NEW U, NEW limit \in Nat
  PROVE  \A P \in Seq(GoodPiece(X, U, limit)) :
           /\ Charges(X, Chosen(P, Reviewable(X))) = Charges(X, P)
           /\ Weigh(Lines(X, P)) <= Charges(X, P)
<1> DEFINE W == GoodPiece(X, U, limit)
           R == Reviewable(X)
           G == {P \in Seq(W) : /\ Charges(X, Chosen(P, R)) = Charges(X, P)
                                /\ Weigh(Lines(X, P)) <= Charges(X, P)}
<1>1. <<>> \in G
  BY EmptySeq, ChosenEmpty, NoPieces, WeighNone
<1>2. ASSUME NEW P \in Seq(W), NEW p \in W, P \in G PROVE Append(P, p) \in G
  <2>1. P \in Seq(AnyPiece(X)) /\ p \in AnyPiece(X) /\ Chosen(P, R) \in Seq(AnyPiece(X))
    <3>1. W \subseteq AnyPiece(X)
      BY DEF GoodPiece
    <3> HIDE DEF W, R
    <3>2. P \in Seq(AnyPiece(X)) /\ p \in AnyPiece(X)
      BY <3>1, SeqMonotonic
    <3>3. Chosen(P, R) \in Seq(AnyPiece(X) \cap R) /\ AnyPiece(X) \cap R \subseteq AnyPiece(X)
      BY <3>2, ChosenType
    <3> QED BY <3>2, <3>3, SeqMonotonic
  <2>2. p.reviewable \in BOOLEAN /\ p.hunks \in Seq(AnyHunk) /\ p.charged \in Nat
    BY <2>1 DEF AnyPiece
  <2>3. /\ Lines(X, Append(P, p)) = Lines(X, P) \o Parsed(p) /\ Lines(X, P) \in Seq(PlacedLine)
        /\ Charges(X, Append(P, p)) = Charges(X, P) + p.charged /\ Charges(X, P) \in Nat
    BY <2>1, OneMorePiece
  <2>4. Chosen(Append(P, p), R) = IF p \in R THEN Append(Chosen(P, R), p) ELSE Chosen(P, R)
    <3> HIDE DEF R
    <3> QED BY <2>1, ChosenAppend
  <2>5. p \in R <=> p.reviewable
    BY <2>1 DEF Reviewable
  <2>6. Charges(X, Chosen(P, R)) = Charges(X, P) /\ Weigh(Lines(X, P)) <= Charges(X, P)
    BY <1>2
  <2>7. Charges(X, Append(Chosen(P, R), p)) = Charges(X, Chosen(P, R)) + p.charged
    <3> HIDE DEF R
    <3> QED BY <2>1, OneMorePiece
  <2>8. ~p.reviewable => p.charged = 0
    BY DEF GoodPiece
  <2>9. Weigh(Parsed(p)) <= p.charged /\ Parsed(p) \in Seq(PlacedLine)
    BY <2>1, ParsedType DEF GoodPiece
  <2>10. Charges(X, Chosen(Append(P, p), R)) = Charges(X, Append(P, p))
    <3> HIDE DEF R
    <3>1. CASE p.reviewable
      BY <2>3, <2>4, <2>5, <2>6, <2>7, <3>1
    <3>2. CASE ~p.reviewable
      BY <2>3, <2>4, <2>5, <2>6, <2>8, <3>2
    <3> QED BY <2>2, <3>1, <3>2
  <2>11. Weigh(Lines(X, Append(P, p))) <= Charges(X, Append(P, p))
    <3> DEFINE s == Lines(X, P)
               t == Parsed(p)
    <3>1. s \in Seq(PlacedLine) /\ t \in Seq(PlacedLine)
      BY <2>3, <2>9
    <3> HIDE DEF s, t
    <3>2. Weigh(s) \in Nat /\ Weigh(t) \in Nat /\ Weigh(s \o t) = Weigh(s) + Weigh(t)
      BY <3>1, WeighConcat
    <3>3. Weigh(s) + Weigh(t) <= Charges(X, P) + p.charged
      BY <2>2, <2>3, <2>6, <2>9, <3>2 DEF s, t
    <3> QED BY <2>3, <3>2, <3>3 DEF s, t
  <2> QED BY <2>10, <2>11, AppendProperties
<1> HIDE DEF G
<1>3. Seq(W) \subseteq G
  <2> HIDE DEF W
  <2> QED BY <1>1, <1>2, SeqInduction
<1> QED BY <1>3 DEF G

\* What the pieces of a file that are sent are charged together, with the
\* lines that are not: the diff and what its headers omit at most.
LEMMA FileCharges ==
  ASSUME NEW X, NEW U, FilesIn(X, U), NEW limit \in Nat, NEW list \in Seq(U), NEW i \in DOMAIN list,
         OnlyAt(list, i, list[i].path)
  PROVE  LET c == Charges(X, Chosen(Chosen(AllPieces(list, limit), Reviewable(X)), FilesOwn(X, list[i].path)))
         IN  c + Weigh(Parsed(list[i]))
               <= DiffBytes(list[i]) + Omitted(list[i]) + Weigh(WantOf(list[i], limit))
<1> DEFINE A == AllPieces(list, limit)
           R == Reviewable(X)
           O == FilesOwn(X, list[i].path)
           P == Pieces(list[i], limit)
<1>1. A \in Seq(AnyPiece(X))
  BY AllPiecesIs
<1>2. list[i] \in U /\ IsFile(list[i]) /\ list[i].path \in X
  BY LenProperties, ElementOfSeq DEF FilesIn
<1>3. P \in Seq(GoodPiece(X, U, limit))
  BY <1>2, PiecesGood
<1>4. Charges(X, P) + Weigh(Parsed(list[i])) <= DiffBytes(list[i]) + Omitted(list[i]) + Weigh(WantOf(list[i], limit))
  BY <1>2, PiecesCut DEF CutWell
<1>5. Chosen(A, O) = P
  BY OneOwn
<1> HIDE DEF A, R, O, P
<1>6. Chosen(Chosen(A, R), O) = Chosen(A, R \cap O) /\ Chosen(Chosen(A, O), R) = Chosen(A, O \cap R)
  BY <1>1, ChosenTwice
<1>7. R \cap O = O \cap R
  OBVIOUS
<1>8. Chosen(Chosen(A, R), O) = Chosen(P, R)
  BY <1>5, <1>6, <1>7
<1>9. Charges(X, Chosen(P, R)) = Charges(X, P)
  BY <1>3, ChargedOnce DEF R
<1> QED BY <1>4, <1>8, <1>9 DEF A, R, O

OwnCharges(X, path, pieces) == Charges(X, Chosen(pieces, FilesOwn(X, path)))

\* Of batches that are charged as much as a file has, that file is whole but
\* for what its headers omit.
WholeBut(sent, f) ==
  /\ sent \in Seq(PlacedLine)
  /\ Weigh(Parsed(f)) <= Weigh(sent) + Omitted(f)
  /\ Omitted(f) = 0 => sent = Parsed(f)

LEMMA WholeIfCharged ==
  ASSUME NEW X, NEW U, FilesIn(X, U), NEW limit \in Nat, NEW list \in Seq(U), NEW i \in DOMAIN list,
         OnlyAt(list, i, list[i].path), NEW n \in 0..Len(PlanOf(list, limit)),
         DiffBytes(list[i]) <= OwnCharges(X, list[i].path, FlattenSeq(SubSeq(PlanOf(list, limit), 1, n)))
  PROVE  WholeBut(SentLines(list[i].path, SubSeq(PlanOf(list, limit), 1, n)), list[i])
<1> DEFINE V == SentPiece(X, U, limit)
           all == PlanOf(list, limit)
           some == SubSeq(all, 1, n)
           S == SentOf(list, limit)
           path == list[i].path
           O == FilesOwn(X, path)
           f == list[i]
           bytes == DiffBytes(f)
           want == WantOf(f, limit)
           o == Omitted(f)
           c == Charges(X, Chosen(S, O))
<1>1. S = Chosen(AllPieces(list, limit), Reviewable(X)) /\ S \in Seq(V) /\ FlattenSeq(all) = S
  BY PlanIs
<1>2. c + Weigh(Parsed(f)) <= bytes + o + Weigh(want)
  BY <1>1, FileCharges
<1>3. SentSo(X, V, all, some, path, want)
  BY PlanSends
<1>4. IsFile(f)
  BY LenProperties, ElementOfSeq DEF FilesIn
<1>5. /\ bytes \in Nat /\ o \in Nat
      /\ Weigh(want) \in Nat /\ Weigh(Parsed(f)) \in Nat /\ Weigh(want) <= Weigh(Parsed(f))
      /\ Weigh(want) = Weigh(Parsed(f)) => want = Parsed(f)
  BY <1>4, FileIs, WantIs
<1>6. V \subseteq AnyPiece(X) /\ V \subseteq GoodPiece(X, U, limit)
  BY SentTypes DEF SentPiece
<1>7. bytes <= Charges(X, Chosen(FlattenSeq(some), O))
  BY DEF OwnCharges
<1> HIDE DEF V, all, some, S, O, f, bytes, want, o, c
<1>8. some \in Seq(Seq(AnyPiece(X)))
  BY <1>3 DEF SentSo
<1>9. PICK rest \in Seq(V) :
        FlattenSeq(all) = FlattenSeq(some) \o rest /\ want = SentLines(path, some) \o Lines(X, Chosen(rest, O))
  BY <1>3 DEF SentSo, O
<1> DEFINE a == Chosen(FlattenSeq(some), O)
           b == Chosen(rest, O)
<1>10. FlattenSeq(some) \in Seq(AnyPiece(X)) /\ rest \in Seq(AnyPiece(X)) /\ rest \in Seq(GoodPiece(X, U, limit))
  BY <1>6, <1>8, FlattenType, SeqMonotonic
<1>11. a \in Seq(AnyPiece(X)) /\ b \in Seq(AnyPiece(X)) /\ b \in Seq(GoodPiece(X, U, limit))
  <2> DEFINE Y == GoodPiece(X, U, limit)
  <2>1. a \in Seq(AnyPiece(X) \cap O) /\ b \in Seq(AnyPiece(X) \cap O) /\ AnyPiece(X) \cap O \subseteq AnyPiece(X)
    BY <1>10, ChosenType
  <2> HIDE DEF Y
  <2>2. rest \in Seq(Y)
    BY <1>10 DEF Y
  <2>3. b \in Seq(Y \cap O) /\ Y \cap O \subseteq Y
    BY <2>2, ChosenType
  <2> HIDE DEF a, b
  <2>4. b \in Seq(Y)
    BY <2>3, SeqMonotonic
  <2> QED BY <2>1, <2>4, SeqMonotonic DEF Y
<1>12. Chosen(S, O) = a \o b
  BY <1>1, <1>9, <1>10, ChosenConcat
<1>13. SentLines(path, some) = Lines(X, a)
  BY <1>8, SentLinesIs DEF O
<1>14. bytes <= Charges(X, a)
  BY <1>7
<1> HIDE DEF a, b
<1>15. /\ c = Charges(X, a) + Charges(X, b) /\ Charges(X, a) \in Nat /\ Charges(X, b) \in Nat
       /\ Lines(X, a) \in Seq(PlacedLine) /\ Lines(X, b) \in Seq(PlacedLine)
  BY <1>11, <1>12, LinesConcat DEF c
<1>16. Weigh(Lines(X, b)) <= Charges(X, b)
  BY <1>11, ChargedOnce
<1>17. want = Lines(X, a) \o Lines(X, b)
  BY <1>9, <1>13 DEF b
<1>18. Weigh(want) = Weigh(Lines(X, a)) + Weigh(Lines(X, b)) /\ Weigh(Lines(X, a)) \in Nat /\ Weigh(Lines(X, b)) \in Nat
  <2> DEFINE s == Lines(X, a)
             t == Lines(X, b)
  <2>1. s \in Seq(PlacedLine) /\ t \in Seq(PlacedLine) /\ want = s \o t
    BY <1>15, <1>17
  <2> HIDE DEF s, t
  <2> QED BY <2>1, WeighConcat DEF s, t
\* c = charged(a) + charged(b) with bytes <= charged(a) and Weigh(b) <= charged(b).
<1>19. Weigh(Parsed(f)) <= Weigh(Lines(X, a)) + o
  <2> DEFINE p == Weigh(Parsed(f))
             v == Weigh(want)
             x == Weigh(Lines(X, a))
             y == Weigh(Lines(X, b))
             k == Charges(X, a)
             l == Charges(X, b)
  <2>1. /\ p \in Nat /\ v \in Nat /\ x \in Nat /\ y \in Nat /\ k \in Nat /\ l \in Nat /\ bytes \in Nat /\ o \in Nat
        /\ c = k + l /\ c + p <= bytes + o + v /\ v = x + y /\ y <= l /\ bytes <= k
    BY <1>2, <1>5, <1>14, <1>15, <1>16, <1>18
  <2> HIDE DEF p, v, x, y, k, l
  <2>2. k + l + p <= k + o + (x + l)
    BY <2>1, SMTT(30)
  <2>3. p <= x + o
    BY <2>1, <2>2, SMTT(30)
  <2> QED BY <2>3 DEF p, x
<1>20. ASSUME o = 0 PROVE Lines(X, a) = Parsed(f)
  <2>1. Weigh(want) = Weigh(Parsed(f)) /\ Weigh(Lines(X, b)) = 0
    BY <1>5, <1>18, <1>19, <1>20, SMTT(30)
  <2>2. want = Parsed(f)
    BY <1>5, <2>1
  <2>3. Lines(X, b) = <<>>
    BY <1>15, <2>1, WeighNothing
  <2> QED BY <1>15, <1>17, <2>2, <2>3, ConcatEmptySeq
<1>21. WholeBut(SentLines(path, some), f)
  BY <1>13, <1>15, <1>19, <1>20 DEF WholeBut, o
<1> QED BY <1>21 DEF some, all, f, path

-----------------------------------------------------------------------------
(* How files are counted.                                                  *)

LEMMA CountedApart ==
  ASSUME NEW U, NEW A, NEW B, A \cap B = {}
  PROVE  \A s \in Seq(U) : /\ Len(Chosen(s, A)) \in Nat /\ Len(Chosen(s, B)) \in Nat
                           /\ Len(Chosen(s, A \cup B)) = Len(Chosen(s, A)) + Len(Chosen(s, B))
<1> DEFINE C == A \cup B
           N(s, S) == Len(Chosen(s, S))
           G == {s \in Seq(U) : N(s, A) \in Nat /\ N(s, B) \in Nat /\ N(s, C) = N(s, A) + N(s, B)}
<1>1. <<>> \in G
  <2>1. \A S : N(<<>>, S) = 0
    BY ChosenEmpty
  <2> HIDE DEF N, C
  <2> QED BY <2>1, EmptySeq
<1>2. ASSUME NEW s \in Seq(U), NEW x \in U, s \in G PROVE Append(s, x) \in G
  <2>1. \A S : N(Append(s, x), S) = IF x \in S THEN N(s, S) + 1 ELSE N(s, S)
    <3> TAKE S
    <3>1. Chosen(Append(s, x), S) = IF x \in S THEN Append(Chosen(s, S), x) ELSE Chosen(s, S)
      BY ChosenAppend
    <3>2. Chosen(s, S) \in Seq(U \cap S)
      BY ChosenType
    <3>3. x \in S => Len(Append(Chosen(s, S), x)) = Len(Chosen(s, S)) + 1
      <4>1. x \in S => x \in U \cap S
        OBVIOUS
      <4> QED BY <3>2, <4>1, AppendProperties
    <3> QED BY <3>1, <3>3
  <2>2. x \in C <=> x \in A \/ x \in B
    OBVIOUS
  <2>3. ~(x \in A /\ x \in B)
    OBVIOUS
  <2>4. N(s, A) \in Nat /\ N(s, B) \in Nat /\ N(s, C) = N(s, A) + N(s, B)
    BY <1>2
  <2>5. Append(s, x) \in Seq(U)
    BY AppendProperties
  <2> HIDE DEF N, C
  <2> QED BY <2>1, <2>2, <2>3, <2>4, <2>5
<1> HIDE DEF G
<1>3. Seq(U) \subseteq G
  BY <1>1, <1>2, SeqInduction
<1> QED BY <1>3 DEF G

LEMMA OneMoreElement ==
  ASSUME NEW U, NEW s \in Seq(U), NEW x \in U
  PROVE  Elements(Append(s, x)) = Elements(s) \cup {x}
<1> DEFINE r == Append(s, x)
           n == Len(s)
<1>1. n \in Nat /\ DOMAIN s = 1..n /\ DOMAIN r = 1..(n + 1) /\ r[n + 1] = x /\ \A i \in 1..n : r[i] = s[i]
  BY LenProperties, AppendProperties
<1> HIDE DEF r, n
<1>2. \A i \in 1..(n + 1) : i \in 1..n \/ i = n + 1
  BY <1>1
<1>3. \A i \in 1..n : i \in 1..(n + 1)
  BY <1>1
<1>4. n + 1 \in 1..(n + 1)
  BY <1>1
<1> QED BY <1>1, <1>2, <1>3, <1>4 DEF Elements, r

LEMMA ChosenElements ==
  ASSUME NEW U, NEW S
  PROVE  \A s \in Seq(U) : Elements(Chosen(s, S)) = Elements(s) \cap S
<1> DEFINE G == {s \in Seq(U) : Elements(Chosen(s, S)) = Elements(s) \cap S}
<1>1. <<>> \in G
  <2>1. Elements(<<>>) = {}
    BY DEF Elements
  <2> QED BY <2>1, EmptySeq, ChosenEmpty
<1>2. ASSUME NEW s \in Seq(U), NEW x \in U, s \in G PROVE Append(s, x) \in G
  <2>1. Chosen(Append(s, x), S) = IF x \in S THEN Append(Chosen(s, S), x) ELSE Chosen(s, S)
    BY ChosenAppend
  <2>2. Chosen(s, S) \in Seq(U \cap S)
    BY ChosenType
  <2>3. Elements(Append(s, x)) = Elements(s) \cup {x}
    BY OneMoreElement
  <2>4. x \in S => Elements(Append(Chosen(s, S), x)) = Elements(Chosen(s, S)) \cup {x}
    <3>1. x \in S => x \in U \cap S
      OBVIOUS
    <3> QED BY <2>2, <3>1, OneMoreElement
  <2>5. Elements(Chosen(s, S)) = Elements(s) \cap S
    BY <1>2
  <2>6. Elements(Chosen(Append(s, x), S)) = Elements(Append(s, x)) \cap S
    BY <2>1, <2>3, <2>4, <2>5
  <2> QED BY <2>6, AppendProperties
<1> HIDE DEF G
<1>3. Seq(U) \subseteq G
  BY <1>1, <1>2, SeqInduction
<1> QED BY <1>3 DEF G

WithStatus(E, status) == {e \in E : e.status = status}

LEMMA StatusIs ==
  ASSUME NEW E, NEW status
  PROVE  \A s \in Seq(E) : Only(s, LAMBDA e : e.status = status) = Chosen(s, WithStatus(E, status))
<1> SUFFICES ASSUME NEW s \in Seq(E)
             PROVE  Only(s, LAMBDA e : e.status = status) = Chosen(s, WithStatus(E, status))
  OBVIOUS
<1> DEFINE F(it) == [t \in SUBSET DOMAIN s |->
                       IF t = {} THEN <<>>
                       ELSE IF s[Max(t)].status = status
                            THEN Append(it[t \ {Max(t)}], s[Max(t)]) ELSE it[t \ {Max(t)}]]
<1>1. Only(s, LAMBDA e : e.status = status) = (CHOOSE it : it = F(it))[DOMAIN s]
  BY DEF Only, FoldLeft, MapThenFoldSet, Max
<1>2. \A x \in E : x.status = status <=> x \in WithStatus(E, status)
  BY DEF WithStatus
<1>3. \A it : F(it) = Keeping(WithStatus(E, status), s, it)
  BY <1>2, LastElement DEF Keeping, KeepStep
<1> HIDE DEF F
<1>4. (CHOOSE it : it = F(it)) = (CHOOSE it : it = Keeping(WithStatus(E, status), s, it))
  BY <1>3, Zenon
<1> QED BY <1>1, <1>4, ChosenIs

LEMMA OthersAre ==
  ASSUME NEW E
  PROVE  \A s \in Seq(E) : Only(s, LAMBDA e : e.status /= "full") = Chosen(s, E \ WithStatus(E, "full"))
<1> SUFFICES ASSUME NEW s \in Seq(E)
             PROVE  Only(s, LAMBDA e : e.status /= "full") = Chosen(s, E \ WithStatus(E, "full"))
  OBVIOUS
<1> DEFINE F(it) == [t \in SUBSET DOMAIN s |->
                       IF t = {} THEN <<>>
                       ELSE IF s[Max(t)].status /= "full"
                            THEN Append(it[t \ {Max(t)}], s[Max(t)]) ELSE it[t \ {Max(t)}]]
<1>1. Only(s, LAMBDA e : e.status /= "full") = (CHOOSE it : it = F(it))[DOMAIN s]
  BY DEF Only, FoldLeft, MapThenFoldSet, Max
<1>2. \A x \in E : x.status /= "full" <=> x \in E \ WithStatus(E, "full")
  BY DEF WithStatus
<1>3. \A it : F(it) = Keeping(E \ WithStatus(E, "full"), s, it)
  BY <1>2, LastElement DEF Keeping, KeepStep
<1> HIDE DEF F
<1>4. (CHOOSE it : it = F(it)) = (CHOOSE it : it = Keeping(E \ WithStatus(E, "full"), s, it))
  BY <1>3, Zenon
<1> QED BY <1>1, <1>4, ChosenIs

Statuses == {"full", "partial", "unreviewed"}

NumberWith(E, s, status) == Len(Chosen(s, WithStatus(E, status)))
Short(E, s) == Chosen(s, E \ WithStatus(E, "full"))

\* Entries that have a status are counted once.
LEMMA EntriesCounted ==
  ASSUME NEW E, \A e \in E : e.status \in Statuses, NEW s \in Seq(E)
  PROVE  /\ NumberWith(E, s, "full") \in Nat /\ NumberWith(E, s, "partial") \in Nat /\ NumberWith(E, s, "unreviewed") \in Nat
         /\ NumberWith(E, s, "full") + NumberWith(E, s, "partial") + NumberWith(E, s, "unreviewed") = Len(s)
         /\ NumberWith(E, s, "partial") + NumberWith(E, s, "unreviewed") = Len(Short(E, s))
         /\ Short(E, s) \in Seq(E) /\ Elements(Short(E, s)) = {e \in Elements(s) : e.status # "full"}
<1> DEFINE F == WithStatus(E, "full")
           P == WithStatus(E, "partial")
           M == WithStatus(E, "unreviewed")
           O == E \ F
<1>1. P \cap M = {} /\ P \cup M = O /\ F \cap O = {} /\ F \cup O = E
  BY DEF WithStatus, Statuses
<1>2. Elements(s) \subseteq E
  BY LenProperties, ElementOfSeq DEF Elements
<1>3. \A e \in E : e \in O <=> e.status # "full"
  BY DEF WithStatus
<1> HIDE DEF F, P, M, O
<1>4. Len(Chosen(s, P)) \in Nat /\ Len(Chosen(s, M)) \in Nat /\ Len(Chosen(s, O)) = Len(Chosen(s, P)) + Len(Chosen(s, M))
  BY <1>1, CountedApart
<1>5. Len(Chosen(s, F)) \in Nat /\ Len(Chosen(s, E)) = Len(Chosen(s, F)) + Len(Chosen(s, O))
  BY <1>1, CountedApart
<1>6. Chosen(s, E) = s
  BY ChosenAll
<1>7. Chosen(s, O) \in Seq(E)
  <2>1. Chosen(s, O) \in Seq(E \cap O) /\ E \cap O \subseteq E
    BY ChosenType
  <2> QED BY <2>1, SeqMonotonic
<1>8. Elements(Chosen(s, O)) = {e \in Elements(s) : e.status # "full"}
  <2>1. Elements(Chosen(s, O)) = Elements(s) \cap O
    BY ChosenElements
  <2> QED BY <1>2, <1>3, <2>1
<1>9. /\ NumberWith(E, s, "full") = Len(Chosen(s, F)) /\ NumberWith(E, s, "partial") = Len(Chosen(s, P))
      /\ NumberWith(E, s, "unreviewed") = Len(Chosen(s, M)) /\ Short(E, s) = Chosen(s, O)
  BY DEF NumberWith, Short, F, P, M, O
<1>10. Len(Chosen(s, F)) + Len(Chosen(s, P)) + Len(Chosen(s, M)) = Len(s)
  BY <1>4, <1>5, <1>6
<1> QED BY <1>4, <1>5, <1>7, <1>8, <1>9, <1>10

LEMMA CoveredIs ==
  ASSUME NEW X, NEW f, IsFile(f), NEW P \in Seq(AnyPiece(X))
  PROVE  /\ OwnCharges(X, f.path, P) \in Nat /\ DiffBytes(f) \in Nat
         /\ Covered(f, P) = IF OwnCharges(X, f.path, P) < DiffBytes(f) THEN OwnCharges(X, f.path, P) ELSE DiffBytes(f)
         /\ Of(f.path, P) = <<>> => OwnCharges(X, f.path, P) = 0
<1> DEFINE own == Of(f.path, P)
           c == OwnCharges(X, f.path, P)
           d == DiffBytes(f)
<1>1. own = Chosen(P, FilesOwn(X, f.path))
  BY OfIs
<1>2. own \in Seq(AnyPiece(X))
  <2>1. own \in Seq(AnyPiece(X) \cap FilesOwn(X, f.path)) /\ AnyPiece(X) \cap FilesOwn(X, f.path) \subseteq AnyPiece(X)
    BY <1>1, ChosenType
  <2> HIDE DEF own
  <2> QED BY <2>1, SeqMonotonic
<1>3. c = Charges(X, own)
  BY <1>1 DEF OwnCharges
<1>4. d \in Nat
  BY FileIs
<1>5. Covered(f, P) = Min({SumFunction([i \in DOMAIN own |-> own[i].charged]), d})
  BY DEF Covered
<1> HIDE DEF own, c, d
<1>6. \A i \in DOMAIN own : own[i] \in AnyPiece(X)
  BY <1>2, LenProperties, ElementOfSeq
<1>7. [i \in DOMAIN own |-> own[i].charged] = [i \in DOMAIN own |-> ChargeOf(X)[own[i]]]
  BY <1>6 DEF ChargeOf
<1>8. Charges(X, own) = SumFunction([i \in DOMAIN own |-> own[i].charged])
  BY <1>7 DEF Charges, Total, Map
<1>9. c \in Nat
  BY <1>2, <1>3, NoPieces, LinesConcat
<1>10. Covered(f, P) = Min({c, d})
  BY <1>3, <1>5, <1>8
<1>11. Min({c, d}) = IF c < d THEN c ELSE d
  BY <1>4, <1>9 DEF Min
<1>12. own = <<>> => c = 0
  BY <1>3, NoPieces
<1> QED BY <1>4, <1>9, <1>10, <1>11, <1>12 DEF own, c, d

WholeIn(f, pieces) == Covered(f, pieces) # 0 /\ ~(Covered(f, pieces) < DiffBytes(f))

EntryKeys == {"path", "total", "reviewed", "status", "reason"}
IsEntry(e) == DOMAIN e = EntryKeys /\ e = [k \in EntryKeys |-> e[k]]

\* What a list of files of which something is missing says: which they are,
\* and of which there is something.
Tells(list, pieces, inc) ==
  /\ \A i \in DOMAIN list : WholeIn(list[i], pieces) \/ \E j \in DOMAIN inc : inc[j].path = list[i].path
  /\ \A j \in DOMAIN inc :
       /\ IsEntry(inc[j])
       /\ inc[j].status = "partial" => \E i \in DOMAIN list : inc[j].path = list[i].path /\ Covered(list[i], pieces) # 0

\* Files are counted once, and those of which something is missing are listed.
Adds(full, partial, unreviewed, total, listed) ==
  /\ full \in Nat /\ partial \in Nat /\ unreviewed \in Nat /\ total \in Nat
  /\ full + partial + unreviewed = total
  /\ partial + unreviewed = listed

LEMMA EntryIs ==
  ASSUME NEW f, NEW pieces
  PROVE  /\ IsEntry(Entry(f, pieces)) /\ Entry(f, pieces).path = f.path
         /\ Entry(f, pieces).status \in Statuses
         /\ Entry(f, pieces).status = "full" => WholeIn(f, pieces)
         /\ Entry(f, pieces).status = "partial" => Covered(f, pieces) # 0
<1> DEFINE e == Entry(f, pieces)
<1>1. \E t, r, w : e = [path |-> f.path, total |-> t, reviewed |-> r,
                        status |-> IF Covered(f, pieces) = 0 THEN "unreviewed"
                                   ELSE IF Covered(f, pieces) < DiffBytes(f) THEN "partial" ELSE "full",
                        reason |-> w]
  BY DEF Entry
<1> HIDE DEF e
<1>2. DOMAIN e = EntryKeys /\ e.path = f.path
  BY <1>1 DEF EntryKeys
<1>3. e = [k \in EntryKeys |-> e[k]]
  BY <1>1 DEF EntryKeys
<1>4. e.status = IF Covered(f, pieces) = 0 THEN "unreviewed"
                 ELSE IF Covered(f, pieces) < DiffBytes(f) THEN "partial" ELSE "full"
  BY <1>1
<1> QED BY <1>2, <1>3, <1>4 DEF IsEntry, Statuses, WholeIn, e

SummedUp(list, pieces, s) ==
  /\ IsSeq(s.incomplete) /\ Tells(list, pieces, s.incomplete)
  /\ Adds(s.full, s.partial, s.unreviewed, Len(list), Len(s.incomplete))

LEMMA SummaryIs ==
  ASSUME NEW list, IsSeq(list), NEW pieces
  PROVE  SummedUp(list, pieces, Summary(list, pieces))
<1> DEFINE entries == [i \in DOMAIN list |-> Entry(list[i], pieces)]
           E == Elements(entries)
           s == Summary(list, pieces)
<1>1. Len(list) \in Nat /\ DOMAIN list = 1..Len(list)
  BY Domain
<1>2. DOMAIN entries = 1..Len(list) /\ \A i \in DOMAIN list : entries[i] = Entry(list[i], pieces)
  BY <1>1
<1>3. s.full = Len(Only(entries, LAMBDA e : e.status = "full"))
      /\ s.partial = Len(Only(entries, LAMBDA e : e.status = "partial"))
      /\ s.unreviewed = Len(Only(entries, LAMBDA e : e.status = "unreviewed"))
      /\ s.incomplete = Only(entries, LAMBDA e : e.status /= "full")
  BY DEF Summary
<1>4. entries \in Seq(E) /\ Len(entries) = Len(list)
  <2>1. entries \in [1..Len(list) -> E]
    BY <1>1 DEF Elements
  <2> HIDE DEF entries, E
  <2>2. entries \in Seq(E)
    BY <1>1, <2>1, SeqDef
  <2> QED BY <1>1, <1>2, <2>2, LenProperties
<1> HIDE DEF entries, s
<1>5. \A e \in E : \E i \in DOMAIN list : e = Entry(list[i], pieces)
  BY <1>1, <1>2 DEF Elements
<1>6. \A e \in E : e.status \in Statuses
  BY <1>5, EntryIs
<1> HIDE DEF E
<1>7. s.full = NumberWith(E, entries, "full") /\ s.partial = NumberWith(E, entries, "partial")
      /\ s.unreviewed = NumberWith(E, entries, "unreviewed")
  BY <1>3, <1>4, StatusIs DEF NumberWith
<1>8. s.incomplete = Short(E, entries)
  BY <1>3, <1>4, OthersAre DEF Short
<1>9. /\ NumberWith(E, entries, "full") \in Nat /\ NumberWith(E, entries, "partial") \in Nat
      /\ NumberWith(E, entries, "unreviewed") \in Nat
      /\ NumberWith(E, entries, "full") + NumberWith(E, entries, "partial") + NumberWith(E, entries, "unreviewed") = Len(entries)
      /\ NumberWith(E, entries, "partial") + NumberWith(E, entries, "unreviewed") = Len(Short(E, entries))
      /\ Short(E, entries) \in Seq(E) /\ Elements(Short(E, entries)) = {e \in Elements(entries) : e.status # "full"}
  BY <1>4, <1>6, EntriesCounted
<1>10. Adds(s.full, s.partial, s.unreviewed, Len(list), Len(s.incomplete))
  BY <1>1, <1>4, <1>7, <1>8, <1>9 DEF Adds
<1>11. ASSUME NEW i \in DOMAIN list
       PROVE  WholeIn(list[i], pieces) \/ \E j \in DOMAIN s.incomplete : s.incomplete[j].path = list[i].path
  <2>1. entries[i] = Entry(list[i], pieces) /\ entries[i] \in Elements(entries)
    BY <1>1, <1>2 DEF Elements
  <2>2. CASE entries[i].status = "full"
    BY <2>1, <2>2, EntryIs
  <2>3. CASE entries[i].status # "full"
    <3>1. entries[i] \in Elements(s.incomplete)
      BY <1>8, <1>9, <2>1, <2>3
    <3> QED BY <2>1, <3>1, EntryIs DEF Elements
  <2> QED BY <2>2, <2>3
<1>12. ASSUME NEW j \in DOMAIN s.incomplete
       PROVE  /\ IsEntry(s.incomplete[j])
              /\ s.incomplete[j].status = "partial" =>
                   \E i \in DOMAIN list : s.incomplete[j].path = list[i].path /\ Covered(list[i], pieces) # 0
  <2>1. s.incomplete[j] \in E
    BY <1>8, <1>9, LenProperties, ElementOfSeq
  <2>2. PICK i \in DOMAIN list : s.incomplete[j] = Entry(list[i], pieces)
    BY <1>5, <2>1
  <2> QED BY <2>2, EntryIs
<1>13. Tells(list, pieces, s.incomplete)
  BY <1>11, <1>12 DEF Tells
<1>14. IsSeq(s.incomplete)
  BY <1>8, <1>9, Own
<1> QED BY <1>10, <1>13, <1>14 DEF SummedUp, s

\* Two entries that differ in their reasons at most.
Alike(e, d) == IsEntry(e) /\ IsEntry(d) /\ e.path = d.path /\ e.status = d.status

LEMMA OtherReason ==
  ASSUME NEW e, IsEntry(e), NEW reason
  PROVE  Alike([e EXCEPT !.reason = reason], e) /\ Alike(e, e)
<1> DEFINE d == [e EXCEPT !.reason = reason]
<1>1. DOMAIN d = EntryKeys /\ d.path = e.path /\ d.status = e.status
  BY DEF IsEntry, EntryKeys
<1>2. d = [k \in EntryKeys |-> d[k]]
  BY DEF IsEntry
<1> QED BY <1>1, <1>2 DEF IsEntry, Alike

LEMMA TellsAlike ==
  ASSUME NEW list, NEW pieces, NEW inc, Tells(list, pieces, inc), NEW other, DOMAIN other = DOMAIN inc,
         \A j \in DOMAIN inc : Alike(other[j], inc[j])
  PROVE  Tells(list, pieces, other)
<1>1. ASSUME NEW i \in DOMAIN list
      PROVE  WholeIn(list[i], pieces) \/ \E j \in DOMAIN other : other[j].path = list[i].path
  BY DEF Tells, Alike
<1>2. ASSUME NEW j \in DOMAIN other
      PROVE  /\ IsEntry(other[j])
             /\ other[j].status = "partial" =>
                  \E i \in DOMAIN list : other[j].path = list[i].path /\ Covered(list[i], pieces) # 0
  BY DEF Tells, Alike
<1> QED BY <1>1, <1>2 DEF Tells

LEMMA TellsCovered ==
  ASSUME NEW list, NEW P, NEW Q, NEW inc, Tells(list, P, inc), \A i \in DOMAIN list : Covered(list[i], Q) = Covered(list[i], P)
  PROVE  Tells(list, Q, inc)
<1>1. \A i \in DOMAIN list : WholeIn(list[i], P) => WholeIn(list[i], Q)
  BY DEF WholeIn
<1> QED BY <1>1 DEF Tells

-----------------------------------------------------------------------------
(* What GitLab did not show is added.                                      *)

MarkStep(c, told, flag) == Mark(told, flag)
Marking == INSTANCE FoldFacts WITH Op <- MarkStep

\* What was told before stays, but for its reasons; the rest is unreviewed.
AddsTo(inc, told) ==
  /\ told.more \in Nat /\ IsSeq(told.list)
  /\ Len(told.list) = Len(inc) + told.more
  /\ \A j \in DOMAIN inc : Alike(told.list[j], inc[j])
  /\ \A j \in DOMAIN told.list : IsEntry(told.list[j]) /\ (j \in DOMAIN inc \/ told.list[j].status = "unreviewed")

LEMMA MissingIs ==
  ASSUME NEW path, NEW reason
  PROVE  IsEntry(Missing(path, reason)) /\ Missing(path, reason).status = "unreviewed"
  BY DEF Missing, IsEntry, EntryKeys

LEMMA OneMoreMissing ==
  ASSUME NEW inc, IsSeq(inc), NEW told, AddsTo(inc, told), NEW e, IsEntry(e), e.status = "unreviewed"
  PROVE  AddsTo(inc, [list |-> Append(told.list, e), more |-> told.more + 1])
<1> DEFINE s == told.list
           r == Append(s, e)
           m == Len(s)
           n == Len(inc)
           k == told.more
<1>1. m \in Nat /\ DOMAIN s = 1..m /\ n \in Nat /\ DOMAIN inc = 1..n /\ k \in Nat /\ m = n + k
  BY Domain DEF AddsTo
<1>2. s \in Seq(Range(s) \cup {e})
  <2>1. s \in Seq(Range(s)) /\ Range(s) \subseteq Range(s) \cup {e}
    BY DEF AddsTo, IsSeq
  <2> QED BY <2>1, SeqMonotonic
<1>3. r \in Seq(Range(s) \cup {e}) /\ Len(r) = m + 1 /\ DOMAIN r = 1..(m + 1) /\ r[m + 1] = e /\ \A i \in 1..m : r[i] = s[i]
  BY <1>1, <1>2, AppendProperties, LenProperties
<1>4. IsSeq(r)
  BY <1>3, Own
<1>5. /\ \A j \in 1..n : Alike(s[j], inc[j])
      /\ \A j \in 1..m : IsEntry(s[j]) /\ (j \in 1..n \/ s[j].status = "unreviewed")
  BY <1>1 DEF AddsTo
<1> HIDE DEF s, r, m, n, k
<1>6. \A j \in 1..n : j \in 1..m
  BY <1>1
<1>7. \A j \in 1..(m + 1) : j \in 1..m \/ j = m + 1
  BY <1>1
<1>8. \A j \in DOMAIN inc : Alike(r[j], inc[j])
  BY <1>1, <1>3, <1>5, <1>6
<1>9. \A j \in DOMAIN r : IsEntry(r[j]) /\ (j \in DOMAIN inc \/ r[j].status = "unreviewed")
  BY <1>1, <1>3, <1>5, <1>7
<1>10. k + 1 \in Nat /\ Len(r) = n + (k + 1)
  BY <1>1, <1>3
<1> DEFINE t == [list |-> r, more |-> k + 1]
<1>11. t.list = r /\ t.more = k + 1
  OBVIOUS
<1> HIDE DEF t
<1>12. AddsTo(inc, t)
  BY <1>4, <1>8, <1>9, <1>10, <1>11 DEF AddsTo, n
<1> QED BY <1>12 DEF t, r, s, k

\* One entry is given another reason.
LEMMA OneMoreReason ==
  ASSUME NEW inc, IsSeq(inc), NEW told, AddsTo(inc, told), NEW i, NEW reason, NEW more, more = told.more
  PROVE  AddsTo(inc, [list |-> [told.list EXCEPT ![i] = [told.list[i] EXCEPT !.reason = reason]], more |-> more])
<1> DEFINE s == told.list
           r == [s EXCEPT ![i] = [s[i] EXCEPT !.reason = reason]]
           m == Len(s)
<1>1. m \in Nat /\ DOMAIN s = 1..m /\ s \in Seq(Range(s)) /\ DOMAIN inc = 1..Len(inc) /\ Len(inc) \in Nat
  BY Domain DEF AddsTo, IsSeq
<1>2. /\ \A j \in DOMAIN inc : Alike(s[j], inc[j])
      /\ \A j \in DOMAIN s : IsEntry(s[j]) /\ (j \in DOMAIN inc \/ s[j].status = "unreviewed")
      /\ told.more \in Nat /\ m = Len(inc) + told.more
  BY DEF AddsTo
<1> HIDE DEF s
<1>3. DOMAIN r = DOMAIN s /\ \A j \in DOMAIN s : r[j] = s[j] \/ r[j] = [s[j] EXCEPT !.reason = reason]
  <2>1. DOMAIN r = DOMAIN s /\ \A j \in DOMAIN s : r[j] = IF j = i THEN [s[i] EXCEPT !.reason = reason] ELSE s[j]
    BY <1>1
  <2> QED BY <2>1
<1> HIDE DEF r
<1>4. \A j \in DOMAIN s : Alike(r[j], s[j])
  <2> TAKE j \in DOMAIN s
  <2>1. IsEntry(s[j])
    BY <1>2
  <2> DEFINE e == s[j]
  <2> HIDE DEF e
  <2>2. Alike([e EXCEPT !.reason = reason], e) /\ Alike(e, e)
    BY <2>1, OtherReason DEF e
  <2> QED BY <1>3, <2>2 DEF e
<1>5. \A j \in DOMAIN inc : j \in DOMAIN s
  BY <1>1, <1>2
<1>6. \A j \in DOMAIN inc : Alike(r[j], inc[j])
  BY <1>2, <1>4, <1>5 DEF Alike
<1>7. \A j \in DOMAIN r : IsEntry(r[j]) /\ (j \in DOMAIN inc \/ r[j].status = "unreviewed")
  BY <1>2, <1>3, <1>4 DEF Alike
<1>8. IsSeq(r) /\ Len(r) = m
  <2>1. r \in [1..m -> Range(r)]
    <3>1. r = [j \in DOMAIN r |-> r[j]]
      BY <1>1 DEF r
    <3> QED BY <1>1, <1>3, <3>1 DEF Range
  <2>2. r \in Seq(Range(r))
    BY <1>1, <2>1, SeqDef
  <2> QED BY <1>1, <1>3, <2>2, LenProperties DEF IsSeq
<1> DEFINE t == [list |-> r, more |-> more]
<1>9. t.list = r /\ t.more = told.more
  OBVIOUS
<1> HIDE DEF t
<1>10. AddsTo(inc, t)
  BY <1>2, <1>6, <1>7, <1>8, <1>9 DEF AddsTo
<1> QED BY <1>10 DEF t, r, s

IsTold(t) == \E l, m : t = [list |-> l, more |-> m]

LEMMA MarkAdds ==
  ASSUME NEW inc, IsSeq(inc), NEW told, AddsTo(inc, told), IsTold(told), NEW flag
  PROVE  AddsTo(inc, Mark(told, flag)) /\ IsTold(Mark(told, flag))
<1> DEFINE reason == IF flag.large THEN "gitlab_diff_too_large" ELSE "gitlab_diff_collapsed"
           own == {i \in DOMAIN told.list : told.list[i].path = flag.path}
<1>0. PICK list, more : told = [list |-> list, more |-> more]
  BY DEF IsTold
<1>1. CASE own # {}
  <2> DEFINE i == Min(own)
             t == [list |-> [told.list EXCEPT ![i] = [told.list[i] EXCEPT !.reason = reason]], more |-> more]
  <2>1. Mark(told, flag) = [told EXCEPT !.list[i].reason = reason]
    BY <1>1 DEF Mark
  <2> HIDE DEF i, reason
  <2>2. Mark(told, flag) = t
    BY <1>0, <2>1
  <2>3. AddsTo(inc, t)
    BY <1>0, OneMoreReason
  <2> QED BY <2>2, <2>3 DEF IsTold
<1>2. CASE own = {}
  <2> DEFINE t == [list |-> Append(told.list, Missing(flag.path, reason)), more |-> told.more + 1]
  <2>1. Mark(told, flag) = t
    BY <1>2 DEF Mark
  <2> HIDE DEF reason
  <2>2. AddsTo(inc, t)
    BY MissingIs, OneMoreMissing
  <2> QED BY <2>1, <2>2 DEF IsTold
<1> QED BY <1>1, <1>2

Unmarked(inc) == [list |-> inc, more |-> 0]

LEMMA NothingAdded ==
  ASSUME NEW inc, IsSeq(inc), \A j \in DOMAIN inc : IsEntry(inc[j])
  PROVE  AddsTo(inc, Unmarked(inc))
<1> DEFINE t == Unmarked(inc)
<1>1. t.list = inc /\ t.more = 0
  BY DEF Unmarked
<1>2. \A j \in DOMAIN inc : Alike(inc[j], inc[j])
  BY DEF Alike
<1>3. Len(inc) \in Nat
  BY Domain
<1> HIDE DEF t
<1>4. AddsTo(inc, t)
  BY <1>1, <1>2, <1>3 DEF AddsTo
<1> QED BY <1>4 DEF t

Marked(inc, hidden) == Marking!Result(0, Unmarked(inc), hidden)

LEMMA MarksAdd ==
  ASSUME NEW inc, IsSeq(inc), \A j \in DOMAIN inc : IsEntry(inc[j]), NEW F
  PROVE  \A h \in Seq(F) : AddsTo(inc, Marked(inc, h)) /\ IsTold(Marked(inc, h))
<1> DEFINE Good(t) == AddsTo(inc, t) /\ IsTold(t)
           G == {h \in Seq(F) : Good(Marked(inc, h))}
<1>1. <<>> \in G
  <2>1. Marking!Result(0, Unmarked(inc), <<>>) = Unmarked(inc)
    BY Marking!FoldEmpty
  <2>2. IsTold(Unmarked(inc))
    BY DEF Unmarked, IsTold
  <2> QED BY <2>1, <2>2, EmptySeq, NothingAdded DEF Marked
<1>2. ASSUME NEW h \in Seq(F), NEW x \in F, h \in G PROVE Append(h, x) \in G
  <2>1. Marking!Result(0, Unmarked(inc), Append(h, x)) = MarkStep(0, Marking!Result(0, Unmarked(inc), h), x)
    BY Marking!FoldAppend
  <2>2. Marked(inc, Append(h, x)) = Mark(Marked(inc, h), x)
    BY <2>1 DEF Marked, MarkStep
  <2>3. Good(Marked(inc, h))
    BY <1>2
  <2>5. Good(Mark(Marked(inc, h), x))
    BY <2>3, MarkAdds
  <2>6. Append(h, x) \in Seq(F)
    BY AppendProperties
  <2> HIDE DEF Good
  <2> QED BY <2>2, <2>5, <2>6
<1> HIDE DEF G
<1>3. Seq(F) \subseteq G
  BY <1>1, <1>2, SeqInduction
<1> QED BY <1>3 DEF G

HiddenOf(U) == {f \in U : f.collapsed \/ f.large}

LEMMA HiddenIs ==
  ASSUME NEW U
  PROVE  \A s \in Seq(U) : Only(s, LAMBDA f : f.collapsed \/ f.large) = Chosen(s, HiddenOf(U))
<1> SUFFICES ASSUME NEW s \in Seq(U)
             PROVE  Only(s, LAMBDA f : f.collapsed \/ f.large) = Chosen(s, HiddenOf(U))
  OBVIOUS
<1> DEFINE F(it) == [t \in SUBSET DOMAIN s |->
                       IF t = {} THEN <<>>
                       ELSE IF (s[Max(t)].collapsed \/ s[Max(t)].large)
                            THEN Append(it[t \ {Max(t)}], s[Max(t)]) ELSE it[t \ {Max(t)}]]
<1>1. Only(s, LAMBDA f : f.collapsed \/ f.large) = (CHOOSE it : it = F(it))[DOMAIN s]
  BY DEF Only, FoldLeft, MapThenFoldSet, Max
<1>2. \A x \in U : (x.collapsed \/ x.large) <=> x \in HiddenOf(U)
  BY DEF HiddenOf
<1>3. \A it : F(it) = Keeping(HiddenOf(U), s, it)
  BY <1>2, LastElement DEF Keeping, KeepStep
<1> HIDE DEF F
<1>4. (CHOOSE it : it = F(it)) = (CHOOSE it : it = Keeping(HiddenOf(U), s, it))
  BY <1>3, Zenon
<1> QED BY <1>1, <1>4, ChosenIs

\* What is told in the end, of a list: more of it, and the list itself where
\* nothing was hidden and nothing is missing.
Corrected(inc, list, more) ==
  /\ AddsTo(inc, [list |-> list, more |-> more])
  /\ ~overflow /\ Clear => list = inc /\ more = 0

Final(inc) ==
  LET marked == Marked(inc, Only(flags, LAMBDA f : f.collapsed \/ f.large))
  IN  IF overflow
      THEN [list |-> Append(marked.list, Missing("(merge request diff)", "gitlab_diff_overflow")),
            more |-> marked.more + 1]
      ELSE marked

LEMMA FinalAdds ==
  ASSUME IsSeq(flags), NEW inc, IsSeq(inc), \A j \in DOMAIN inc : IsEntry(inc[j])
  PROVE  Corrected(inc, Final(inc).list, Final(inc).more)
<1> DEFINE F == Elements(flags)
           hidden == Only(flags, LAMBDA f : f.collapsed \/ f.large)
           marked == Marked(inc, hidden)
           gone == Missing("(merge request diff)", "gitlab_diff_overflow")
           t == Final(inc)
<1>1. flags \in Seq(F)
  <2>1. Range(flags) = F
    BY DEF Range, Elements
  <2> QED BY <2>1 DEF IsSeq
<1>2. hidden = Chosen(flags, HiddenOf(F))
  BY <1>1, HiddenIs
<1>3. hidden \in Seq(F)
  <2>1. Chosen(flags, HiddenOf(F)) \in Seq(F \cap HiddenOf(F)) /\ F \cap HiddenOf(F) \subseteq F
    BY <1>1, ChosenType
  <2> HIDE DEF hidden
  <2> QED BY <1>2, <2>1, SeqMonotonic
<1>4. Clear => hidden = <<>>
  <2>1. Clear => \A f \in F : f \in HiddenOf(F) <=> f \in {}
    BY DEF Clear, HiddenOf, Elements
  <2>2. Clear => Chosen(flags, HiddenOf(F)) = Chosen(flags, {})
    BY <1>1, <2>1, ChosenSame
  <2>3. Chosen(flags, {}) = <<>>
    BY <1>1, ChosenAll
  <2> HIDE DEF hidden
  <2> QED BY <1>2, <2>2, <2>3
<1>5. t = IF overflow THEN [list |-> Append(marked.list, gone), more |-> marked.more + 1] ELSE marked
  BY DEF Final
<1> HIDE DEF hidden, t
<1>6. AddsTo(inc, marked) /\ IsTold(marked)
  BY <1>3, MarksAdd
<1>7. hidden = <<>> => marked = Unmarked(inc)
  BY Marking!FoldEmpty DEF Marked
<1>8. IsEntry(gone) /\ gone.status = "unreviewed"
  BY MissingIs
<1> HIDE DEF marked, gone
<1>9. AddsTo(inc, [list |-> Append(marked.list, gone), more |-> marked.more + 1])
  BY <1>6, <1>8, OneMoreMissing
<1>10. AddsTo(inc, t) /\ IsTold(t)
  BY <1>5, <1>6, <1>9 DEF IsTold
<1>11. t = [list |-> t.list, more |-> t.more]
  BY <1>10 DEF IsTold
<1>12. ~overflow /\ Clear => t.list = inc /\ t.more = 0
  <2>1. Unmarked(inc).list = inc /\ Unmarked(inc).more = 0
    BY DEF Unmarked
  <2> QED BY <1>4, <1>5, <1>7, <2>1
<1>13. AddsTo(inc, [list |-> t.list, more |-> t.more])
  BY <1>10, <1>11
<1> QED BY <1>12, <1>13 DEF Corrected, t

Unsent(list, limit) == Only(AllPieces(list, limit), LAMBDA p : ~p.reviewable)

LEMMA UnsentIs ==
  ASSUME NEW W
  PROVE  \A s \in Seq(W) : Only(s, LAMBDA p : ~p.reviewable) = Chosen(s, {p \in W : ~p.reviewable})
<1> SUFFICES ASSUME NEW s \in Seq(W)
             PROVE  Only(s, LAMBDA p : ~p.reviewable) = Chosen(s, {p \in W : ~p.reviewable})
  OBVIOUS
<1> DEFINE F(it) == [t \in SUBSET DOMAIN s |->
                       IF t = {} THEN <<>>
                       ELSE IF ~s[Max(t)].reviewable
                            THEN Append(it[t \ {Max(t)}], s[Max(t)]) ELSE it[t \ {Max(t)}]]
<1>1. Only(s, LAMBDA p : ~p.reviewable) = (CHOOSE it : it = F(it))[DOMAIN s]
  BY DEF Only, FoldLeft, MapThenFoldSet, Max
<1>2. \A x \in W : ~x.reviewable <=> x \in {p \in W : ~p.reviewable}
  OBVIOUS
<1>3. \A it : F(it) = Keeping({p \in W : ~p.reviewable}, s, it)
  BY <1>2, LastElement DEF Keeping, KeepStep
<1> HIDE DEF F
<1>4. (CHOOSE it : it = F(it)) = (CHOOSE it : it = Keeping({p \in W : ~p.reviewable}, s, it))
  BY <1>3, Zenon
<1> QED BY <1>1, <1>4, ChosenIs

LEMMA NoCharge ==
  ASSUME NEW X, NEW W, W \subseteq AnyPiece(X), \A p \in W : p.charged = 0
  PROVE  \A P \in Seq(W) : Charges(X, P) = 0
<1> DEFINE G == {P \in Seq(W) : Charges(X, P) = 0}
<1>1. <<>> \in G
  BY EmptySeq, NoPieces
<1>2. ASSUME NEW P \in Seq(W), NEW p \in W, P \in G PROVE Append(P, p) \in G
  <2>1. P \in Seq(AnyPiece(X)) /\ p \in AnyPiece(X)
    BY SeqMonotonic
  <2>2. Charges(X, Append(P, p)) = Charges(X, P) + p.charged
    BY <2>1, OneMorePiece
  <2> QED BY <1>2, <2>2, AppendProperties
<1> HIDE DEF G
<1>3. Seq(W) \subseteq G
  BY <1>1, <1>2, SeqInduction
<1> QED BY <1>3 DEF G

\* Pieces that cannot be sent cover nothing.
LEMMA UnsentCoverNothing ==
  ASSUME NEW X, NEW U, FilesIn(X, U), NEW limit \in Nat, NEW list \in Seq(U), NEW S \in Seq(AnyPiece(X))
  PROVE  \A i \in DOMAIN list : Covered(list[i], S) = Covered(list[i], S \o Unsent(list, limit))
<1> TAKE i \in DOMAIN list
<1> DEFINE f == list[i]
           A == AllPieces(list, limit)
           V == GoodPiece(X, U, limit)
           W == {p \in V : ~p.reviewable}
           uns == Unsent(list, limit)
           O == FilesOwn(X, f.path)
<1>1. IsFile(f)
  BY LenProperties, ElementOfSeq DEF FilesIn
<1>2. A \in Seq(V)
  BY AllPiecesIs
<1>3. W \subseteq AnyPiece(X) /\ \A p \in W : p.charged = 0
  BY DEF GoodPiece
<1>4. uns = Chosen(A, W)
  BY <1>2, UnsentIs DEF Unsent
<1>5. W \subseteq V /\ V \cap W \subseteq W
  OBVIOUS
<1> HIDE DEF f, A, V, W, O, uns
<1>6. uns \in Seq(W)
  BY <1>2, <1>4, <1>5, ChosenType, SeqMonotonic
<1>7. uns \in Seq(AnyPiece(X))
  BY <1>3, <1>6, SeqMonotonic
<1> DEFINE a == Chosen(S, O)
           b == Chosen(uns, O)
<1>8. Chosen(S \o uns, O) = a \o b /\ S \o uns \in Seq(AnyPiece(X))
  BY <1>7, ChosenConcat, ConcatProperties
<1>9. a \in Seq(AnyPiece(X)) /\ b \in Seq(W) /\ b \in Seq(AnyPiece(X))
  <2>1. a \in Seq(AnyPiece(X) \cap O) /\ AnyPiece(X) \cap O \subseteq AnyPiece(X)
    BY ChosenType
  <2>2. b \in Seq(W \cap O) /\ W \cap O \subseteq W
    BY <1>6, ChosenType
  <2> HIDE DEF a, b
  <2>3. b \in Seq(W)
    BY <2>2, SeqMonotonic
  <2> QED BY <1>3, <2>1, <2>3, SeqMonotonic
<1> HIDE DEF a, b
<1>10. Charges(X, b) = 0
  BY <1>3, <1>9, NoCharge
<1>11. Charges(X, a \o b) = Charges(X, a) + Charges(X, b) /\ Charges(X, a) \in Nat
  BY <1>9, LinesConcat
<1>12. OwnCharges(X, f.path, S \o uns) = OwnCharges(X, f.path, S)
  BY <1>8, <1>10, <1>11 DEF OwnCharges, O, a
<1>13. Covered(f, S) = Covered(f, S \o uns)
  BY <1>1, <1>8, <1>12, CoveredIs
<1> QED BY <1>13 DEF f, uns

-----------------------------------------------------------------------------
(* The coverage, until it is told.                                         *)

\* The batches that are counted: all of them, until the review has ended.
Counting == IF at = "batch" THEN Len(batches) ELSE done
SentSoFar == FlattenSeq(SubSeq(batches, 1, Counting))

CountStands ==
  /\ IsSeq(incomplete)
  /\ Tells(files, SentSoFar, incomplete)
  /\ Adds(coverage.full, coverage.partial, coverage.unreviewed, coverage.total, Len(incomplete))
  /\ coverage.total = Len(files)
  /\ complete => at = "returned" /\ result = "ok" /\ coverage.partial = 0 /\ coverage.unreviewed = 0

CountInv ==
  /\ done <= Len(batches)
  /\ Unread \/ at = "context" => ~coverage.known
  /\ at \in {"batch", "returned"} /\ coverage.known => CountStands
  /\ CoverageHonest

LEMMA HonestStands ==
  ASSUME CoverageHonest, UNCHANGED <<files, running>>, Told' => Told
  PROVE  CoverageHonest'
  BY DEF CoverageHonest, Told, Planned, Once, running

LEMMA PlanCounts ==
  ASSUME IInv, PlanInv, Plan
  PROVE  CountInv'
<1> DEFINE limit == case.limit
           all == PlanOf(files, limit)
           planned == IF case.most = 0 THEN Len(all) ELSE Min({Len(all), case.most})
           some == SubSeq(all, 1, planned)
           S == FlattenSeq(some)
           uns == Unsent(files, limit)
           sum == Summary(files, S \o uns)
           X == PathsIn(files)
           U == Elements(files)
           V == SentPiece(X, U, limit)
           W == FitBatches(X, U, limit)
<1>1. /\ at' = "batch" /\ files' = files /\ done' = 0 /\ complete' = FALSE
      /\ batches' = some /\ coverage' = Counts(sum, Len(all), planned) /\ incomplete' = sum.incomplete
  BY DEF Plan, PlanOf, SentOf, Unsent, reading
<1>2. limit \in Nat /\ case.most \in Nat /\ IsSeq(files) /\ AllFiles(files)
  BY CasesAssumption DEF IInv, TypeOK, SequencesOK, PlanInv
<1>3. files \in Seq(U) /\ FilesIn(X, U)
  BY <1>2, FilesType
<1>4. V \subseteq AnyPiece(X) /\ W \subseteq Seq(V)
  BY SentTypes
<1> HIDE DEF limit, all, some, S, uns, sum, X, U, V, W
<1>5. all \in Seq(W)
  BY <1>2, <1>3, PlanIs DEF all, W
<1>6. Len(all) \in Nat
  BY <1>5, LenProperties
<1>7. planned \in 0..Len(all)
  <2>1. case.most # 0 => planned = IF Len(all) <= case.most THEN Len(all) ELSE case.most
    <3>1. Len(all) \in Int /\ case.most \in Int
      BY <1>2, <1>6
    <3> QED BY <3>1, Smaller
  <2> QED BY <1>2, <1>6, <2>1
<1> HIDE DEF planned
<1>8. some \in Seq(W) /\ Len(some) = planned /\ S \in Seq(V)
  BY <1>4, <1>5, <1>7, SomeBatches DEF some, S
<1>9. S \in Seq(AnyPiece(X))
  BY <1>4, <1>8, SeqMonotonic
<1>10. SubSeq(some, 1, Len(some)) = some
  BY <1>8, SubSeqFull
<1>11. \A i \in DOMAIN files : Covered(files[i], S) = Covered(files[i], S \o uns)
  BY <1>2, <1>3, <1>9, UnsentCoverNothing DEF uns
<1>12. SummedUp(files, S \o uns, sum)
  BY <1>2, SummaryIs DEF sum
<1> DEFINE Q == S \o uns
           inc == sum.incomplete
<1>13. Tells(files, S, inc)
  <2>1. Tells(files, Q, inc)
    BY <1>12 DEF SummedUp
  <2>2. \A i \in DOMAIN files : Covered(files[i], S) = Covered(files[i], Q)
    BY <1>11
  <2> HIDE DEF Q, inc
  <2> QED BY <2>1, <2>2, TellsCovered
<1>14. /\ coverage'.full = sum.full /\ coverage'.partial = sum.partial /\ coverage'.unreviewed = sum.unreviewed
       /\ coverage'.total = Len(files)
  BY <1>1 DEF Counts
<1>15. SentSoFar' = S
  BY <1>1, <1>10 DEF SentSoFar, Counting, S
<1>16. CountStands'
  BY <1>1, <1>12, <1>13, <1>14, <1>15 DEF CountStands, SummedUp
<1>17. done' <= Len(batches')
  BY <1>1, <1>7, <1>8
<1>18. ~Told' /\ ~Unread' /\ at' # "context"
  BY <1>1 DEF Told, Unread
<1> QED BY <1>16, <1>17, <1>18 DEF CountInv, CoverageHonest

LEMMA FailureCounts ==
  ASSUME IInv, PlanInv, CountInv, BatchFails
  PROVE  CountInv'
<1> DEFINE some == SubSeq(batches, 1, done)
           S == FlattenSeq(some)
           sum == Summary(files, S)
           failed == PathsOf(FlattenSeq(SubSeq(batches, done + 1, Len(batches))))
           inc == sum.incomplete
           told == [i \in DOMAIN inc |->
                      IF inc[i].path \in failed THEN [inc[i] EXCEPT !.reason = "batch_execution_failed"] ELSE inc[i]]
<1>1. /\ at = "batch" /\ at' = "returned" /\ UNCHANGED <<files, batches, done>>
      /\ incomplete' = told /\ complete' = FALSE
  BY DEF BatchFails, Failing, Recount, reading
<1>2. coverage' = Recounted(coverage, sum)
  BY DEF BatchFails, Recount, Recounted
<1>3. IsCoverage(coverage)
  BY DEF PlanInv
<1>4. IsSeq(files)
  BY DEF IInv, SequencesOK
<1> HIDE DEF some, S, sum, failed
<1>5. SummedUp(files, S, sum)
  BY <1>4, SummaryIs DEF sum
<1>6. /\ coverage'.known = coverage.known /\ coverage'.total = coverage.total
      /\ coverage'.full = sum.full /\ coverage'.partial = sum.partial /\ coverage'.unreviewed = sum.unreviewed
  BY <1>2, <1>3, RecountedIs DEF SamePlan
<1>7. IsSeq(inc) /\ Tells(files, S, inc)
  BY <1>5 DEF SummedUp
<1> HIDE DEF inc
<1>8. DOMAIN told = DOMAIN inc /\ \A j \in DOMAIN inc : Alike(told[j], inc[j])
  <2>1. \A j \in DOMAIN inc : told[j] = inc[j] \/ told[j] = [inc[j] EXCEPT !.reason = "batch_execution_failed"]
    OBVIOUS
  <2>2. DOMAIN told = DOMAIN inc
    OBVIOUS
  <2> HIDE DEF told
  <2>3. ASSUME NEW j \in DOMAIN inc PROVE Alike(told[j], inc[j])
    <3> DEFINE e == inc[j]
    <3>1. IsEntry(e)
      BY <1>7 DEF Tells
    <3> HIDE DEF e
    <3>2. Alike([e EXCEPT !.reason = "batch_execution_failed"], e) /\ Alike(e, e)
      BY <3>1, OtherReason
    <3> QED BY <2>1, <3>2 DEF e
  <2> QED BY <2>2, <2>3
<1>9. IsSeq(told) /\ Len(told) = Len(inc)
  <2>1. DOMAIN inc = 1..Len(inc) /\ Len(inc) \in Nat
    BY <1>7, Domain
  <2>2. told = [j \in 1..Len(inc) |-> told[j]]
    BY <2>1
  <2> HIDE DEF told
  <2>3. told \in [1..Len(inc) -> Range(told)]
    BY <1>8, <2>1, <2>2 DEF Range
  <2>4. told \in Seq(Range(told))
    BY <2>1, <2>3, SeqDef
  <2> QED BY <1>8, <2>1, <2>4, LenProperties DEF IsSeq
<1> HIDE DEF told
<1>10. Tells(files, S, told)
  BY <1>7, <1>8, TellsAlike
<1>11. SentSoFar' = S
  BY <1>1 DEF SentSoFar, Counting, S, some
<1>12. coverage.known => coverage.total = Len(files)
  BY <1>1 DEF CountInv, CountStands
<1>13. coverage.known => CountStands'
  <2>1. Adds(sum.full, sum.partial, sum.unreviewed, Len(files), Len(inc))
    BY <1>5 DEF SummedUp, inc
  <2> QED BY <1>1, <1>6, <1>9, <1>10, <1>11, <1>12, <2>1 DEF CountStands
<1>14. ~Told' /\ ~Unread' /\ at' # "context"
  BY <1>1 DEF Told, Unread
<1>15. done' <= Len(batches')
  BY <1>1 DEF CountInv
<1> QED BY <1>6, <1>13, <1>14, <1>15 DEF CountInv, CoverageHonest

\* What was sent of a file in the batches that succeeded, where all of it is counted.
LEMMA WholeSent ==
  ASSUME IInv, PlanInv, CountInv, coverage.known, Once, NEW i \in DOMAIN files,
         WholeIn(files[i], FlattenSeq(SubSeq(batches, 1, done)))
  PROVE  LET sent == SentLines(files[i].path, SubSeq(batches, 1, done))
         IN  /\ Bytes(Parsed(files[i])) <= Bytes(sent) + Omitted(files[i])
             /\ Omitted(files[i]) = 0 => sent = Parsed(files[i])
<1> DEFINE X == PathsIn(files)
           U == Elements(files)
           limit == case.limit
           all == PlanOf(files, limit)
           n == coverage.planned
           V == SentPiece(X, U, limit)
           W == FitBatches(X, U, limit)
           f == files[i]
           D == SubSeq(batches, 1, done)
           S == FlattenSeq(D)
<1>1. files \in Seq(U) /\ FilesIn(X, U) /\ limit \in Nat /\ batches \in Seq(W)
  BY PlannedBatches
<1>2. n \in 0..Len(all) /\ batches = SubSeq(all, 1, n) /\ done \in Nat /\ done <= Len(batches)
  BY DEF PlanInv, PlanFollows, CountInv, IInv, TypeOK
<1>3. V \subseteq AnyPiece(X) /\ W \subseteq Seq(V)
  BY SentTypes
<1>4. OnlyAt(files, i, f.path)
  BY DEF OnlyAt, Once
<1>5. IsFile(f)
  BY DEF PlanInv, AllFiles
<1>6. all \in Seq(W)
  BY <1>1, PlanIs
<1>7. WholeIn(f, S)
  OBVIOUS
<1> HIDE DEF X, U, limit, all, n, V, W, D, S
<1>8. Len(batches) = n /\ Len(all) \in Nat
  BY <1>2, <1>3, <1>6, SomeBatches, LenProperties
<1>9. done \in 0..Len(batches) /\ done \in 0..Len(all)
  BY <1>2, <1>8
<1>10. D = SubSeq(all, 1, done)
  <2>1. \A k \in 1..done : batches[k] = all[k]
    <3>1. \A k \in 1..n : k \in 1..Len(all)
      BY <1>2, <1>8
    <3>2. \A k \in 1..n : all[k] \in W
      BY <1>6, <3>1, ElementOfSeq
    <3>3. \A k \in 1..n : batches[k] = all[k]
      BY <1>2, <3>2, SubSeqProperties
    <3>4. \A k \in 1..done : k \in 1..n
      BY <1>2, <1>8
    <3> QED BY <3>3, <3>4
  <2>2. D = [k \in 1..done |-> batches[k]] /\ SubSeq(all, 1, done) = [k \in 1..done |-> all[k]]
    BY <1>2 DEF D
  <2> QED BY <2>1, <2>2
<1>11. S \in Seq(V)
  BY <1>1, <1>3, <1>9, SomeBatches DEF S, D
<1>12. S \in Seq(AnyPiece(X))
  BY <1>3, <1>11, SeqMonotonic
<1>13. DiffBytes(f) <= OwnCharges(X, f.path, S)
  <2>1. /\ OwnCharges(X, f.path, S) \in Nat /\ DiffBytes(f) \in Nat
        /\ Covered(f, S) = IF OwnCharges(X, f.path, S) < DiffBytes(f) THEN OwnCharges(X, f.path, S) ELSE DiffBytes(f)
    BY <1>5, <1>12, CoveredIs
  <2> QED BY <1>7, <2>1 DEF WholeIn
<1>14. S = FlattenSeq(SubSeq(all, 1, done))
  BY <1>10 DEF S
<1>15. WholeBut(SentLines(f.path, SubSeq(all, 1, done)), f)
  BY <1>1, <1>4, <1>9, <1>13, <1>14, WholeIfCharged DEF all
<1> DEFINE sent == SentLines(f.path, D)
<1>16. sent \in Seq(PlacedLine) /\ Weigh(Parsed(f)) <= Weigh(sent) + Omitted(f) /\ (Omitted(f) = 0 => sent = Parsed(f))
  BY <1>10, <1>15 DEF WholeBut
<1>17. Parsed(f) \in Seq(PlacedLine)
  BY <1>5, FileIs
<1> HIDE DEF sent, f
<1>18. Bytes(sent) = Weigh(sent) /\ Bytes(Parsed(f)) = Weigh(Parsed(f))
  BY <1>16, <1>17, BytesIsWeigh
<1>19. Bytes(Parsed(f)) <= Bytes(sent) + Omitted(f) /\ (Omitted(f) = 0 => sent = Parsed(f))
  BY <1>16, <1>18
<1> QED BY <1>19 DEF sent, f, D

LEMMA CorrectCounts ==
  ASSUME IInv, PlanInv, CountInv, Correct
  PROVE  CountInv'
<1> DEFINE inc == incomplete
           t == Final(inc)
           more == t.more
           D == SubSeq(batches, 1, done)
           S == FlattenSeq(D)
<1>1. /\ at = "returned" /\ at' = "corrected" /\ UNCHANGED <<files, batches, done, result>>
      /\ incomplete' = t.list
      /\ complete' = (complete /\ ~overflow /\ Clear)
      /\ coverage' = IF ~coverage.known THEN coverage ELSE Raised(coverage, more)
  <2>1. \A told : [coverage EXCEPT !.total = @ + told.more, !.unreviewed = @ + told.more] = Raised(coverage, told.more)
    BY DEF Raised
  <2>2. \A h : FoldLeft(Mark, [list |-> incomplete, more |-> 0], h) = Marked(incomplete, h)
    BY DEF Marked, Unmarked, FoldLeft, MapThenFoldSet, Marking!Result, MarkStep, Marking!Max, Max
  <2> QED BY <2>1, <2>2 DEF Correct, Final, Clear, reading
<1>2. done' <= Len(batches') /\ ~Unread' /\ at' # "context" /\ at' \notin {"batch", "returned"}
  BY <1>1 DEF CountInv, Unread
<1>3. IsCoverage(coverage)
  BY DEF PlanInv
<1>4. CASE ~coverage.known
  <2>1. ~Planned'
    BY <1>1, <1>4 DEF Planned
  <2> QED BY <1>2, <2>1 DEF CountInv, CoverageHonest
<1>5. CASE coverage.known
  <2>1. /\ coverage' = Raised(coverage, more)
        /\ coverage'.full = coverage.full /\ coverage'.partial = coverage.partial
        /\ coverage'.unreviewed = coverage.unreviewed + more /\ coverage'.total = coverage.total + more
    BY <1>1, <1>3, <1>5, RaisedIs
  <2>2. /\ IsSeq(inc) /\ Tells(files, S, inc)
        /\ Adds(coverage.full, coverage.partial, coverage.unreviewed, coverage.total, Len(inc))
        /\ complete => result = "ok" /\ coverage.partial = 0 /\ coverage.unreviewed = 0
    BY <1>1, <1>5 DEF CountInv, CountStands, SentSoFar, Counting
  <2>3. \A j \in DOMAIN inc : IsEntry(inc[j])
    BY <2>2 DEF Tells
  <2>4. Corrected(inc, t.list, more)
    <3>1. IsSeq(flags)
      BY DEF IInv, SequencesOK
    <3> HIDE DEF inc
    <3> QED BY <2>2, <2>3, <3>1, FinalAdds
  <2>5. /\ more \in Nat /\ IsSeq(t.list) /\ Len(t.list) = Len(inc) + more
        /\ \A j \in DOMAIN inc : Alike(t.list[j], inc[j])
        /\ \A j \in DOMAIN t.list : j \in DOMAIN inc \/ t.list[j].status = "unreviewed"
        /\ ~overflow /\ Clear => t.list = inc
    <3> DEFINE u == [list |-> t.list, more |-> more]
    <3>1. u.list = t.list /\ u.more = more
      OBVIOUS
    <3>2. AddsTo(inc, u) /\ (~overflow /\ Clear => t.list = inc)
      BY <2>4 DEF Corrected
    <3> HIDE DEF u, t, more, inc
    <3> QED BY <3>1, <3>2 DEF AddsTo
  <2> DEFINE after == t.list
  <2> HIDE DEF inc, t, more, D, S, after
  <2>6. DOMAIN inc = 1..Len(inc) /\ DOMAIN after = 1..Len(after) /\ Len(inc) \in Nat /\ Len(after) \in Nat
    BY <2>2, <2>5, Domain DEF after
  <2>7. \A j \in DOMAIN inc : j \in DOMAIN after
    BY <2>5, <2>6 DEF after
  <2>8. ASSUME Once, NEW i \in DOMAIN files, \A j \in DOMAIN after : after[j].path # files[i].path
        PROVE  /\ Bytes(Parsed(files[i])) <= Bytes(SentLines(files[i].path, D)) + Omitted(files[i])
               /\ Omitted(files[i]) = 0 => SentLines(files[i].path, D) = Parsed(files[i])
    <3>1. \A j \in DOMAIN inc : inc[j].path # files[i].path
      BY <2>5, <2>7, <2>8 DEF Alike, after
    <3>2. WholeIn(files[i], S)
      BY <2>2, <3>1 DEF Tells
    <3> QED BY <1>5, <2>8, <3>2, WholeSent DEF S, D
  <2>9. ASSUME NEW i \in DOMAIN files, NEW j \in DOMAIN after, after[j].path = files[i].path, after[j].status = "partial"
        PROVE  Of(files[i].path, S) # <<>>
    <3>1. j \in DOMAIN inc /\ inc[j].path = files[i].path /\ inc[j].status = "partial"
      BY <2>5, <2>9 DEF Alike, after
    <3>2. PICK k \in DOMAIN files : inc[j].path = files[k].path /\ Covered(files[k], S) # 0
      BY <2>2, <3>1 DEF Tells
    <3> DEFINE X == PathsIn(files)
               U == Elements(files)
               V == SentPiece(X, U, case.limit)
               W == FitBatches(X, U, case.limit)
    <3>3. batches \in Seq(W) /\ V \subseteq AnyPiece(X) /\ W \subseteq Seq(V)
      BY PlannedBatches, SentTypes
    <3>4. done \in Nat /\ done <= Len(batches)
      BY DEF CountInv, IInv, TypeOK
    <3>5. IsFile(files[k])
      BY DEF PlanInv, AllFiles
    <3> HIDE DEF X, U, V, W
    <3>6. done \in 0..Len(batches)
      BY <3>3, <3>4, LenProperties
    <3>7. S \in Seq(AnyPiece(X))
      <4>1. S \in Seq(V)
        BY <3>3, <3>6, SomeBatches DEF S, D
      <4> QED BY <3>3, <4>1, SeqMonotonic
    <3>8. Of(files[k].path, S) = <<>> => OwnCharges(X, files[k].path, S) = 0
      BY <3>5, <3>7, CoveredIs
    <3>9. /\ OwnCharges(X, files[k].path, S) \in Nat /\ DiffBytes(files[k]) \in Nat
          /\ Covered(files[k], S) = IF OwnCharges(X, files[k].path, S) < DiffBytes(files[k])
                                    THEN OwnCharges(X, files[k].path, S) ELSE DiffBytes(files[k])
      BY <3>5, <3>7, CoveredIs
    <3> QED BY <3>1, <3>2, <3>8, <3>9
  <2>10. /\ coverage.full + coverage.partial + (coverage.unreviewed + more) = coverage.total + more
         /\ coverage.partial + (coverage.unreviewed + more) = Len(after)
    <3>1. \A a, b, c, l, m, n, o \in Nat :
            b + c = l /\ a + b + c = n /\ o = l + m => /\ a + b + (c + m) = n + m
                                                       /\ b + (c + m) = o
      OBVIOUS
    <3>2. /\ coverage.full \in Nat /\ coverage.partial \in Nat /\ coverage.unreviewed \in Nat
          /\ coverage.full + coverage.partial + coverage.unreviewed = coverage.total
          /\ coverage.partial + coverage.unreviewed = Len(inc)
          /\ coverage.total \in Nat
      BY <2>2 DEF Adds
    <3>3. more \in Nat /\ Len(after) = Len(inc) + more /\ Len(inc) \in Nat /\ Len(after) \in Nat
      BY <2>5, <2>6 DEF after
    <3>4. PICK a, b, c, l, m, n, o \in Nat :
            /\ a = coverage.full /\ b = coverage.partial /\ c = coverage.unreviewed
            /\ n = coverage.total /\ l = Len(inc) /\ m = more /\ o = Len(after)
      BY <3>2, <3>3
    <3>5. b + c = l /\ a + b + c = n /\ o = l + m
      BY <3>2, <3>3, <3>4
    <3>6. a + b + (c + m) = n + m /\ b + (c + m) = o
      BY <3>1, <3>5
    <3> QED BY <3>4, <3>6
  <2>11. complete' => result = "ok" /\ after = <<>>
    <3>1. complete' => Len(inc) = 0 /\ after = inc
      <4>1. coverage.partial + coverage.unreviewed = Len(inc)
        BY <2>2 DEF Adds
      <4>2. complete' => coverage.partial = 0 /\ coverage.unreviewed = 0 /\ ~overflow /\ Clear
        BY <1>1, <2>2
      <4>3. 0 + 0 = 0
        OBVIOUS
      <4> QED BY <2>5, <4>1, <4>2, <4>3 DEF after
    <3>2. inc \in Seq(Range(inc))
      BY <2>2 DEF IsSeq
    <3>3. Len(inc) = 0 => inc = <<>>
      BY <3>2, EmptySeq
    <3> QED BY <1>1, <2>2, <3>1, <3>3
  <2>12. incomplete' = after
    BY <1>1 DEF after
  <2>13. CoverageHonest'
    BY <1>1, <2>1, <2>8, <2>9, <2>10, <2>11, <2>12 DEF CoverageHonest, Once, S, D
  <2> QED BY <1>2, <2>13 DEF CountInv
<1>6. coverage.known \in BOOLEAN
  BY DEF PlanInv
<1> QED BY <1>4, <1>5, <1>6

LEMMA InitCounts == Init => CountInv
  BY EmptySeq DEF Init, CountInv, CoverageHonest, Told, Unread, Unknown

LEMMA NextCounts == IInv /\ PlanInv /\ CountInv /\ [Next]_vars => CountInv'
<1> SUFFICES ASSUME IInv, PlanInv, CountInv, [Next]_vars PROVE CountInv'
  OBVIOUS
<1>0. CoverageHonest /\ done <= Len(batches) /\ done \in Nat
  BY DEF CountInv, IInv, TypeOK
<1>1. CASE Push \/ Reading
  <2>1. /\ UNCHANGED <<batches, done, coverage>> /\ ~Told'
        /\ Unread /\ at' \notin {"batch", "returned"}
    BY <1>1 DEF Push, Reading, ReadMetadata, ReadPage, PagesUnknown, ReadLegacy, ReadRaw, ReadFails, running, Told, Unread
  <2> QED BY <1>0, <2>1 DEF CountInv, CoverageHonest
<1>2. CASE PrepareContext
  <2>1. at = "context" /\ UNCHANGED <<batches, done, coverage>> /\ at' \in {"planning", "returned"}
    BY <1>2 DEF PrepareContext
  <2> QED BY <1>0, <2>1 DEF CountInv, CoverageHonest, Told, Unread
<1>3. CASE Plan
  BY <1>3, PlanCounts
<1>4. CASE BatchSucceeds
  <2>1. /\ at = "batch" /\ at' = "batch" /\ done < Len(batches) /\ done' = done + 1
        /\ UNCHANGED <<files, batches, coverage, complete, incomplete, result>>
    BY <1>4 DEF BatchSucceeds, reading
  <2>2. Len(batches) \in Nat
    BY PlannedBatches, LenProperties
  <2>3. done' <= Len(batches')
    BY <1>0, <2>1, <2>2
  <2>4. SentSoFar' = SentSoFar
    BY <2>1 DEF SentSoFar, Counting
  <2>5. CountStands => CountStands'
    BY <2>1, <2>4 DEF CountStands
  <2> QED BY <2>1, <2>3, <2>5 DEF CountInv, CoverageHonest, Told, Unread
<1>5. CASE BatchFails
  BY <1>5, FailureCounts
<1>6. CASE BatchesEnd
  <2>1. /\ at = "batch" /\ at' = "returned" /\ done = Len(batches) /\ result' = "ok"
        /\ complete' = (coverage.partial = 0 /\ coverage.unreviewed = 0)
        /\ UNCHANGED <<files, batches, done, coverage, incomplete>>
    BY <1>6 DEF BatchesEnd, reading
  <2>2. SentSoFar' = SentSoFar
    BY <2>1 DEF SentSoFar, Counting
  <2>3. CountStands => CountStands'
    BY <2>1, <2>2 DEF CountStands
  <2> QED BY <1>0, <2>1, <2>3 DEF CountInv, CoverageHonest, Told, Unread
<1>7. CASE FallBack
  <2>1. at' = "planning" /\ UNCHANGED <<batches, done>>
    BY <1>7 DEF FallBack, running
  <2> QED BY <1>0, <2>1 DEF CountInv, CoverageHonest, Told, Unread
<1>8. CASE Correct
  BY <1>8, CorrectCounts
<1>9. CASE Store \/ StoreFails \/ Over \/ UNCHANGED vars
  <2>1. UNCHANGED <<files, running>> /\ (Told' => Told) /\ (at' = at \/ at' \in {"stored", "failed"})
        /\ (at' = at => UNCHANGED <<at, result>>)
    BY <1>9 DEF Store, StoreFails, Over, vars, reading, running, Told
  <2>2. CoverageHonest'
    BY <1>0, <2>1, HonestStands
  <2>3. UNCHANGED <<batches, done, coverage, incomplete, complete, files, result>>
    BY <2>1 DEF running
  <2>4. at' = at => (CountStands => CountStands')
    BY <2>1, <2>3 DEF CountStands, SentSoFar, Counting
  <2> QED BY <1>0, <2>1, <2>2, <2>3, <2>4 DEF CountInv, Unread
<1> QED BY <1>1, <1>2, <1>3, <1>4, <1>5, <1>6, <1>7, <1>8, <1>9 DEF Next, Reviewing, Telling

(* What the coverage says was reviewed, was, whatever the files, the limit *)
(* and the listings: a file that is not listed as incomplete was sent in   *)
(* batches that succeeded, with every line if all its hunk headers give    *)
(* both counts, and otherwise but for as many bytes as its headers omit;   *)
(* one that is said to be partial was sent in part, no file is counted     *)
(* twice or forgotten, and a review is complete only if nothing is listed. *)
(* (summarize_planned_work_items, split_hunk_into_review_work_items,       *)
(* apply_batch_failure_coverage, run_batched_ai_review,                    *)
(* apply_gitlab_diff_incompleteness.)                                      *)
THEOREM CoverageIsHonest == Spec => []CoverageHonest
<1>1. CountInv => CoverageHonest
  BY DEF CountInv
<1>2. Init => IInv /\ PlanInv /\ CountInv
  BY InitIInv, InitPlanInv, InitCounts
<1>3. IInv /\ PlanInv /\ CountInv /\ [Next]_vars => (IInv /\ PlanInv /\ CountInv)'
  BY NextIInv, NextPlanInv, NextCounts
<1> QED BY <1>1, <1>2, <1>3, PTL DEF Spec
=============================================================================
