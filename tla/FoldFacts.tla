----------------------------- MODULE FoldFacts -----------------------------
(***************************************************************************)
(* What the folds of the community modules compute, for proofs: sums over  *)
(* finite sets, and sequences that are put together.  The provers cannot   *)
(* instantiate an induction theorem that takes an operator; the smallest   *)
(* element of a set of counterexamples (WFMin) does instead.               *)
(***************************************************************************)
EXTENDS SequencesExt, FiniteSetTheorems, SequenceTheorems, WellFoundedInduction, TLAPS

CONSTANT Op(_, _, _)    \* a step of a fold: what it depends on, what there is, an element

\* A set of naturals with 0 that has the successor of each member has all.
LEMMA SetInduction ==
  ASSUME NEW S, 0 \in S, \A n \in Nat : n \in S => n + 1 \in S
  PROVE  Nat \subseteq S
<1> SUFFICES ASSUME ~(Nat \subseteq S) PROVE FALSE
  OBVIOUS
<1> DEFINE T == Nat \ S
           R == OpToRel(<, Nat)
<1>1. T \subseteq Nat /\ T # {}
  OBVIOUS
<1>2. IsWellFoundedOn(R, Nat)
  BY NatLessThanWellFounded
<1> HIDE DEF R, T
<1>3. PICK m \in T : \A n \in T : <<n, m>> \notin R
  BY <1>1, <1>2, WFMin
<1>4. m \in Nat /\ m # 0
  BY <1>1 DEF T
<1>5. m - 1 \in Nat /\ <<m - 1, m>> \in R
  BY <1>4 DEF R, OpToRel
<1>6. m - 1 \in S
  BY <1>3, <1>5 DEF T
<1>7. (m - 1) + 1 \in S
  BY <1>5, <1>6
<1> QED BY <1>3, <1>4, <1>7 DEF T

\* A set of sequences with the empty one that has every longer one of each
\* member has all.
LEMMA SeqInduction ==
  ASSUME NEW U, NEW S, <<>> \in S, \A s \in Seq(U) : \A x \in U : s \in S => Append(s, x) \in S
  PROVE  Seq(U) \subseteq S
<1> DEFINE K == {n \in Nat : \A s \in Seq(U) : Len(s) = n => s \in S}
<1>1. 0 \in K
  BY EmptySeq
<1>2. ASSUME NEW n \in Nat, n \in K PROVE n + 1 \in K
  <2> SUFFICES ASSUME NEW s \in Seq(U), Len(s) = n + 1 PROVE s \in S
    OBVIOUS
  <2>1. s # <<>>
    BY EmptySeq
  <2>2. PICK r \in Seq(U), x \in U : s = Append(r, x)
    BY <2>1, SequenceEmptyOrAppend
  <2>3. Len(r) = n
    BY <2>2, LenProperties, AppendProperties
  <2> QED BY <1>2, <2>2, <2>3
<1> HIDE DEF K
<1>3. Nat \subseteq K
  BY <1>1, <1>2, SetInduction
<1> QED BY <1>3, LenProperties DEF K

-----------------------------------------------------------------------------
(* Folds over finite sets.                                                 *)

\* it[s] is the fold of s: from b, with step G, taking the element C[s] last.
Folding(it, G, b, C, D) ==
  it = [s \in D |-> IF s = {} THEN b ELSE G[<<C[s], it[s \ {C[s]}]>>]]

SmallSets(S, n) == {s \in SUBSET S : Cardinality(s) <= n}

LEMMA FoldExists ==
  ASSUME NEW S, IsFiniteSet(S), NEW B, NEW b \in B, NEW C, NEW G,
         \A s \in SUBSET S : s # {} => C[s] \in s,
         \A x \in S : \A y \in B : G[<<x, y>>] \in B
  PROVE  \E it : Folding(it, G, b, C, SUBSET S) /\ it \in [SUBSET S -> B]
<1> DEFINE K == {n \in Nat : \E it : Folding(it, G, b, C, SmallSets(S, n)) /\ it \in [SmallSets(S, n) -> B]}
<1>0. \A s \in SUBSET S : IsFiniteSet(s) /\ Cardinality(s) \in Nat
  BY FS_Subset, FS_CardinalityType
<1>1. 0 \in K
  <2>1. SmallSets(S, 0) = {{}}
    <3>1. \A s \in SUBSET S : Cardinality(s) <= 0 <=> s = {}
      BY <1>0, FS_EmptySet
    <3> QED BY <3>1 DEF SmallSets
  <2> DEFINE it == [s \in {{}} |-> b]
  <2>2. Folding(it, G, b, C, {{}}) /\ it \in [{{}} -> B]
    BY DEF Folding
  <2> QED BY <2>1, <2>2
<1>2. ASSUME NEW n \in Nat, n \in K PROVE n + 1 \in K
  <2>1. PICK it : Folding(it, G, b, C, SmallSets(S, n)) /\ it \in [SmallSets(S, n) -> B]
    BY <1>2
  <2> DEFINE next == [s \in SmallSets(S, n + 1) |-> IF s = {} THEN b ELSE G[<<C[s], it[s \ {C[s]}]>>]]
  <2>2. ASSUME NEW s \in SmallSets(S, n + 1), s # {}
        PROVE  s \ {C[s]} \in SmallSets(S, n) /\ s \ {C[s]} \in SmallSets(S, n + 1) /\ C[s] \in S
    <3>1. C[s] \in s /\ s \in SUBSET S /\ Cardinality(s) <= n + 1
      BY <2>2 DEF SmallSets
    <3>2. Cardinality(s \ {C[s]}) = Cardinality(s) - 1
      BY <1>0, <3>1, FS_RemoveElement
    <3> QED BY <1>0, <3>1, <3>2 DEF SmallSets
  <2>3. \A s \in SmallSets(S, n) : next[s] = it[s] /\ s \in SmallSets(S, n + 1)
    <3>1. \A s \in SmallSets(S, n) : s \in SmallSets(S, n + 1)
      BY <1>0 DEF SmallSets
    <3> QED BY <2>1, <3>1 DEF Folding
  <2>4. Folding(next, G, b, C, SmallSets(S, n + 1))
    BY <2>2, <2>3 DEF Folding
  <2>5. next \in [SmallSets(S, n + 1) -> B]
    BY <2>1, <2>2
  <2> HIDE DEF next
  <2> QED BY <2>4, <2>5
<1> HIDE DEF K
<1>3. Cardinality(S) \in K
  BY <1>0, <1>1, <1>2, SetInduction
<1>4. SmallSets(S, Cardinality(S)) = SUBSET S
  BY <1>0, FS_Subset DEF SmallSets
<1> QED BY <1>3, <1>4 DEF K

\* The fold of a sequence from the left, as the library defines it: any
\* function of the sets of places that takes their last one last.
Folded(it, c, b, s) ==
  it = [t \in SUBSET DOMAIN s |-> IF t = {} THEN b ELSE Op(c, it[t \ {Max(t)}], s[Max(t)])]

LEMMA LastOne ==
  ASSUME NEW n \in Nat, NEW t \in SUBSET (1..n), t # {}
  PROVE  Max(t) \in t
<1>1. IsFiniteSet(t)
  <2>1. IsFiniteSet(1..n)
    BY FS_Interval
  <2> QED BY <2>1, FS_Subset
<1> DEFINE R == {m \in Nat : \A u \in SUBSET t : u # {} /\ Cardinality(u) <= m => \E x \in u : \A y \in u : x >= y}
<1>0. \A u \in SUBSET t : IsFiniteSet(u) /\ Cardinality(u) \in Nat
  BY <1>1, FS_Subset, FS_CardinalityType
<1>2. 0 \in R
  <2>1. \A u \in SUBSET t : Cardinality(u) <= 0 => u = {}
    BY <1>0, FS_EmptySet
  <2> QED BY <2>1
<1>3. ASSUME NEW m \in Nat, m \in R PROVE m + 1 \in R
  <2> SUFFICES ASSUME NEW u \in SUBSET t, u # {}, Cardinality(u) <= m + 1 PROVE \E x \in u : \A y \in u : x >= y
    OBVIOUS
  <2>1. PICK a \in u : TRUE
    OBVIOUS
  <2>2. Cardinality(u \ {a}) = Cardinality(u) - 1
    BY <1>0, FS_RemoveElement
  <2>3. CASE u \ {a} = {}
    BY <2>3
  <2>4. CASE u \ {a} # {}
    <3>1. PICK x \in u \ {a} : \A y \in u \ {a} : x >= y
      BY <1>0, <1>3, <2>2, <2>4
    <3> QED BY <3>1
  <2> QED BY <2>3, <2>4
<1> HIDE DEF R
<1>4. Cardinality(t) \in R
  BY <1>0, <1>2, <1>3, SetInduction
<1>5. \E x \in t : \A y \in t : x >= y
  BY <1>0, <1>4 DEF R
<1> QED BY <1>5 DEF Max

LEMMA LastElement ==
  ASSUME NEW U, NEW s \in Seq(U), NEW t \in SUBSET DOMAIN s, t # {}
  PROVE  s[Max(t)] \in U
<1>1. Len(s) \in Nat /\ DOMAIN s = 1..Len(s)
  BY LenProperties
<1>2. Max(t) \in t
  BY <1>1, LastOne
<1> QED BY <1>2, ElementOfSeq, <1>1

LEMMA FoldedExists ==
  ASSUME NEW c, NEW b, NEW s, NEW n \in Nat, DOMAIN s = 1..n
  PROVE  \E it : Folded(it, c, b, s)
<1> DEFINE D == 1..n
           Next1(it, t) == IF t = {} THEN b ELSE Op(c, it[t \ {Max(t)}], s[Max(t)])
           K == {m \in Nat : \E it : it = [t \in SmallSets(D, m) |-> Next1(it, t)]}
<1>a. IsFiniteSet(D) /\ Cardinality(D) = n
  BY FS_Interval
<1>b. \A t \in SUBSET D : t # {} => Max(t) \in t
  BY LastOne
<1> HIDE DEF D
<1>0. /\ \A t \in SUBSET D : IsFiniteSet(t) /\ Cardinality(t) \in Nat /\ Cardinality(t) <= n
      /\ \A t \in SUBSET D : t # {} => Max(t) \in t
  BY <1>a, <1>b, FS_Subset, FS_CardinalityType
<1>1. 0 \in K
  <2>1. SmallSets(D, 0) = {{}}
    <3>1. \A t \in SUBSET D : Cardinality(t) <= 0 <=> t = {}
      BY <1>0, FS_EmptySet
    <3> QED BY <3>1 DEF SmallSets
  <2> DEFINE it == [t \in {{}} |-> b]
  <2>2. it = [t \in {{}} |-> Next1(it, t)]
    OBVIOUS
  <2> QED BY <2>1, <2>2
<1>2. ASSUME NEW m \in Nat, m \in K PROVE m + 1 \in K
  <2>1. PICK it : it = [t \in SmallSets(D, m) |-> Next1(it, t)]
    BY <1>2
  <2> DEFINE next == [t \in SmallSets(D, m + 1) |-> Next1(it, t)]
  <2>2. ASSUME NEW t \in SmallSets(D, m + 1), t # {}
        PROVE  t \ {Max(t)} \in SmallSets(D, m) /\ t \ {Max(t)} \in SmallSets(D, m + 1)
    <3>1. Max(t) \in t /\ t \in SUBSET D /\ Cardinality(t) <= m + 1
      BY <1>0, <2>2 DEF SmallSets
    <3>2. Cardinality(t \ {Max(t)}) = Cardinality(t) - 1
      BY <1>0, <3>1, FS_RemoveElement
    <3>3. /\ t \ {Max(t)} \in SUBSET D
          /\ Cardinality(t \ {Max(t)}) <= m /\ Cardinality(t \ {Max(t)}) <= m + 1
      BY <1>0, <3>1, <3>2
    <3> QED BY <3>3 DEF SmallSets
  <2>3. \A t \in SmallSets(D, m) : next[t] = it[t] /\ t \in SmallSets(D, m + 1)
    <3>1. \A t \in SmallSets(D, m) : t \in SmallSets(D, m + 1)
      BY <1>0 DEF SmallSets
    <3> QED BY <2>1, <3>1
  <2>4. ASSUME NEW t \in SmallSets(D, m + 1) PROVE next[t] = Next1(next, t)
    <3>1. CASE t = {}
      BY <3>1
    <3>2. CASE t # {}
      <4>1. next[t \ {Max(t)}] = it[t \ {Max(t)}]
        BY <2>2, <2>3, <3>2
      <4> QED BY <3>2, <4>1
    <3> QED BY <3>1, <3>2
  <2>5. next = [t \in SmallSets(D, m + 1) |-> Next1(next, t)]
    BY <2>4
  <2>6. \E jt : jt = [t \in SmallSets(D, m + 1) |-> Next1(jt, t)]
    <3> HIDE DEF next, Next1
    <3> QED BY <2>5
  <2> HIDE DEF Next1
  <2> QED BY <2>6
<1> HIDE DEF K
<1>3. n \in K
  BY <1>1, <1>2, SetInduction
<1>4. SmallSets(D, n) = SUBSET D
  BY <1>0 DEF SmallSets
<1>5. PICK it : it = [t \in SmallSets(D, n) |-> Next1(it, t)]
  BY <1>3 DEF K
<1>6. Folded(it, c, b, s)
  BY <1>4, <1>5 DEF Folded, D
<1> QED BY <1>6

Result(c, b, s) ==
  (CHOOSE it : it = [t \in SUBSET DOMAIN s |->
     IF t = {} THEN b ELSE Op(c, it[t \ {Max(t)}], s[Max(t)])])[DOMAIN s]

\* The same step by step.
Steps(g, c, b, s, n) == g = [i \in 0..n |-> IF i = 0 THEN b ELSE Op(c, g[i - 1], s[i])]

LEMMA FoldSteps ==
  ASSUME NEW c, NEW b, NEW s, NEW n \in Nat, DOMAIN s = 1..n
  PROVE  \E g : Steps(g, c, b, s, n) /\ Result(c, b, s) = g[n]
<1> DEFINE it == CHOOSE it : Folded(it, c, b, s)
           g == [i \in 0..n |-> it[1..i]]
<1>1. Folded(it, c, b, s)
  BY FoldedExists
<1>2. it = CHOOSE jt : jt = [t \in SUBSET DOMAIN s |-> IF t = {} THEN b ELSE Op(c, jt[t \ {Max(t)}], s[Max(t)])]
  BY DEF Folded
<1> HIDE DEF it
<1>3. ASSUME NEW i \in 1..n PROVE g[i] = Op(c, g[i - 1], s[i])
  <2>0. Max(1..i) = i
    <3>1. i \in 1..i /\ \A y \in 1..i : i >= y
      OBVIOUS
    <3>2. \A x \in 1..i : (\A y \in 1..i : x >= y) => x = i
      BY <3>1
    <3> QED BY <3>1, <3>2 DEF Max
  <2>1. (1..i) \ {i} = 1..(i - 1) /\ 1..i \in SUBSET DOMAIN s /\ 1..i # {} /\ i - 1 \in 0..n
    OBVIOUS
  <2>2. it[1..i] = Op(c, it[(1..i) \ {Max(1..i)}], s[Max(1..i)])
    BY <1>1, <2>1 DEF Folded
  <2>3. it[1..i] = Op(c, it[1..(i - 1)], s[i])
    BY <2>0, <2>1, <2>2
  <2>4. g[i] = it[1..i] /\ g[i - 1] = it[1..(i - 1)]
    BY <2>1
  <2> HIDE DEF g
  <2> QED BY <2>3, <2>4
<1>4. g[0] = b
  <2>1. 1..0 = {}
    OBVIOUS
  <2> QED BY <1>1, <2>1 DEF Folded
<1>5. g = [i \in 0..n |-> IF i = 0 THEN b ELSE Op(c, g[i - 1], s[i])]
  <2>1. \A i \in 0..n : g[i] = IF i = 0 THEN b ELSE Op(c, g[i - 1], s[i])
    <3> HIDE DEF g
    <3> QED BY <1>3, <1>4
  <2>2. g = [i \in 0..n |-> g[i]]
    OBVIOUS
  <2> HIDE DEF g
  <2> QED BY <2>1, <2>2
<1>6. it[DOMAIN s] = g[n]
  OBVIOUS
<1> HIDE DEF g
<1> QED BY <1>2, <1>5, <1>6 DEF Result, Steps

LEMMA FoldEmpty ==
  ASSUME NEW c, NEW b
  PROVE  Result(c, b, <<>>) = b
<1>1. DOMAIN <<>> = 1..0
  OBVIOUS
<1>2. PICK g : Steps(g, c, b, <<>>, 0) /\ Result(c, b, <<>>) = g[0]
  BY <1>1, FoldSteps
<1> QED BY <1>2 DEF Steps

LEMMA FoldAppend ==
  ASSUME NEW c, NEW b, NEW U, NEW s \in Seq(U), NEW x \in U
  PROVE  Result(c, b, Append(s, x)) = Op(c, Result(c, b, s), x)
<1> DEFINE r == Append(s, x)
           n == Len(s)
<1>1. /\ n \in Nat /\ DOMAIN s = 1..n /\ DOMAIN r = 1..(n + 1)
      /\ \A i \in 1..n : r[i] = s[i]
      /\ r[n + 1] = x
  BY LenProperties, AppendProperties
<1> HIDE DEF r, n
<1>2. PICK g : Steps(g, c, b, s, n) /\ Result(c, b, s) = g[n]
  BY <1>1, FoldSteps
<1>3. n + 1 \in Nat
  BY <1>1
<1>4. PICK h : Steps(h, c, b, r, n + 1) /\ Result(c, b, r) = h[n + 1]
  BY <1>1, <1>3, FoldSteps
<1>5. /\ g[0] = b /\ h[0] = b
      /\ \A i \in 1..n : g[i] = Op(c, g[i - 1], s[i])
      /\ \A i \in 1..(n + 1) : h[i] = Op(c, h[i - 1], r[i])
  BY <1>1, <1>2, <1>4 DEF Steps
<1> DEFINE K == {i \in Nat : i <= n => g[i] = h[i]}
<1>6. 0 \in K
  BY <1>5
<1>7. ASSUME NEW i \in Nat, i \in K PROVE i + 1 \in K
  <2> SUFFICES ASSUME i + 1 <= n PROVE g[i + 1] = h[i + 1]
    OBVIOUS
  <2>1. /\ i + 1 \in 1..n /\ i + 1 \in 1..(n + 1) /\ (i + 1) - 1 = i /\ g[i] = h[i]
        /\ r[i + 1] = s[i + 1]
    BY <1>1, <1>7
  <2>2. g[i + 1] = Op(c, g[(i + 1) - 1], s[i + 1]) /\ h[i + 1] = Op(c, h[(i + 1) - 1], r[i + 1])
    BY <1>5, <2>1
  <2> QED BY <2>1, <2>2
<1> HIDE DEF K
<1>8. g[n] = h[n]
  <2>1. n \in K
    BY <1>1, <1>6, <1>7, SetInduction
  <2> QED BY <1>1, <2>1 DEF K
<1>9. h[n + 1] = Op(c, h[n], x)
  <2>1. n + 1 \in 1..(n + 1) /\ (n + 1) - 1 = n
    BY <1>1
  <2>2. h[n + 1] = Op(c, h[(n + 1) - 1], r[n + 1])
    BY <1>5, <2>1
  <2> QED BY <1>1, <2>1, <2>2
<1> QED BY <1>2, <1>4, <1>8, <1>9 DEF r

-----------------------------------------------------------------------------
(* Sums.                                                                   *)

Adding(it, f, S) ==
  it = [s \in SUBSET S |-> IF s = {} THEN 0
                           ELSE f[CHOOSE x \in s : TRUE] + it[s \ {CHOOSE x \in s : TRUE}]]

LEMMA SumIsAdding ==
  ASSUME NEW f, NEW S
  PROVE  SumFunctionOnSet(f, S) = (CHOOSE it : Adding(it, f, S))[S]
<1> QED BY DEF SumFunctionOnSet, FoldFunctionOnSet, MapThenFoldSet, Adding

LEMMA AddingExists ==
  ASSUME NEW S, IsFiniteSet(S), NEW f, \A x \in S : f[x] \in Int
  PROVE  \E it : Adding(it, f, S) /\ it \in [SUBSET S -> Int]
<1> DEFINE C == [s \in SUBSET S |-> CHOOSE x \in s : TRUE]
           G == [p \in S \X Int |-> f[p[1]] + p[2]]
<1>1. \A s \in SUBSET S : C[s] = CHOOSE x \in s : TRUE
  OBVIOUS
<1>2. \A s \in SUBSET S : s # {} => C[s] \in s
  OBVIOUS
<1>3. \A x \in S : \A y \in Int : G[<<x, y>>] = f[x] + y /\ G[<<x, y>>] \in Int
  OBVIOUS
<1> HIDE DEF C, G
<1>4. PICK it : Folding(it, G, 0, C, SUBSET S) /\ it \in [SUBSET S -> Int]
  <2>1. 0 \in Int
    OBVIOUS
  <2> QED BY <1>2, <1>3, <2>1, FoldExists
<1>5. ASSUME NEW s \in SUBSET S, s # {}
      PROVE  G[<<C[s], it[s \ {C[s]}]>>] = f[CHOOSE x \in s : TRUE] + it[s \ {CHOOSE x \in s : TRUE}]
  <2>1. it[s \ {C[s]}] \in Int
    BY <1>4
  <2>2. C[s] \in S
    BY <1>2, <1>5
  <2> QED BY <1>1, <1>3, <2>1, <2>2
<1>6. it = [s \in SUBSET S |-> IF s = {} THEN 0 ELSE G[<<C[s], it[s \ {C[s]}]>>]]
  BY <1>4 DEF Folding
<1>7. Adding(it, f, S)
  BY <1>5, <1>6 DEF Adding
<1> QED BY <1>4, <1>7

\* What is added up depends on the elements only.
LEMMA AddingDetermined ==
  ASSUME NEW S, IsFiniteSet(S), NEW T \in SUBSET S, NEW f, NEW g, \A x \in T : f[x] = g[x],
         NEW it, Adding(it, f, S), NEW jt, Adding(jt, g, T)
  PROVE  \A s \in SUBSET T : it[s] = jt[s]
<1> DEFINE K == {n \in Nat : \A s \in SmallSets(T, n) : it[s] = jt[s]}
<1>0. \A s \in SUBSET T : IsFiniteSet(s) /\ Cardinality(s) \in Nat /\ s \in SUBSET S
  BY FS_Subset, FS_CardinalityType
<1>1. 0 \in K
  <2>1. \A s \in SmallSets(T, 0) : s = {} /\ s \in SUBSET T
    BY <1>0, FS_EmptySet DEF SmallSets
  <2> QED BY <2>1 DEF Adding
<1>2. ASSUME NEW n \in Nat, n \in K PROVE n + 1 \in K
  <2> SUFFICES ASSUME NEW s \in SmallSets(T, n + 1), s # {} PROVE it[s] = jt[s]
    <3>1. it[{}] = 0 /\ jt[{}] = 0
      BY DEF Adding
    <3> QED BY <3>1
  <2> DEFINE c == CHOOSE x \in s : TRUE
  <2>1. c \in s /\ s \in SUBSET T /\ Cardinality(s) <= n + 1
    BY DEF SmallSets
  <2>5. it[s] = f[c] + it[s \ {c}] /\ jt[s] = g[c] + jt[s \ {c}]
    BY <1>0, <2>1 DEF Adding
  <2> HIDE DEF c
  <2>2. Cardinality(s \ {c}) = Cardinality(s) - 1
    BY <1>0, <2>1, FS_RemoveElement
  <2>3. s \ {c} \in SmallSets(T, n)
    BY <1>0, <2>1, <2>2 DEF SmallSets
  <2>4. it[s \ {c}] = jt[s \ {c}] /\ f[c] = g[c]
    BY <1>2, <2>1, <2>3
  <2> QED BY <2>4, <2>5
<1> HIDE DEF K
<1>3. Cardinality(T) \in K
  BY <1>0, <1>1, <1>2, SetInduction
<1> QED BY <1>0, <1>3, FS_Subset DEF SmallSets, K

\* it[T] is the sum over T, for each T within S.
Summing(it, f, S) ==
  /\ it \in [SUBSET S -> Int]
  /\ Adding(it, f, S)
  /\ \A T \in SUBSET S : SumFunctionOnSet(f, T) = it[T]

LEMMA SumOf ==
  ASSUME NEW S, IsFiniteSet(S), NEW f, \A x \in S : f[x] \in Int
  PROVE  \E it : Summing(it, f, S)
<1>1. PICK it : Adding(it, f, S) /\ it \in [SUBSET S -> Int]
  BY AddingExists
<1>2. ASSUME NEW T \in SUBSET S PROVE SumFunctionOnSet(f, T) = it[T]
  <2>1. IsFiniteSet(T) /\ \A x \in T : f[x] \in Int
    BY FS_Subset
  <2>2. \E jt : Adding(jt, f, T)
    BY <2>1, AddingExists
  <2> DEFINE jt == CHOOSE jt : Adding(jt, f, T)
  <2>3. Adding(jt, f, T)
    BY <2>2
  <2>4. SumFunctionOnSet(f, T) = jt[T]
    BY SumIsAdding
  <2> HIDE DEF jt
  <2>5. \A s \in SUBSET T : it[s] = jt[s]
    BY <1>1, <2>3, AddingDetermined
  <2> QED BY <2>4, <2>5
<1> QED BY <1>1, <1>2 DEF Summing

LEMMA SumType ==
  ASSUME NEW S, IsFiniteSet(S), NEW f, \A x \in S : f[x] \in Int
  PROVE  SumFunctionOnSet(f, S) \in Int
<1>1. PICK it : Summing(it, f, S)
  BY SumOf
<1> QED BY <1>1 DEF Summing

LEMMA SumEmpty ==
  ASSUME NEW f
  PROVE  SumFunctionOnSet(f, {}) = 0
<1>1. IsFiniteSet({})
  BY FS_EmptySet
<1>2. PICK it : Summing(it, f, {})
  BY <1>1, SumOf
<1> QED BY <1>2 DEF Summing, Adding

\* The order of adding does not matter.
LEMMA SumRemove ==
  ASSUME NEW S, IsFiniteSet(S), NEW f, \A x \in S : f[x] \in Int, NEW x \in S
  PROVE  SumFunctionOnSet(f, S) = f[x] + SumFunctionOnSet(f, S \ {x})
<1>a. PICK it : Summing(it, f, S)
  BY SumOf
<1>1. /\ it \in [SUBSET S -> Int]
      /\ Adding(it, f, S)
      /\ \A T \in SUBSET S : SumFunctionOnSet(f, T) = it[T]
  BY <1>a DEF Summing
<1> DEFINE K == {n \in Nat : \A s \in SmallSets(S, n) : \A y \in s : it[s] = f[y] + it[s \ {y}]}
<1>0. \A s \in SUBSET S : IsFiniteSet(s) /\ Cardinality(s) \in Nat
  BY FS_Subset, FS_CardinalityType
<1>2. 0 \in K
  BY <1>0, FS_EmptySet DEF SmallSets
<1>3. ASSUME NEW n \in Nat, n \in K PROVE n + 1 \in K
  <2> SUFFICES ASSUME NEW s \in SmallSets(S, n + 1), NEW y \in s PROVE it[s] = f[y] + it[s \ {y}]
    OBVIOUS
  <2> DEFINE c == CHOOSE z \in s : TRUE
  <2>1. c \in s /\ s \in SUBSET S /\ Cardinality(s) <= n + 1
    BY DEF SmallSets
  <2>2. it[s] = f[c] + it[s \ {c}]
    BY <1>1, <2>1 DEF Adding
  <2> HIDE DEF c
  <2>3. CASE y = c
    BY <2>2, <2>3
  <2>4. CASE y # c
    <3>1. Cardinality(s \ {c}) = Cardinality(s) - 1 /\ Cardinality(s \ {y}) = Cardinality(s) - 1
      BY <1>0, <2>1, FS_RemoveElement
    <3>2. s \ {c} \in SmallSets(S, n) /\ s \ {y} \in SmallSets(S, n)
      BY <1>0, <2>1, <3>1 DEF SmallSets
    <3>3. it[s \ {c}] = f[y] + it[(s \ {c}) \ {y}]
      BY <1>3, <2>4, <3>2
    <3>4. it[s \ {y}] = f[c] + it[(s \ {y}) \ {c}]
      BY <1>3, <2>1, <2>4, <3>2
    <3>5. (s \ {y}) \ {c} = (s \ {c}) \ {y}
      OBVIOUS
    <3>6. f[c] \in Int /\ f[y] \in Int /\ it[(s \ {c}) \ {y}] \in Int
      BY <1>1, <2>1
    <3>7. \A a, b, r \in Int : a + (b + r) = b + (a + r)
      OBVIOUS
    <3>8. it[s \ {y}] = f[c] + it[(s \ {c}) \ {y}]
      BY <3>4, <3>5
    <3>9. f[c] + (f[y] + it[(s \ {c}) \ {y}]) = f[y] + (f[c] + it[(s \ {c}) \ {y}])
      BY <3>6, <3>7
    <3> QED BY <2>2, <3>3, <3>8, <3>9
  <2> QED BY <2>3, <2>4
<1> HIDE DEF K
<1>4. Cardinality(S) \in K
  BY <1>0, <1>2, <1>3, SetInduction
<1>5. it[S] = f[x] + it[S \ {x}]
  BY <1>0, <1>4, FS_Subset DEF SmallSets, K
<1> QED BY <1>1, <1>5

\* The sum depends on the values only.
LEMMA SumSame ==
  ASSUME NEW S, IsFiniteSet(S), NEW f, NEW g, \A x \in S : f[x] \in Int /\ f[x] = g[x]
  PROVE  SumFunctionOnSet(f, S) = SumFunctionOnSet(g, S)
<1>1. PICK it : Summing(it, f, S)
  BY SumOf
<1>2. PICK jt : Summing(jt, g, S)
  <2>1. \A x \in S : g[x] \in Int
    OBVIOUS
  <2> QED BY <2>1, SumOf
<1>3. Adding(it, f, S) /\ Adding(jt, g, S) /\ SumFunctionOnSet(f, S) = it[S] /\ SumFunctionOnSet(g, S) = jt[S]
  BY <1>1, <1>2 DEF Summing
<1>4. \A s \in SUBSET S : it[s] = jt[s]
  BY <1>3, AddingDetermined
<1> QED BY <1>3, <1>4

LEMMA SumAdd ==
  ASSUME NEW S, IsFiniteSet(S), NEW f, NEW x, x \notin S, \A y \in S \cup {x} : f[y] \in Int
  PROVE  SumFunctionOnSet(f, S \cup {x}) = f[x] + SumFunctionOnSet(f, S)
<1>1. IsFiniteSet(S \cup {x})
  BY FS_AddElement
<1>2. (S \cup {x}) \ {x} = S
  OBVIOUS
<1> QED BY <1>1, <1>2, SumRemove

\* One value changes.
LEMMA SumChange ==
  ASSUME NEW S, IsFiniteSet(S), NEW f, NEW g, NEW x \in S,
         \A y \in S : f[y] \in Int /\ g[y] \in Int, \A y \in S \ {x} : f[y] = g[y]
  PROVE  SumFunctionOnSet(g, S) = SumFunctionOnSet(f, S) - f[x] + g[x]
<1>0. IsFiniteSet(S \ {x})
  BY FS_Subset
<1>1. SumFunctionOnSet(f, S) = f[x] + SumFunctionOnSet(f, S \ {x})
  BY SumRemove
<1>2. SumFunctionOnSet(g, S) = g[x] + SumFunctionOnSet(g, S \ {x})
  BY SumRemove
<1>3. SumFunctionOnSet(f, S \ {x}) = SumFunctionOnSet(g, S \ {x})
  BY <1>0, SumSame
<1>4. SumFunctionOnSet(f, S \ {x}) \in Int
  BY <1>0, SumType
<1> QED BY <1>1, <1>2, <1>3, <1>4

\* Where nothing is below 0, no element is more than the sum.
LEMMA SumNat ==
  ASSUME NEW S, IsFiniteSet(S), NEW f, \A x \in S : f[x] \in Nat
  PROVE  SumFunctionOnSet(f, S) \in Nat
<1>a. PICK it : Summing(it, f, S)
  BY SumOf
<1>1. /\ it \in [SUBSET S -> Int]
      /\ Adding(it, f, S)
      /\ \A T \in SUBSET S : SumFunctionOnSet(f, T) = it[T]
  BY <1>a DEF Summing
<1> DEFINE K == {n \in Nat : \A s \in SmallSets(S, n) : it[s] \in Nat}
<1>0. \A s \in SUBSET S : IsFiniteSet(s) /\ Cardinality(s) \in Nat
  BY FS_Subset, FS_CardinalityType
<1>2. 0 \in K
  <2>1. \A s \in SmallSets(S, 0) : s = {} /\ s \in SUBSET S
    BY <1>0, FS_EmptySet DEF SmallSets
  <2> QED BY <1>1, <2>1 DEF Adding
<1>3. ASSUME NEW n \in Nat, n \in K PROVE n + 1 \in K
  <2> SUFFICES ASSUME NEW s \in SmallSets(S, n + 1) PROVE it[s] \in Nat
    OBVIOUS
  <2>0. CASE s = {}
    BY <1>1, <2>0 DEF Adding
  <2> SUFFICES ASSUME NEW c \in s PROVE it[s] \in Nat
    BY <2>0
  <2>1. s \in SUBSET S /\ Cardinality(s) <= n + 1
    BY DEF SmallSets
  <2>2. SumFunctionOnSet(f, s) = f[c] + SumFunctionOnSet(f, s \ {c})
    BY <1>0, <2>1, SumRemove
  <2>3. Cardinality(s \ {c}) = Cardinality(s) - 1
    BY <1>0, <2>1, FS_RemoveElement
  <2>4. s \ {c} \in SmallSets(S, n)
    BY <1>0, <2>1, <2>3 DEF SmallSets
  <2>5. it[s \ {c}] \in Nat /\ f[c] \in Nat
    BY <1>3, <2>1, <2>4
  <2> QED BY <1>1, <2>1, <2>2, <2>5
<1> HIDE DEF K
<1>4. Cardinality(S) \in K
  BY <1>0, <1>2, <1>3, SetInduction
<1> QED BY <1>0, <1>1, <1>4, FS_Subset DEF SmallSets, K

\* What is not more in any place is not more in all.
LEMMA SumBelow ==
  ASSUME NEW S, IsFiniteSet(S), NEW f, NEW g,
         \A x \in S : f[x] \in Int /\ g[x] \in Int /\ f[x] <= g[x]
  PROVE  SumFunctionOnSet(f, S) <= SumFunctionOnSet(g, S)
<1>a. PICK it : Summing(it, f, S)
  BY SumOf
<1>b. PICK jt : Summing(jt, g, S)
  BY SumOf
<1>1. /\ it \in [SUBSET S -> Int] /\ jt \in [SUBSET S -> Int]
      /\ Adding(it, f, S) /\ Adding(jt, g, S)
      /\ SumFunctionOnSet(f, S) = it[S] /\ SumFunctionOnSet(g, S) = jt[S]
  BY <1>a, <1>b DEF Summing
<1> DEFINE K == {n \in Nat : \A s \in SmallSets(S, n) : it[s] <= jt[s]}
<1>0. \A s \in SUBSET S : IsFiniteSet(s) /\ Cardinality(s) \in Nat
  BY FS_Subset, FS_CardinalityType
<1>2. 0 \in K
  <2>1. \A s \in SmallSets(S, 0) : s = {} /\ s \in SUBSET S
    BY <1>0, FS_EmptySet DEF SmallSets
  <2> QED BY <1>1, <2>1 DEF Adding
<1>3. ASSUME NEW n \in Nat, n \in K PROVE n + 1 \in K
  <2> SUFFICES ASSUME NEW s \in SmallSets(S, n + 1) PROVE it[s] <= jt[s]
    OBVIOUS
  <2>0. CASE s = {}
    BY <1>1, <2>0 DEF Adding
  <2>1. CASE s # {}
    <3> DEFINE c == CHOOSE x \in s : TRUE
    <3>1. c \in s /\ s \in SUBSET S /\ Cardinality(s) <= n + 1
      BY <2>1 DEF SmallSets
    <3>2. it[s] = f[c] + it[s \ {c}] /\ jt[s] = g[c] + jt[s \ {c}]
      BY <1>1, <3>1 DEF Adding
    <3> HIDE DEF c
    <3>3. Cardinality(s \ {c}) = Cardinality(s) - 1
      BY <1>0, <3>1, FS_RemoveElement
    <3>4. s \ {c} \in SmallSets(S, n) /\ s \ {c} \in SUBSET S
      BY <1>0, <3>1, <3>3 DEF SmallSets
    <3>5. /\ it[s \ {c}] <= jt[s \ {c}] /\ it[s \ {c}] \in Int /\ jt[s \ {c}] \in Int
          /\ f[c] \in Int /\ g[c] \in Int /\ f[c] <= g[c]
      BY <1>1, <1>3, <3>1, <3>4
    <3>6. \A a, b, d, e \in Int : a <= b /\ d <= e => a + d <= b + e
      OBVIOUS
    <3> QED BY <3>2, <3>5, <3>6
  <2> QED BY <2>0, <2>1
<1> HIDE DEF K
<1>4. Cardinality(S) \in K
  BY <1>0, <1>2, <1>3, SetInduction
<1> QED BY <1>0, <1>1, <1>4, FS_Subset DEF SmallSets, K

\* A new element with 0 adds nothing.
LEMMA SumZero ==
  ASSUME NEW S, IsFiniteSet(S), NEW f, NEW g, NEW x, x \notin S,
         \A y \in S : f[y] \in Int /\ f[y] = g[y], g[x] = 0
  PROVE  SumFunctionOnSet(g, S \cup {x}) = SumFunctionOnSet(f, S)
<1>1. \A y \in S \cup {x} : g[y] \in Int
  OBVIOUS
<1>2. SumFunctionOnSet(g, S \cup {x}) = g[x] + SumFunctionOnSet(g, S)
  BY <1>1, SumAdd
<1>3. SumFunctionOnSet(f, S) = SumFunctionOnSet(g, S)
  BY SumSame
<1>4. SumFunctionOnSet(f, S) \in Int
  BY SumType
<1> QED BY <1>2, <1>3, <1>4

\* An element that had 0.
LEMMA SumFilled ==
  ASSUME NEW S, IsFiniteSet(S), NEW f, NEW g, NEW x \in S,
         \A y \in S : f[y] \in Int /\ g[y] \in Int, \A y \in S \ {x} : f[y] = g[y], f[x] = 0
  PROVE  SumFunctionOnSet(g, S) = SumFunctionOnSet(f, S) + g[x]
<1>1. SumFunctionOnSet(g, S) = SumFunctionOnSet(f, S) - f[x] + g[x]
  BY SumChange
<1>2. SumFunctionOnSet(f, S) \in Int
  BY SumType
<1> QED BY <1>1, <1>2

\* Only the elements that have something to add count.
LEMMA SumRestrict ==
  ASSUME NEW S, IsFiniteSet(S), NEW f, \A x \in S : f[x] \in Int,
         NEW T \in SUBSET S, \A x \in S \ T : f[x] = 0
  PROVE  SumFunctionOnSet(f, S) = SumFunctionOnSet(f, T)
<1> DEFINE K == {n \in Nat : \A s \in SmallSets(S, n) :
                   SumFunctionOnSet(f, s) = SumFunctionOnSet(f, s \cap T)}
<1>0. \A s \in SUBSET S : IsFiniteSet(s) /\ Cardinality(s) \in Nat
  BY FS_Subset, FS_CardinalityType
<1>1. 0 \in K
  <2>1. \A s \in SmallSets(S, 0) : s = {} /\ s \cap T = {}
    BY <1>0, FS_EmptySet DEF SmallSets
  <2> QED BY <2>1
<1>2. ASSUME NEW n \in Nat, n \in K PROVE n + 1 \in K
  <2> SUFFICES ASSUME NEW s \in SmallSets(S, n + 1), NEW c \in s
               PROVE  SumFunctionOnSet(f, s) = SumFunctionOnSet(f, s \cap T)
    <3>1. \A s \in SmallSets(S, n + 1) :
            s = {} => SumFunctionOnSet(f, s) = SumFunctionOnSet(f, s \cap T)
      <4>1. {} \cap T = {}
        OBVIOUS
      <4> QED BY <4>1
    <3> QED BY <3>1
  <2>1. s \in SUBSET S /\ Cardinality(s) <= n + 1
    BY DEF SmallSets
  <2>2. SumFunctionOnSet(f, s) = f[c] + SumFunctionOnSet(f, s \ {c})
    BY <1>0, <2>1, SumRemove
  <2>3. Cardinality(s \ {c}) = Cardinality(s) - 1
    BY <1>0, <2>1, FS_RemoveElement
  <2>4. s \ {c} \in SmallSets(S, n)
    BY <1>0, <2>1, <2>3 DEF SmallSets
  <2>5. SumFunctionOnSet(f, s \ {c}) = SumFunctionOnSet(f, (s \ {c}) \cap T)
    BY <1>2, <2>4
  <2>6. CASE c \in T
    <3>1. c \in s \cap T /\ (s \cap T) \ {c} = (s \ {c}) \cap T
      BY <2>6
    <3>2. IsFiniteSet(s \cap T) /\ \A x \in s \cap T : f[x] \in Int
      BY <1>0
    <3>3. SumFunctionOnSet(f, s \cap T) = f[c] + SumFunctionOnSet(f, (s \cap T) \ {c})
      BY <3>1, <3>2, SumRemove
    <3> QED BY <2>2, <2>5, <3>1, <3>3
  <2>7. CASE c \notin T
    <3>1. f[c] = 0 /\ (s \ {c}) \cap T = s \cap T
      BY <2>1, <2>7
    <3>2. IsFiniteSet(s \ {c}) /\ \A x \in s \ {c} : f[x] \in Int
      BY <1>0, <2>1
    <3>3. SumFunctionOnSet(f, s \ {c}) \in Int
      BY <3>2, SumType
    <3>4. \A a \in Int : 0 + a = a
      OBVIOUS
    <3>5. SumFunctionOnSet(f, s) = SumFunctionOnSet(f, s \ {c})
      BY <2>2, <3>1, <3>3, <3>4
    <3> QED BY <2>5, <3>1, <3>5
  <2> QED BY <2>6, <2>7
<1> HIDE DEF K
<1>3. Cardinality(S) \in K
  BY <1>0, <1>1, <1>2, SetInduction
<1>4. S \in SmallSets(S, Cardinality(S)) /\ S \cap T = T
  BY <1>0 DEF SmallSets
<1> QED BY <1>3, <1>4 DEF K

\* As many as there are, each counted once.
LEMMA SumOnes ==
  ASSUME NEW S, IsFiniteSet(S), NEW f, \A x \in S : f[x] = 1
  PROVE  SumFunctionOnSet(f, S) = Cardinality(S)
<1> DEFINE K == {n \in Nat : \A s \in SmallSets(S, n) : SumFunctionOnSet(f, s) = Cardinality(s)}
<1>0. \A s \in SUBSET S : IsFiniteSet(s) /\ Cardinality(s) \in Nat
  BY FS_Subset, FS_CardinalityType
<1>1. 0 \in K
  <2>1. \A s \in SmallSets(S, 0) : s = {}
    BY <1>0, FS_EmptySet DEF SmallSets
  <2> QED BY <2>1, SumEmpty, FS_EmptySet
<1>2. ASSUME NEW n \in Nat, n \in K PROVE n + 1 \in K
  <2> SUFFICES ASSUME NEW s \in SmallSets(S, n + 1), NEW c \in s
               PROVE  SumFunctionOnSet(f, s) = Cardinality(s)
    <3>1. \A s \in SmallSets(S, n + 1) : s = {} => SumFunctionOnSet(f, s) = Cardinality(s)
      BY SumEmpty, FS_EmptySet
    <3> QED BY <3>1
  <2>1. s \in SUBSET S /\ Cardinality(s) <= n + 1
    BY DEF SmallSets
  <2>2. SumFunctionOnSet(f, s) = f[c] + SumFunctionOnSet(f, s \ {c})
    <3>1. IsFiniteSet(s) /\ \A x \in s : f[x] \in Int
      BY <1>0, <2>1
    <3> QED BY <3>1, SumRemove
  <2>3. Cardinality(s \ {c}) = Cardinality(s) - 1
    BY <1>0, <2>1, FS_RemoveElement
  <2>4. s \ {c} \in SmallSets(S, n)
    BY <1>0, <2>1, <2>3 DEF SmallSets
  <2>5. SumFunctionOnSet(f, s \ {c}) = Cardinality(s \ {c}) /\ f[c] = 1 /\ Cardinality(s) \in Nat
    BY <1>0, <1>2, <2>1, <2>4
  <2> QED BY <2>2, <2>3, <2>5
<1> HIDE DEF K
<1>3. Cardinality(S) \in K
  BY <1>0, <1>1, <1>2, SetInduction
<1>4. S \in SmallSets(S, Cardinality(S))
  BY <1>0 DEF SmallSets
<1> QED BY <1>3, <1>4 DEF K

\* One value gets more.
LEMMA SumMore ==
  ASSUME NEW S, IsFiniteSet(S), NEW f, NEW g, NEW x \in S, NEW a, a \in Int,
         \A y \in S : f[y] \in Int /\ g[y] \in Int, \A y \in S \ {x} : g[y] = f[y],
         g[x] = a + f[x]
  PROVE  SumFunctionOnSet(g, S) = a + SumFunctionOnSet(f, S)
<1>0. IsFiniteSet(S \ {x})
  BY FS_Subset
<1>1. /\ SumFunctionOnSet(f, S) = f[x] + SumFunctionOnSet(f, S \ {x})
      /\ SumFunctionOnSet(g, S) = g[x] + SumFunctionOnSet(g, S \ {x})
  BY SumRemove
<1>2. SumFunctionOnSet(g, S \ {x}) = SumFunctionOnSet(f, S \ {x})
  BY <1>0, SumSame
<1>3. SumFunctionOnSet(f, S \ {x}) \in Int /\ f[x] \in Int
  BY <1>0, SumType
<1>4. \A b, d \in Int : (a + d) + b = a + (d + b)
  OBVIOUS
<1> QED BY <1>1, <1>2, <1>3, <1>4

\* G are the groups of S, by what h says of each element.
Grouped(S, h, G, in) ==
  /\ G = {h[x] : x \in S}
  /\ \A g \in G : in[g] = {x \in S : h[x] = g}

\* Added up group by group, it is the same sum.
LEMMA SumGroups ==
  ASSUME NEW S, IsFiniteSet(S), NEW f, \A x \in S : f[x] \in Int,
         NEW h, NEW G, NEW in, Grouped(S, h, G, in),
         NEW t, \A g \in G : t[g] = SumFunctionOnSet(f, in[g])
  PROVE  SumFunctionOnSet(t, G) = SumFunctionOnSet(f, S) /\ IsFiniteSet(G)
<1> USE DEF Grouped
<1> DEFINE In(s, g) == {x \in s : h[x] = g}
           part(s) == [g \in G |-> SumFunctionOnSet(f, In(s, g))]
           K == {n \in Nat : \A s \in SmallSets(S, n) :
                   SumFunctionOnSet(part(s), G) = SumFunctionOnSet(f, s)}
<1>0. \A s \in SUBSET S : IsFiniteSet(s) /\ Cardinality(s) \in Nat
  BY FS_Subset, FS_CardinalityType
<1>a. IsFiniteSet(G)
  <2> DEFINE e == [x \in S |-> h[x]]
  <2>1. e \in Surjection(S, G)
    BY DEF Surjection
  <2> HIDE DEF e
  <2> QED BY <2>1, FS_Surjection
<1>b. \A s \in SUBSET S : \A g : In(s, g) \in SUBSET S
  OBVIOUS
<1>c. \A s \in SUBSET S : SumFunctionOnSet(f, s) \in Int
  BY <1>0, SumType
<1>d. \A s \in SUBSET S : \A c \in s :
        SumFunctionOnSet(f, s) = f[c] + SumFunctionOnSet(f, s \ {c})
  <2> SUFFICES ASSUME NEW s \in SUBSET S, NEW c \in s
               PROVE  SumFunctionOnSet(f, s) = f[c] + SumFunctionOnSet(f, s \ {c})
    OBVIOUS
  <2>1. IsFiniteSet(s) /\ \A x \in s : f[x] \in Int
    BY <1>0
  <2> QED BY <2>1, SumRemove
<1>1. 0 \in K
  <2>1. SumFunctionOnSet(part({}), G) = 0
    <3>1. \A g \in G : part({})[g] = 0
      <4>1. \A g : In({}, g) = {}
        OBVIOUS
      <4> QED BY <4>1, SumEmpty
    <3> HIDE DEF part
    <3>2. SumFunctionOnSet(part({}), G) = SumFunctionOnSet(part({}), {})
      <4>1. {} \in SUBSET G /\ (\A g \in G : part({})[g] \in Int) /\ \A g \in G \ {} : part({})[g] = 0
        BY <3>1
      <4> QED BY <1>a, <4>1, SumRestrict
    <3> QED BY <3>2, SumEmpty
  <2>2. \A s \in SmallSets(S, 0) : s = {}
    BY <1>0, FS_EmptySet DEF SmallSets
  <2> HIDE DEF part
  <2> QED BY <2>1, <2>2, SumEmpty
<1>2. ASSUME NEW n \in Nat, n \in K PROVE n + 1 \in K
  <2> SUFFICES ASSUME NEW s \in SmallSets(S, n + 1)
               PROVE  SumFunctionOnSet(part(s), G) = SumFunctionOnSet(f, s)
    OBVIOUS
  <2>0. CASE s = {}
    <3>1. {} \in SmallSets(S, n)
      BY FS_EmptySet DEF SmallSets
    <3> HIDE DEF part
    <3> QED BY <1>2, <2>0, <3>1
  <2>1. ASSUME NEW c \in s PROVE SumFunctionOnSet(part(s), G) = SumFunctionOnSet(f, s)
    <3> DEFINE r == s \ {c}
    <3>1. s \in SUBSET S /\ Cardinality(s) <= n + 1 /\ r \in SUBSET S /\ c \in S
      BY DEF SmallSets
    <3>2. SumFunctionOnSet(f, s) = f[c] + SumFunctionOnSet(f, r)
      BY <1>d, <3>1
    <3>3. Cardinality(r) = Cardinality(s) - 1
      BY <1>0, <3>1, FS_RemoveElement
    <3>4. r \in SmallSets(S, n)
      BY <1>0, <3>1, <3>3 DEF SmallSets
    <3>5. SumFunctionOnSet(part(r), G) = SumFunctionOnSet(f, r)
      <4> HIDE DEF part, r
      <4> QED BY <1>2, <3>4
    <3>6. part(s)[h[c]] = f[c] + part(r)[h[c]] /\ h[c] \in G
      <4>1. /\ c \in In(s, h[c]) /\ In(s, h[c]) \ {c} = In(r, h[c]) /\ h[c] \in G
            /\ In(s, h[c]) \in SUBSET S
        BY <3>1
      <4> HIDE DEF In, r
      <4>3. SumFunctionOnSet(f, In(s, h[c])) = f[c] + SumFunctionOnSet(f, In(r, h[c]))
        BY <1>d, <4>1
      <4> QED BY <4>1, <4>3
    <3>7. \A g \in G \ {h[c]} : part(s)[g] = part(r)[g]
      <4>1. \A g \in G \ {h[c]} : In(s, g) = In(r, g)
        OBVIOUS
      <4> HIDE DEF In, r
      <4> QED BY <4>1
    <3>8. \A g \in G : part(s)[g] \in Int /\ part(r)[g] \in Int
      <4> HIDE DEF In, r
      <4> QED BY <1>b, <1>c, <3>1
    <3> HIDE DEF part, r
    <3>9. SumFunctionOnSet(part(s), G) = f[c] + SumFunctionOnSet(part(r), G)
      <4>1. f[c] \in Int
        BY <3>1
      <4> DEFINE p == part(s)
                 q == part(r)
                 d == h[c]
                 m == f[c]
      <4>2. /\ m \in Int /\ d \in G /\ p[d] = m + q[d] /\ (\A y \in G : q[y] \in Int /\ p[y] \in Int)
            /\ \A y \in G \ {d} : p[y] = q[y]
        BY <3>6, <3>7, <3>8, <4>1
      <4> HIDE DEF p, q, d, m
      <4>3. SumFunctionOnSet(p, G) = m + SumFunctionOnSet(q, G)
        BY ONLY <1>a, <4>2, SumMore
      <4> QED BY <4>3 DEF p, q, m
    <3> QED BY <3>2, <3>5, <3>9
  <2> QED BY <2>0, <2>1
<1> HIDE DEF K
<1>3. Cardinality(S) \in K
  BY <1>0, <1>1, <1>2, SetInduction
<1>4. S \in SmallSets(S, Cardinality(S))
  BY <1>0 DEF SmallSets
<1>5. SumFunctionOnSet(part(S), G) = SumFunctionOnSet(f, S)
  <2> HIDE DEF part
  <2> QED BY <1>3, <1>4 DEF K
<1>6. \A g \in G : t[g] \in Int /\ t[g] = part(S)[g]
  <2>1. \A g \in G : part(S)[g] = SumFunctionOnSet(f, In(S, g)) /\ SumFunctionOnSet(f, In(S, g)) \in Int
    <3> HIDE DEF In
    <3> QED BY <1>b, <1>c
  <2>2. \A g \in G : in[g] = In(S, g)
    OBVIOUS
  <2> HIDE DEF part, In
  <2> QED BY <2>1, <2>2
<1>7. SumFunctionOnSet(t, G) = SumFunctionOnSet(part(S), G)
  <2> HIDE DEF part
  <2> QED BY <1>a, <1>6, SumSame
<1> QED BY <1>a, <1>5, <1>7

\* Counted group by group, they are as many.
LEMMA CountGroups ==
  ASSUME NEW S, IsFiniteSet(S), NEW T \in SUBSET S,
         NEW h, NEW G, NEW in, Grouped(S, h, G, in),
         NEW t, \A g \in G : t[g] = Cardinality(in[g] \cap T)
  PROVE  SumFunctionOnSet(t, G) = Cardinality(T)
<1> DEFINE f == [x \in S |-> IF x \in T THEN 1 ELSE 0]
<1>0. \A s \in SUBSET S : IsFiniteSet(s)
  BY FS_Subset
<1>1. \A s \in SUBSET S : SumFunctionOnSet(f, s) = Cardinality(s \cap T)
  <2> SUFFICES ASSUME NEW s \in SUBSET S PROVE SumFunctionOnSet(f, s) = Cardinality(s \cap T)
    OBVIOUS
  <2>1. /\ \A x \in s : f[x] \in Int
        /\ \A x \in s \ (s \cap T) : f[x] = 0
        /\ \A x \in s \cap T : f[x] = 1
        /\ s \cap T \in SUBSET s /\ s \cap T \in SUBSET S
    OBVIOUS
  <2> HIDE DEF f
  <2>2. SumFunctionOnSet(f, s) = SumFunctionOnSet(f, s \cap T)
    BY <1>0, <2>1, SumRestrict
  <2> QED BY <1>0, <2>1, <2>2, SumOnes
<1>2. \A x \in S : f[x] \in Int
  OBVIOUS
<1> HIDE DEF f
<1>3. \A g \in G : t[g] = SumFunctionOnSet(f, in[g])
  <2>1. \A g \in G : in[g] \in SUBSET S
    BY DEF Grouped
  <2> QED BY <1>1, <2>1
<1>4. SumFunctionOnSet(t, G) = SumFunctionOnSet(f, S)
  BY <1>2, <1>3, SumGroups
<1>5. S \cap T = T
  OBVIOUS
<1> QED BY <1>1, <1>4, <1>5

\* Sums over sequences.
LEMMA SumNone == SumFunction(<<>>) = 0
<1>1. DOMAIN <<>> = {}
  OBVIOUS
<1> QED BY <1>1, SumEmpty DEF SumFunction

LEMMA SumAppend ==
  ASSUME NEW s \in Seq(Int), NEW x \in Int
  PROVE  SumFunction(Append(s, x)) = SumFunction(s) + x /\ SumFunction(s) \in Int
<1> DEFINE n == Len(s)
           r == Append(s, x)
<1>1. /\ n \in Nat /\ DOMAIN s = 1..n /\ DOMAIN r = 1..(n + 1)
      /\ \A i \in 1..n : r[i] = s[i] /\ s[i] \in Int
      /\ r[n + 1] = x
  BY LenProperties, AppendProperties
<1> HIDE DEF n, r
<1>2. IsFiniteSet(1..n) /\ IsFiniteSet(1..(n + 1)) /\ (1..(n + 1)) \ {n + 1} = 1..n /\ n + 1 \in 1..(n + 1)
  <2>1. n \in Int /\ n + 1 \in Int /\ 1 \in Int
    BY <1>1
  <2>2. IsFiniteSet(1..n) /\ IsFiniteSet(1..(n + 1))
    BY <2>1, FS_Interval
  <2> QED BY <1>1, <2>2
<1>3. \A i \in 1..(n + 1) : r[i] \in Int
  BY <1>1
<1>4. SumFunctionOnSet(r, 1..(n + 1)) = r[n + 1] + SumFunctionOnSet(r, (1..(n + 1)) \ {n + 1})
  BY <1>2, <1>3, SumRemove
<1>5. SumFunctionOnSet(r, 1..n) = SumFunctionOnSet(s, 1..n) /\ SumFunctionOnSet(s, 1..n) \in Int
  BY <1>1, <1>2, SumSame, SumType
<1>6. /\ SumFunction(r) = SumFunctionOnSet(r, 1..(n + 1))
      /\ SumFunction(s) = SumFunctionOnSet(s, 1..n)
  BY <1>1 DEF SumFunction
<1>7. \A a, b \in Int : a + b = b + a
  OBVIOUS
<1> QED BY <1>1, <1>2, <1>4, <1>5, <1>6, <1>7 DEF r

-----------------------------------------------------------------------------
(* Sequences put together.                                                 *)

Chain(f, s, n) == f = [i \in 1..n |-> IF i = 1 THEN s[i] ELSE f[i - 1] \o s[i]]

LEMMA FlattenChain ==
  ASSUME NEW s, NEW n \in Nat, n > 0, Len(s) = n, NEW f, Chain(f, s, n)
  PROVE  FlattenSeq(s) = f[n]
<1> DEFINE g == CHOOSE h : Chain(h, s, n)
           K == {k \in Nat : k + 1 <= n => g[k + 1] = f[k + 1]}
<1>1. FlattenSeq(s) = g[n]
  BY DEF FlattenSeq, Chain
<1>2. Chain(g, s, n)
  OBVIOUS
<1> HIDE DEF g
<1>3. 0 \in K
  BY <1>2 DEF Chain
<1>4. ASSUME NEW k \in Nat, k \in K PROVE k + 1 \in K
  <2> SUFFICES ASSUME k + 2 <= n PROVE g[k + 2] = f[k + 2]
    OBVIOUS
  <2>1. g[k + 1] = f[k + 1]
    BY <1>4
  <2>2. k + 2 \in 1..n /\ k + 2 # 1 /\ (k + 2) - 1 = k + 1
    OBVIOUS
  <2>3. g[k + 2] = g[k + 1] \o s[k + 2]
    BY <1>2, <2>2 DEF Chain
  <2>4. f[k + 2] = f[k + 1] \o s[k + 2]
    BY <2>2 DEF Chain
  <2> QED BY <2>1, <2>3, <2>4
<1> HIDE DEF K
<1>5. n - 1 \in K
  BY <1>3, <1>4, SetInduction
<1> QED BY <1>1, <1>5 DEF K

LEMMA FlattenEmpty == FlattenSeq(<<>>) = <<>>
  BY DEF FlattenSeq

LEMMA ChainExists ==
  ASSUME NEW U
  PROVE  \A s \in Seq(Seq(U)) : \E f : Chain(f, s, Len(s)) /\ f \in [1..Len(s) -> Seq(U)]
<1> DEFINE S == {s \in Seq(Seq(U)) : \E f : Chain(f, s, Len(s)) /\ f \in [1..Len(s) -> Seq(U)]}
<1>1. <<>> \in S
  <2> DEFINE f == [i \in 1..0 |-> <<>>]
  <2>1. Chain(f, <<>>, 0) /\ f \in [1..0 -> Seq(U)]
    BY DEF Chain
  <2> HIDE DEF f
  <2> QED BY <2>1, EmptySeq
<1>2. ASSUME NEW s \in Seq(Seq(U)), NEW x \in Seq(U), s \in S PROVE Append(s, x) \in S
  <2>1. PICK f : Chain(f, s, Len(s)) /\ f \in [1..Len(s) -> Seq(U)]
    BY <1>2
  <2> DEFINE n == Len(s)
             g == [i \in 1..(n + 1) |-> IF i <= n THEN f[i] ELSE IF n = 0 THEN x ELSE f[n] \o x]
  <2>2. /\ n \in Nat /\ Append(s, x) \in Seq(Seq(U)) /\ Len(Append(s, x)) = n + 1
        /\ \A i \in 1..n : Append(s, x)[i] = s[i]
        /\ Append(s, x)[n + 1] = x
    BY LenProperties, AppendProperties
  <2>3. g \in [1..(n + 1) -> Seq(U)]
    <3>1. n # 0 => f[n] \o x \in Seq(U)
      <4>1. n # 0 => f[n] \in Seq(U)
        <5>1. n \in Nat /\ f \in [1..n -> Seq(U)]
          BY <2>1, <2>2
        <5> HIDE DEF n, g
        <5> QED BY <5>1
      <4> QED BY <4>1, ConcatProperties
    <3> QED BY <2>1, <2>2, <3>1
  <2>4. ASSUME NEW i \in 1..(n + 1) PROVE g[i] = IF i = 1 THEN Append(s, x)[i] ELSE g[i - 1] \o Append(s, x)[i]
    <3>1. CASE i <= n
      <4>1. i \in 1..n /\ (i # 1 => i - 1 \in 1..(n + 1) /\ i - 1 <= n)
        BY <2>2, <3>1
      <4>2. g[i] = f[i] /\ (i # 1 => g[i - 1] = f[i - 1])
        BY <3>1, <4>1
      <4>3. f[i] = IF i = 1 THEN s[i] ELSE f[i - 1] \o s[i]
        BY <2>1, <4>1 DEF Chain
      <4> HIDE DEF g, n
      <4> QED BY <2>2, <4>1, <4>2, <4>3
    <3>2. CASE i = n + 1
      <4>1. i # 1 => n # 0 /\ i - 1 = n /\ n \in 1..(n + 1)
        BY <2>2, <3>2
      <4>2. i = 1 => n = 0
        BY <2>2, <3>2
      <4> QED BY <2>2, <3>2, <4>1, <4>2
    <3> QED BY <2>2, <3>1, <3>2
  <2>5. Chain(g, Append(s, x), n + 1)
    BY <2>4 DEF Chain
  <2> HIDE DEF g, n
  <2> QED BY <2>2, <2>3, <2>5
<1> HIDE DEF S
<1>3. Seq(Seq(U)) \subseteq S
  BY <1>1, <1>2, SeqInduction
<1> QED BY <1>3 DEF S

LEMMA FlattenType ==
  ASSUME NEW U, NEW s \in Seq(Seq(U))
  PROVE  FlattenSeq(s) \in Seq(U)
<1>1. PICK f : Chain(f, s, Len(s)) /\ f \in [1..Len(s) -> Seq(U)]
  BY ChainExists
<1>2. Len(s) \in Nat
  BY LenProperties
<1>3. CASE Len(s) = 0
  BY <1>3, EmptySeq, FlattenEmpty
<1>4. CASE Len(s) > 0
  <2> DEFINE n == Len(s)
  <2>1. n \in Nat /\ n > 0 /\ Len(s) = n /\ Chain(f, s, n) /\ f \in [1..n -> Seq(U)]
    BY <1>1, <1>2, <1>4
  <2> HIDE DEF n
  <2>2. FlattenSeq(s) = f[n]
    BY <2>1, FlattenChain
  <2>3. n \in 1..n
    BY <2>1
  <2> QED BY <2>1, <2>2, <2>3
<1> QED BY <1>2, <1>3, <1>4

LEMMA FlattenAppend ==
  ASSUME NEW U, NEW s \in Seq(Seq(U)), NEW x \in Seq(U)
  PROVE  FlattenSeq(Append(s, x)) = FlattenSeq(s) \o x
<1> DEFINE n == Len(s)
           r == Append(s, x)
<1>1. /\ n \in Nat /\ r \in Seq(Seq(U)) /\ Len(r) = n + 1
      /\ \A i \in 1..n : r[i] = s[i]
      /\ r[n + 1] = x
  BY LenProperties, AppendProperties
<1>e. n = 0 => s = <<>>
  BY EmptySeq
<1> HIDE DEF n, r
<1>2. PICK g : Chain(g, r, n + 1) /\ g \in [1..(n + 1) -> Seq(U)]
  BY <1>1, ChainExists
<1>3. FlattenSeq(r) = g[n + 1]
  BY <1>1, <1>2, FlattenChain
<1>4. CASE n = 0
  <2>1. g[n + 1] = x
    BY <1>1, <1>2, <1>4 DEF Chain
  <2> QED BY <1>3, <1>4, <1>e, <2>1, FlattenEmpty, ConcatEmptySeq DEF r
<1>5. CASE n # 0
  <2> DEFINE f == [i \in 1..n |-> g[i]]
  <2>1. ASSUME NEW i \in 1..n PROVE f[i] = IF i = 1 THEN s[i] ELSE f[i - 1] \o s[i]
    <3>1. i \in 1..(n + 1) /\ r[i] = s[i] /\ (i # 1 => i - 1 \in 1..n)
      BY <1>1
    <3>2. g[i] = IF i = 1 THEN r[i] ELSE g[i - 1] \o r[i]
      BY <1>2, <3>1 DEF Chain
    <3> QED BY <3>1, <3>2
  <2>2. Chain(f, s, n)
    BY <2>1 DEF Chain
  <2>3. FlattenSeq(s) = f[n]
    BY <1>1, <1>5, <2>2, FlattenChain DEF n
  <2>4. f[n] = g[n]
    BY <1>1, <1>5
  <2> HIDE DEF f
  <2>5. g[n + 1] = g[n] \o x
    <3>1. n + 1 \in 1..(n + 1) /\ n + 1 # 1 /\ (n + 1) - 1 = n
      BY <1>1, <1>5
    <3>2. g[n + 1] = g[(n + 1) - 1] \o r[n + 1]
      BY <1>2, <3>1 DEF Chain
    <3> QED BY <1>1, <3>1, <3>2
  <2> QED BY <1>3, <2>3, <2>4, <2>5 DEF r
<1> QED BY <1>4, <1>5

\* Cut into slices that follow one another, a sequence comes back as it was.
Sliced(parts, cut, w, n) ==
  /\ cut \in [0..n -> 0..Len(w)]
  /\ \A i \in 1..n : cut[i - 1] <= cut[i] /\ parts[i] = SubSeq(w, cut[i - 1] + 1, cut[i])

LEMMA FlattenSlices ==
  ASSUME NEW S, NEW w \in Seq(S), NEW n \in Nat, n > 0, NEW parts, Len(parts) = n,
         NEW cut, Sliced(parts, cut, w, n)
  PROVE  FlattenSeq(parts) = SubSeq(w, cut[0] + 1, cut[n]) /\ cut[0] <= cut[n]
<1> DEFINE K == {k \in Nat : k <= n => cut[0] <= cut[k]}
           f == [i \in 1..n |-> SubSeq(w, cut[0] + 1, cut[i])]
<1>0. Len(w) \in Nat /\ \A i \in 0..n : cut[i] \in 0..Len(w)
  BY LenProperties DEF Sliced
<1>1. 0 \in K
  BY <1>0
<1>2. ASSUME NEW k \in Nat, k \in K PROVE k + 1 \in K
  <2> SUFFICES ASSUME k + 1 <= n PROVE cut[0] <= cut[k + 1]
    OBVIOUS
  <2>1. cut[k] <= cut[k + 1] /\ cut[0] <= cut[k]
    <3>1. k + 1 \in 1..n /\ (k + 1) - 1 = k
      OBVIOUS
    <3> QED BY <1>2, <3>1 DEF Sliced
  <2> QED BY <1>0, <2>1
<1> HIDE DEF K
<1>3. \A i \in 0..n : cut[0] <= cut[i]
  <2>1. Nat \subseteq K
    BY <1>1, <1>2, SetInduction
  <2> QED BY <2>1 DEF K
<1>4. ASSUME NEW i \in 1..n
      PROVE  f[i] = IF i = 1 THEN parts[i] ELSE f[i - 1] \o parts[i]
  <2>1. CASE i = 1
    BY <2>1, SMTT(30) DEF Sliced
  <2>2. CASE i # 1
    <3>1. /\ i - 1 \in 1..n /\ cut[i - 1] <= cut[i] /\ parts[i] = SubSeq(w, cut[i - 1] + 1, cut[i])
          /\ cut[i - 1] \in 0..Len(w) /\ cut[i] \in 0..Len(w) /\ cut[0] \in 0..Len(w)
          /\ cut[0] <= cut[i - 1]
      BY <1>0, <1>3, <2>2, SMTT(30) DEF Sliced
    <3>2. /\ cut[0] + 1 \in 1..Len(w) + 1 /\ cut[i - 1] \in (cut[0] + 1) - 1..Len(w)
          /\ cut[i] \in cut[i - 1]..Len(w)
      BY <1>0, <3>1
    <3>3. SubSeq(w, cut[0] + 1, cut[i - 1]) \o SubSeq(w, cut[i - 1] + 1, cut[i])
            = SubSeq(w, cut[0] + 1, cut[i])
      BY <3>2, ConcatAdjacentSubSeq
    <3> QED BY <2>2, <3>1, <3>3
  <2> QED BY <2>1, <2>2
<1>5. Chain(f, parts, n)
  BY <1>4 DEF Chain
<1>6. f[n] = SubSeq(w, cut[0] + 1, cut[n])
  <2>1. n \in 1..n
    OBVIOUS
  <2> QED BY <2>1
<1> HIDE DEF f
<1> QED BY <1>3, <1>5, <1>6, FlattenChain

LEMMA SuffixSlice ==
  ASSUME NEW S, NEW w \in Seq(S), NEW a \in 0..Len(w)
  PROVE  IsSuffix(SubSeq(w, a + 1, Len(w)), w)
<1> DEFINE s == SubSeq(w, a + 1, Len(w))
           n == Len(w) - a
<1>0. Len(w) \in Nat /\ \A i \in 1..Len(w) : w[i] \in S
  BY LenProperties, ElementOfSeq
<1>1. s \in Seq(S) /\ Len(s) = n /\ \A i \in 1..n : s[i] = w[a + i]
  BY <1>0, SubSeqProperties
<1> HIDE DEF s
<1>2. /\ Reverse(w) \in Seq(S) /\ Len(Reverse(w)) = Len(w)
      /\ \A i \in 1..Len(w) : Reverse(w)[i] = w[Len(w) - i + 1]
  BY <1>0 DEF Reverse
<1>3. /\ Reverse(s) \in Seq(S) /\ Len(Reverse(s)) = n
      /\ \A i \in 1..n : Reverse(s)[i] = w[Len(w) - i + 1]
  <2>1. \A i \in 1..n : Reverse(s)[i] = s[n - i + 1] /\ n - i + 1 \in 1..n
    BY <1>0, <1>1 DEF Reverse
  <2>2. \A i \in 1..n : s[n - i + 1] = w[a + (n - i + 1)] /\ a + (n - i + 1) = Len(w) - i + 1
    BY <1>0, <1>1, <2>1
  <2> QED BY <1>0, <1>1, <2>1, <2>2 DEF Reverse
<1>4. SubSeq(Reverse(s), 1, n) = Reverse(s)
  BY <1>3, SubSeqFull
<1>5. /\ SubSeq(Reverse(w), 1, n) \in Seq(S) /\ Len(SubSeq(Reverse(w), 1, n)) = n
      /\ \A i \in 1..n : SubSeq(Reverse(w), 1, n)[i] = w[Len(w) - i + 1]
  BY <1>0, <1>2, SubSeqProperties
<1>6. SubSeq(Reverse(w), 1, n) = Reverse(s)
  BY <1>3, <1>5, SeqEqual
<1>7. n <= Len(w)
  BY <1>0
<1> QED BY <1>2, <1>3, <1>4, <1>6, <1>7 DEF IsSuffix, IsPrefix, s
=============================================================================
