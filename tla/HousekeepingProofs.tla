------------------------- MODULE HousekeepingProofs -------------------------
(***************************************************************************)
(* Theorems about Housekeeping, one invariant a part.                      *)
(*                                                                         *)
(* Working directories, for any number of tasks, reviews and starts.  That *)
(* the directory of a task at work is there is not inductive: WorkInv adds *)
(* that with a directory all above it exist (Closed), so that a parent     *)
(* without children is above no task; that only prefixes of tasks' paths   *)
(* are taken for parents; and that an old directory at work is in the      *)
(* snapshot the cleanup goes by.                                           *)
(*                                                                         *)
(* The log, for any sizes of messages and files.  LogInv says that the     *)
(* files, also those that are not there, are slices of what was written,   *)
(* each beginning where the one before it ends and the last ending with it *)
(* (Joined), and what each call of a rotation finds: its file closed, the  *)
(* name free that the next is to take (LogStands).                         *)
(*                                                                         *)
(* An archive, for any entries and limits.  ZipInv counts the file that is *)
(* being copied apart (ZipCounts), so that removing it gives back what it  *)
(* took, and says of every other that it is what the last entry of its     *)
(* name has (ZipWhole).                                                    *)
(*                                                                         *)
(* A call of a context tool, for any repository and limits.  LookupInv is  *)
(* little more than the property: the work is in the folds that list,      *)
(* search and halve, each with an invariant of its own (ListStands,        *)
(* SearchStands, RangeStands).                                             *)
(***************************************************************************)
EXTENDS Housekeeping, FoldFacts

-----------------------------------------------------------------------------
(* The working directories.                                                *)

Prefix(x, n) == SubSeq(x, 1, n)

\* A directory above a task.
IsParent(d) == \E x \in Tasks, n \in Nat : n < Len(x) /\ d = Prefix(x, n)

Closed == \A x \in Tasks, m \in Nat, n \in Nat :
  m <= n /\ n <= Len(x) /\ 0 < m /\ Prefix(x, n) \in dirs => Prefix(x, m) \in dirs

OwnFollows == \A x \in Tasks :
  /\ x \in dirs => step[x] \in {"working", "done", "dead"}
  /\ step[x] = "working" => x \in dirs
  /\ step[x] \in AtWork => x \in active
  /\ pass = "tasks" /\ step[x] = "working" /\ x \in old => x \in snapshot

PassFollows ==
  /\ \A d \in emptied : IsParent(d)
  /\ pass = "parents" => at = <<>> \/ IsParent(at)
  /\ up = "down" => starts < MaxStarts

WorkInv == TypeOK /\ Closed /\ OwnFollows /\ PassFollows

-----------------------------------------------------------------------------
(* Paths.                                                                  *)

\* A prefix: its length, its own prefixes, what is above it, and that it is
\* neither a task nor a review if it is shorter than a task.
LEMMA PrefixFacts ==
  ASSUME NEW x \in Tasks, NEW n \in Nat, n <= Len(x)
  PROVE  /\ Prefix(x, n) \in Seq(STRING) /\ Len(Prefix(x, n)) = n
         /\ n > 0 => Above(Prefix(x, n)) = Prefix(x, n - 1) /\ Prefix(x, n) # <<>>
         /\ n = 0 => Prefix(x, n) = <<>> /\ Above(Prefix(x, n)) = <<>>
         /\ Prefix(x, n) \notin Reviews
         /\ \A m \in Nat : m <= n => Prefix(Prefix(x, n), m) = Prefix(x, m)
<1>1. x \in Seq(STRING) /\ Len(x) \in Nat
  BY WorkDirsAssumption, LenProperties
<1>2. \A i \in 1..n : x[i] \in STRING
  BY <1>1, ElementOfSeq
<1>3. /\ Prefix(x, n) \in Seq(STRING) /\ Len(Prefix(x, n)) = n
      /\ \A i \in 1..n : Prefix(x, n)[i] = x[i]
  BY <1>1, <1>2, SubSeqProperties DEF Prefix
<1>4. ASSUME NEW m \in Nat, m <= n
      PROVE  Prefix(Prefix(x, n), m) = Prefix(x, m)
  <2>1. \A i \in 1..m : Prefix(x, n)[i] \in STRING /\ x[i] \in STRING /\ Prefix(x, n)[i] = x[i]
    BY <1>2, <1>3, <1>4
  <2>2. /\ Prefix(Prefix(x, n), m) \in Seq(STRING) /\ Len(Prefix(Prefix(x, n), m)) = m
        /\ \A i \in 1..m : Prefix(Prefix(x, n), m)[i] = Prefix(x, n)[i]
    BY <2>1, <1>4, SubSeqProperties DEF Prefix
  <2>3. /\ Prefix(x, m) \in Seq(STRING) /\ Len(Prefix(x, m)) = m
        /\ \A i \in 1..m : Prefix(x, m)[i] = x[i]
    BY <2>1, <1>4, SubSeqProperties DEF Prefix
  <2> QED BY <2>1, <2>2, <2>3, SeqEqual
<1>5. n > 0 => Above(Prefix(x, n)) = Prefix(x, n - 1) /\ Prefix(x, n) # <<>>
  BY <1>3, <1>4, EmptySeq DEF Above, Prefix
<1>6. n = 0 => Prefix(x, n) = <<>> /\ Above(Prefix(x, n)) = <<>>
  BY <1>3, EmptySeq, SubSeqEmpty DEF Above
<1>7. Prefix(x, n) \notin Reviews
  BY <1>1, WorkDirsAssumption DEF Prefix
<1> QED BY <1>3, <1>4, <1>5, <1>6, <1>7

\* A task is the longest prefix of itself, and of no other.
LEMMA TaskPath ==
  ASSUME NEW x \in Tasks
  PROVE  /\ Len(x) \in Nat /\ Len(x) > 1 /\ Prefix(x, Len(x)) = x
         /\ x \notin Reviews
         /\ \A y \in Tasks, n \in Nat : n < Len(y) => Prefix(y, n) # x
<1>1. x \in Seq(STRING) /\ Len(x) \in Nat /\ Len(x) > 1
  BY WorkDirsAssumption, LenProperties
<1>2. Prefix(x, Len(x)) = x
  BY <1>1, SubSeqFull DEF Prefix
<1>3. x \notin Reviews
  BY <1>1, <1>2, PrefixFacts
<1>4. ASSUME NEW y \in Tasks, NEW n \in Nat, n < Len(y) PROVE Prefix(y, n) # x
  <2>1. Len(y) = Len(x)
    BY WorkDirsAssumption
  <2>2. Len(Prefix(y, n)) = n
    BY <1>1, <1>4, <2>1, PrefixFacts
  <2> QED BY <1>1, <1>4, <2>1, <2>2
<1> QED BY <1>1, <1>2, <1>3, <1>4

\* Which prefixes are equal.
LEMMA SamePrefix ==
  ASSUME NEW x \in Tasks, NEW y \in Tasks, NEW n \in Nat, NEW k \in Nat,
         n <= Len(x), k <= Len(y), Prefix(x, n) = Prefix(y, k)
  PROVE  n = k /\ \A m \in Nat : m <= n => Prefix(x, m) = Prefix(y, m)
<1>1. n = k
  BY PrefixFacts
<1>2. ASSUME NEW m \in Nat, m <= n PROVE Prefix(x, m) = Prefix(y, m)
  <2>1. Prefix(Prefix(x, n), m) = Prefix(x, m)
    BY <1>2, PrefixFacts
  <2>2. Prefix(Prefix(y, k), m) = Prefix(y, m)
    BY <1>1, <1>2, PrefixFacts
  <2> QED BY <2>1, <2>2
<1> QED BY <1>1, <1>2

-----------------------------------------------------------------------------
(* What each kind of change of the directories keeps.                      *)

LEMMA ClosedGrows ==
  ASSUME Closed, NEW x \in Tasks, NEW k \in Nat, k <= Len(x),
         Exists(Above(Prefix(x, k))), dirs' = dirs \cup {Prefix(x, k)}
  PROVE  Closed'
<1> SUFFICES ASSUME NEW y \in Tasks, NEW m \in Nat, NEW n \in Nat,
                    m <= n, n <= Len(y), 0 < m, Prefix(y, n) \in dirs'
             PROVE  Prefix(y, m) \in dirs'
  BY DEF Closed, Prefix
<1>1. CASE Prefix(y, n) \in dirs
  BY <1>1 DEF Closed
<1>2. CASE Prefix(y, n) = Prefix(x, k) /\ m = n
  BY <1>2
<1>3. CASE Prefix(y, n) = Prefix(x, k) /\ m # n
  <2>1. n = k /\ n - 1 \in Nat /\ m <= n - 1 /\ n > 0
    BY <1>3, SamePrefix
  <2>2. Above(Prefix(x, k)) = Prefix(y, n - 1)
    BY <1>3, <2>1, PrefixFacts
  <2>3. n - 1 > 0 /\ n - 1 <= Len(y)
    BY <2>1, TaskPath
  <2>4. Prefix(y, n - 1) # <<>>
    BY <2>1, <2>3, PrefixFacts
  <2>5. Prefix(y, n - 1) \in dirs
    BY <2>2, <2>4 DEF Exists
  <2> QED BY <2>1, <2>3, <2>5 DEF Closed
<1> QED BY <1>1, <1>2, <1>3

LEMMA ClosedWithReviews ==
  ASSUME Closed, NEW r \in Reviews, dirs' = dirs \cup {r} \/ dirs' = dirs \ {r}
  PROVE  Closed'
<1> SUFFICES ASSUME NEW y \in Tasks, NEW m \in Nat, NEW n \in Nat,
                    m <= n, n <= Len(y), 0 < m, Prefix(y, n) \in dirs'
             PROVE  Prefix(y, m) \in dirs'
  BY DEF Closed, Prefix
<1>1. Prefix(y, n) # r /\ Prefix(y, m) # r
  <2>1. m <= Len(y)
    BY TaskPath
  <2> QED BY <2>1, PrefixFacts
<1> QED BY <1>1 DEF Closed

LEMMA ClosedWithoutTask ==
  ASSUME Closed, NEW x \in Tasks, dirs' = dirs \ {x}
  PROVE  Closed'
<1> SUFFICES ASSUME NEW y \in Tasks, NEW m \in Nat, NEW n \in Nat,
                    m <= n, n <= Len(y), 0 < m, Prefix(y, n) \in dirs'
             PROVE  Prefix(y, m) \in dirs'
  BY DEF Closed, Prefix
<1>1. Prefix(y, m) \in dirs
  BY DEF Closed
<1>2. ASSUME Prefix(y, m) = x PROVE FALSE
  <2>1. ~(m < Len(y))
    BY <1>2, TaskPath
  <2>2. m = n
    BY <2>1, TaskPath
  <2> QED BY <1>2, <2>2
<1> QED BY <1>1, <1>2

\* A parent without children is above nothing.
LEMMA ClosedWithoutParent ==
  ASSUME Closed, NEW x \in Tasks, NEW k \in Nat, k < Len(x),
         Children(Prefix(x, k)) = {}, dirs' = dirs \ {Prefix(x, k)}
  PROVE  Closed'
<1> SUFFICES ASSUME NEW y \in Tasks, NEW m \in Nat, NEW n \in Nat,
                    m <= n, n <= Len(y), 0 < m, Prefix(y, n) \in dirs'
             PROVE  Prefix(y, m) \in dirs'
  BY DEF Closed, Prefix
<1>1. Prefix(y, m) \in dirs
  BY DEF Closed
<1>2. ASSUME Prefix(y, m) = Prefix(x, k) PROVE FALSE
  <2>1. m # n /\ m + 1 \in Nat /\ m + 1 <= n /\ m + 1 <= Len(y)
    <3>1. m # n
      BY <1>2
    <3> QED BY <3>1, TaskPath
  <2>2. Prefix(y, m + 1) \in dirs
    BY <2>1 DEF Closed
  <2>3. /\ Prefix(y, m + 1) \notin Reviews /\ Prefix(y, m + 1) # <<>>
        /\ Above(Prefix(y, m + 1)) = Prefix(y, m)
    <3>1. m + 1 > 0 /\ (m + 1) - 1 = m
      OBVIOUS
    <3> QED BY <2>1, <3>1, PrefixFacts
  <2> QED BY <1>2, <2>2, <2>3 DEF Children
<1> QED BY <1>1, <1>2

-----------------------------------------------------------------------------
(* The invariant is inductive.                                             *)

LEMMA WorkInit == Init => WorkInv
<1> SUFFICES ASSUME Init PROVE WorkInv
  OBVIOUS
<1>1. TypeOK
  <2>1. \A x \in Tasks : Len(x) \in Nat /\ Len(x) > 1
    BY TaskPath
  <2> QED BY <2>1, WorkDirsAssumption DEF Init, TypeOK, AtWork
<1>2. Closed /\ OwnFollows /\ PassFollows
  BY WorkDirsAssumption DEF Init, Closed, OwnFollows, PassFollows, AtWork
<1> QED BY <1>1, <1>2 DEF WorkInv

\* The steps of a task, one conjunct of the invariant after the other.
LEMMA TaskKeeps == ASSUME WorkInv, NEW x \in Tasks, Task(x) PROVE WorkInv'
<1> USE DEF WorkInv, Becomes, Fails, service, makers, cleanup
<1>0. /\ Len(x) \in Nat /\ Len(x) > 1 /\ x \notin Reviews
      /\ depth[x] \in Nat /\ depth[x] < Len(x)
  BY TaskPath DEF TypeOK
<1>1. CASE Register(x)
  <2>1. TypeOK'
    BY <1>0, <1>1 DEF Register, TypeOK, AtWork
  <2>2. Closed'
    BY <1>1 DEF Register, Closed
  <2>3. OwnFollows'
    BY <1>1 DEF Register, OwnFollows, TypeOK, AtWork
  <2>4. PassFollows'
    BY <1>1 DEF Register, PassFollows, IsParent
  <2> QED BY <2>1, <2>2, <2>3, <2>4
<1>2. CASE MakeParent(x)
  <2> DEFINE d == Prefix(x, depth[x])
  <2>1. \A y \in Tasks : y # d
    BY <1>0, TaskPath
  <2>2. depth[x] = 0 => Exists(Above(d))
    BY <1>0, PrefixFacts DEF Exists
  <2>3. \/ /\ Exists(Above(d)) /\ dirs' = dirs \cup {d}
           /\ step' = [step EXCEPT ![x] = IF depth[x] = Len(x) - 1 THEN "leaf" ELSE "returning"]
           /\ \/ depth' = depth
              \/ depth[x] # Len(x) - 1 /\ depth' = [depth EXCEPT ![x] = @ + 1]
           /\ active' = active
        \/ /\ ~Exists(Above(d)) /\ step[x] = "making"
           /\ depth' = [depth EXCEPT ![x] = @ - 1] /\ UNCHANGED <<dirs, step, active>>
        \/ /\ step' = [step EXCEPT ![x] = "failed"] /\ active' = active \ {x}
           /\ UNCHANGED <<dirs, depth>>
    BY <1>0, <1>2 DEF MakeParent, Prefix, TypeOK
  <2>4. step[x] \in {"making", "returning"} /\ UNCHANGED <<service, old, cleanup>>
    BY <1>2 DEF MakeParent
  <2>5. TypeOK'
    BY <1>0, <2>2, <2>3, <2>4 DEF TypeOK, AtWork
  <2>6. Closed'
    <3>1. CASE Exists(Above(d)) /\ dirs' = dirs \cup {d}
      BY <1>0, <3>1, ClosedGrows
    <3>2. CASE dirs' = dirs
      BY <3>2 DEF Closed
    <3> QED BY <2>3, <3>1, <3>2
  <2>7. OwnFollows'
    BY <1>0, <2>1, <2>3, <2>4 DEF OwnFollows, TypeOK, AtWork
  <2>8. PassFollows'
    BY <2>4 DEF PassFollows, IsParent
  <2> QED BY <2>5, <2>6, <2>7, <2>8
<1>3. CASE MakeLeaf(x)
  <2>1. /\ step[x] = "leaf" /\ UNCHANGED <<service, old, depth, cleanup>>
        /\ \/ /\ Exists(Above(x)) /\ dirs' = dirs \cup {x}
              /\ step' = [step EXCEPT ![x] = "working"] /\ active' = active
           \/ /\ step' = [step EXCEPT ![x] = "failed"] /\ active' = active \ {x}
              /\ dirs' = dirs
    BY <1>3 DEF MakeLeaf
  <2>2. x \notin dirs /\ x \notin old
    BY <2>1 DEF OwnFollows, TypeOK
  <2>3. TypeOK'
    BY <2>1 DEF TypeOK, AtWork
  <2>4. Closed'
    <3>1. CASE Exists(Above(x)) /\ dirs' = dirs \cup {x}
      BY <1>0, <3>1, TaskPath, ClosedGrows
    <3>2. CASE dirs' = dirs
      BY <3>2 DEF Closed
    <3> QED BY <2>1, <3>1, <3>2
  <2>5. OwnFollows'
    BY <2>1, <2>2 DEF OwnFollows, TypeOK, AtWork
  <2>6. PassFollows'
    BY <2>1 DEF PassFollows, IsParent
  <2> QED BY <2>3, <2>4, <2>5, <2>6
<1>4. CASE Finish(x)
  <2>1. TypeOK'
    BY <1>4 DEF Finish, TypeOK, AtWork
  <2>2. Closed'
    BY <1>4 DEF Finish, Closed
  <2>3. OwnFollows'
    BY <1>4 DEF Finish, OwnFollows, TypeOK, AtWork
  <2>4. PassFollows'
    BY <1>4 DEF Finish, PassFollows, IsParent
  <2> QED BY <2>1, <2>2, <2>3, <2>4
<1> QED BY <1>1, <1>2, <1>3, <1>4 DEF Task

\* A review touches its own directory only.
LEMMA ReviewKeeps == ASSUME WorkInv, NEW r \in Reviews, Review(r) PROVE WorkInv'
<1> USE DEF WorkInv, Becomes, service, makers, cleanup
<1>1. \A x \in Tasks : x # r
  BY TaskPath
<1>2. /\ \/ dirs' = dirs \cup {r} /\ old' = old
         \/ dirs' = dirs \ {r} /\ old' = old \ {r}
      /\ \E s \in {"working", "done"} : step' = [step EXCEPT ![r] = s]
      /\ UNCHANGED <<service, active, depth, cleanup>>
  BY DEF Review, Unpack, Release
<1>3. TypeOK'
  BY <1>2 DEF TypeOK, AtWork
<1>4. Closed'
  BY <1>2, ClosedWithReviews
<1>5. OwnFollows'
  BY <1>1, <1>2 DEF OwnFollows, TypeOK, AtWork
<1>6. PassFollows'
  BY <1>2 DEF PassFollows, IsParent
<1> QED BY <1>3, <1>4, <1>5, <1>6

\* A directory that a pass of the cleanup removes is that of a review, that
\* of a task neither at work nor registered, or a parent without children.
LEMMA PassKeeps == ASSUME WorkInv, Pass PROVE WorkInv'
<1> USE DEF WorkInv, Idle, Abort, Gone, service, makers, cleanup
<1>1. CASE Begin
  BY <1>1 DEF Begin, TypeOK, Closed, OwnFollows, PassFollows, IsParent
<1>2. CASE LeaveContext
  BY <1>2 DEF LeaveContext, TypeOK, Closed, OwnFollows, PassFollows, IsParent
<1>3. CASE TakeSnapshot
  BY <1>3 DEF TakeSnapshot, Leaves, AtWork, TypeOK, Closed, OwnFollows, PassFollows, IsParent
<1>4. CASE NextParent
  <2>1. \A d \in emptied : IsParent(d)
    BY DEF PassFollows
  <2>2. /\ emptied' \subseteq emptied /\ UNCHANGED <<starts, dirs, old, makers, snapshot, todo>>
        /\ pass' # "tasks" /\ pass' \in {"idle", "parents"}
        /\ up' = up \/ up' = "running"
        /\ pass' = "parents" => at' \in emptied
    BY <1>4 DEF NextParent
  <2>3. TypeOK' /\ Closed' /\ OwnFollows'
    BY <2>2 DEF TypeOK, Closed, OwnFollows
  <2>4. PassFollows'
    BY <2>1, <2>2 DEF PassFollows, IsParent
  <2> QED BY <2>3, <2>4
<1>5. CASE Climb
  <2>1. IsParent(at)
    BY <1>5 DEF Climb, PassFollows
  <2>2. PICK x \in Tasks, k \in Nat : k < Len(x) /\ at = Prefix(x, k)
    BY <2>1 DEF IsParent
  <2>3. k > 0 /\ k - 1 \in Nat /\ k - 1 < Len(x) /\ Above(at) = Prefix(x, k - 1)
    <3>1. Len(x) \in Nat
      BY TaskPath
    <3>2. k # 0
      BY <1>5, <2>2, <3>1, PrefixFacts DEF Climb
    <3> QED BY <2>2, <3>1, <3>2, PrefixFacts
  <2>4. \A y \in Tasks : y # at
    BY <2>2, TaskPath
  <2>5. at \notin Reviews
    BY <2>2, <2>3, TaskPath, PrefixFacts
  <2>6. TypeOK'
    BY <1>5, <2>4, <2>5 DEF Climb, TypeOK
  <2>7. Closed'
    <3>1. CASE Children(at) = {} /\ dirs' = dirs \ {at}
      BY <2>2, <3>1, ClosedWithoutParent
    <3>2. CASE dirs' = dirs
      BY <3>2 DEF Closed
    <3> QED BY <1>5, <3>1, <3>2 DEF Climb
  <2>8. OwnFollows'
    BY <1>5, <2>4 DEF Climb, OwnFollows
  <2>9. PassFollows'
    <3>1. IsParent(Above(at))
      BY <2>2, <2>3 DEF IsParent
    <3> QED BY <1>5, <3>1 DEF Climb, PassFollows, IsParent
  <2> QED BY <2>6, <2>7, <2>8, <2>9
<1>6. ASSUME NEW r \in Reviews, VisitContext(r) PROVE WorkInv'
  <2>1. \A x \in Tasks : x # r
    BY TaskPath
  <2>2. TypeOK'
    BY <1>6 DEF VisitContext, TypeOK
  <2>3. Closed'
    <3>1. dirs' = dirs \ {r} \/ dirs' = dirs
      BY <1>6 DEF VisitContext
    <3> QED BY <3>1, ClosedWithReviews DEF Closed
  <2>4. OwnFollows'
    BY <1>6, <2>1 DEF VisitContext, OwnFollows
  <2>5. PassFollows'
    BY <1>6 DEF VisitContext, PassFollows, IsParent
  <2> QED BY <2>2, <2>3, <2>4, <2>5
<1>7. ASSUME NEW x \in Tasks, VisitTask(x) PROVE WorkInv'
  <2>1. TypeOK'
    BY <1>7 DEF VisitTask, TypeOK
  <2>2. Closed'
    <3>1. dirs' = dirs \ {x} \/ dirs' = dirs
      BY <1>7 DEF VisitTask
    <3> QED BY <3>1, ClosedWithoutTask DEF Closed
  <2>3. OwnFollows'
    BY <1>7 DEF VisitTask, OwnFollows
  <2>4. PassFollows'
    <3>1. IsParent(Above(x))
      <4>1. Len(x) - 1 \in Nat /\ Len(x) - 1 < Len(x) /\ Above(x) = Prefix(x, Len(x) - 1)
        BY TaskPath DEF Above, Prefix
      <4> QED BY <4>1 DEF IsParent
    <3> QED BY <1>7, <3>1 DEF VisitTask, PassFollows, IsParent
  <2> QED BY <2>1, <2>2, <2>3, <2>4
<1> QED BY <1>1, <1>2, <1>3, <1>4, <1>5, <1>6, <1>7 DEF Pass

LEMMA WorkInvStep == WorkInv /\ [Next]_vars => WorkInv'
<1> SUFFICES ASSUME WorkInv, [Next]_vars PROVE WorkInv'
  OBVIOUS
<1>1. ASSUME NEW x \in Tasks \cup Reviews, Age(x) PROVE WorkInv'
  BY <1>1 DEF Age, Leaves, WorkInv, TypeOK, Closed, OwnFollows, PassFollows, IsParent,
              service, makers, cleanup
<1>2. CASE Crash
  <2>1. TypeOK'
    BY <1>2 DEF Crash, WorkInv, TypeOK, AtWork
  <2>2. Closed' /\ OwnFollows' /\ PassFollows'
    BY <1>2 DEF Crash, WorkInv, TypeOK, AtWork, Closed, OwnFollows, PassFollows
  <2> QED BY <2>1, <2>2 DEF WorkInv
<1>3. CASE Restart
  BY <1>3, WorkDirsAssumption DEF Restart, WorkInv, TypeOK, Closed, OwnFollows, PassFollows,
                                  IsParent, makers
<1>4. CASE UNCHANGED vars
  BY <1>4 DEF vars, service, makers, cleanup, WorkInv, TypeOK, Closed, OwnFollows, PassFollows,
              IsParent
<1> QED BY TaskKeeps, ReviewKeeps, PassKeeps, <1>1, <1>2, <1>3, <1>4 DEF Next

(* However many tasks make their directories while the cleanup removes     *)
(* old ones and the parents they leave empty: the directory of a task at   *)
(* work is there, with all above it (ScriptRunner::run, create_task_dir,   *)
(* cleanup_stale_script_task_work).                                        *)
THEOREM WorkIsKept == Spec \/ HousekeepingSpec => [](TypeOK /\ WorkKept)
<1>1. WorkInv => TypeOK /\ WorkKept
  <2> SUFFICES ASSUME WorkInv, NEW x \in Tasks, step[x] = "working", NEW n \in 1..Len(x)
               PROVE  SubSeq(x, 1, n) \in dirs
    BY DEF WorkInv, WorkKept
  <2>1. /\ Len(x) \in Nat /\ Prefix(x, Len(x)) = x /\ x \in dirs
        /\ n \in Nat /\ n <= Len(x) /\ 0 < n
    BY TaskPath DEF WorkInv, OwnFollows
  <2>2. Prefix(x, n) \in dirs
    BY <2>1 DEF WorkInv, Closed
  <2> QED BY <2>2 DEF Prefix
<1>2. HousekeepingInit => Init
  BY DEF HousekeepingInit
<1>3. [HousekeepingNext]_<<part, vars, logVars, zipVars, toolVars>> => [Next]_vars
  BY DEF HousekeepingNext
<1>4. Spec => []WorkInv
  BY WorkInit, WorkInvStep, PTL DEF Spec
<1>5. HousekeepingSpec => []WorkInv
  BY <1>2, <1>3, WorkInit, WorkInvStep, PTL DEF HousekeepingSpec
<1> QED BY <1>1, <1>4, <1>5, PTL

-----------------------------------------------------------------------------
(* The log.                                                                *)

Messages == [number : Nat, size : Sizes]

\* The bytes of a file.
SizesOf(s) == [i \in DOMAIN s |-> s[i].size]

LEMMA SizeFacts ==
  ASSUME NEW s \in Seq(Messages)
  PROVE  /\ DOMAIN s = 1..Len(s) /\ Len(s) \in Nat /\ IsFiniteSet(DOMAIN s)
         /\ \A i \in DOMAIN s : s[i] \in Messages /\ SizesOf(s)[i] \in Nat \ {0}
         /\ Log!Size(s) = SumFunctionOnSet(SizesOf(s), DOMAIN s)
         /\ Log!Size(s) \in Nat
         /\ Log!Size(s) = 0 => s = <<>>
<1>1. DOMAIN s = 1..Len(s) /\ Len(s) \in Nat
  BY LenProperties
<1>2. IsFiniteSet(DOMAIN s)
  BY <1>1, FS_Interval
<1>3. \A i \in DOMAIN s : s[i] \in Messages /\ SizesOf(s)[i] \in Nat \ {0}
  <2>1. \A i \in 1..Len(s) : s[i] \in Messages
    BY ElementOfSeq
  <2>2. \A m \in Messages : m.size \in Nat \ {0}
    BY LogAssumption DEF Messages
  <2> QED BY <1>1, <2>1, <2>2 DEF SizesOf
<1>4. Log!Size(s) = SumFunctionOnSet(SizesOf(s), DOMAIN s)
  <2>1. Log!Size(s) = Log!SumFunction(SizesOf(s))
    BY DEF Log!Size, SizesOf
  <2>2. DOMAIN SizesOf(s) = DOMAIN s
    BY DEF SizesOf
  <2> QED BY <2>1, <2>2 DEF Log!SumFunction, Log!SumFunctionOnSet, Log!FoldFunctionOnSet,
                            Log!MapThenFoldSet, SumFunctionOnSet, FoldFunctionOnSet, MapThenFoldSet
<1>5. Log!Size(s) \in Nat
  <2>1. \A i \in DOMAIN s : SizesOf(s)[i] \in Nat
    BY <1>3
  <2> QED BY <1>2, <1>4, <2>1, SumNat
<1>6. ASSUME s # <<>> PROVE Log!Size(s) # 0
  <2>1. Len(s) # 0
    BY <1>6, EmptySeq
  <2>2. 1 \in DOMAIN s
    BY <1>1, <2>1
  <2>3. \A i \in DOMAIN s : SizesOf(s)[i] \in Int
    BY <1>3
  <2>4. SumFunctionOnSet(SizesOf(s), DOMAIN s)
          = SizesOf(s)[1] + SumFunctionOnSet(SizesOf(s), DOMAIN s \ {1})
    BY <1>2, <2>2, <2>3, SumRemove
  <2>5. IsFiniteSet(DOMAIN s \ {1}) /\ \A i \in DOMAIN s \ {1} : SizesOf(s)[i] \in Nat
    BY <1>2, <1>3, FS_Subset
  <2>6. SumFunctionOnSet(SizesOf(s), DOMAIN s \ {1}) \in Nat
    BY <2>5, SumNat
  <2> QED BY <1>3, <1>4, <2>2, <2>4, <2>6
<1> QED BY <1>1, <1>2, <1>3, <1>4, <1>5, <1>6

LEMMA SizeAppend ==
  ASSUME NEW s \in Seq(Messages), NEW m \in Messages
  PROVE  /\ Append(s, m) \in Seq(Messages)
         /\ Log!Size(Append(s, m)) = Log!Size(s) + m.size
<1> DEFINE t == Append(s, m)
           n == Len(s)
<1>1. t \in Seq(Messages) /\ Len(t) = n + 1 /\ t[n + 1] = m /\ \A i \in 1..n : t[i] = s[i]
  BY AppendProperties
<1>2. n \in Nat /\ DOMAIN s = 1..n /\ IsFiniteSet(1..n)
  BY SizeFacts
<1> HIDE DEF t, n
<1>3. DOMAIN t = 1..n \cup {n + 1} /\ n + 1 \notin 1..n
  BY <1>1, <1>2, SizeFacts
<1>4. \A i \in 1..n \cup {n + 1} : SizesOf(t)[i] \in Int
  BY <1>1, <1>3, SizeFacts
<1>5. \A i \in 1..n : SizesOf(s)[i] \in Int /\ SizesOf(s)[i] = SizesOf(t)[i]
  <2>1. \A i \in 1..n : SizesOf(s)[i] = s[i].size /\ SizesOf(t)[i] = t[i].size
    BY <1>2, <1>3 DEF SizesOf
  <2>2. \A i \in 1..n : SizesOf(s)[i] \in Nat
    BY <1>2, SizeFacts
  <2> QED BY <1>1, <2>1, <2>2
<1>6. SumFunctionOnSet(SizesOf(t), 1..n \cup {n + 1})
        = SizesOf(t)[n + 1] + SumFunctionOnSet(SizesOf(t), 1..n)
  BY <1>2, <1>3, <1>4, SumAdd
<1>7. SumFunctionOnSet(SizesOf(s), 1..n) = SumFunctionOnSet(SizesOf(t), 1..n)
  BY <1>2, <1>5, SumSame
<1>8. SizesOf(t)[n + 1] = m.size
  BY <1>1, <1>3 DEF SizesOf
<1>9. Log!Size(t) = SumFunctionOnSet(SizesOf(t), DOMAIN t)
      /\ Log!Size(s) = SumFunctionOnSet(SizesOf(s), DOMAIN s) /\ Log!Size(s) \in Nat
  BY <1>1, SizeFacts
<1>10. m.size \in Nat
  BY LogAssumption DEF Messages
<1>11. Log!Size(t) = Log!Size(s) + m.size
  BY <1>2, <1>3, <1>6, <1>7, <1>8, <1>9, <1>10
<1> QED BY <1>1, <1>11 DEF t

\* The files, from the oldest on.
Parts(d, k) == [n \in 1..k + 1 |-> d[k + 1 - n].messages]

\* They are what was written last, cut into files.
Joined(d, k, w) == \E cut : Sliced(Parts(d, k), cut, w, k + 1) /\ cut[k + 1] = Len(w)

LEMMA JoinedKept ==
  ASSUME NEW w \in Seq(Messages), NEW k \in Nat, NEW d, Joined(d, k, w)
  PROVE  Log!IsSuffix(Log!FlattenSeq(Parts(d, k)), w)
<1> DEFINE parts == Parts(d, k)
<1>1. PICK cut : Sliced(parts, cut, w, k + 1) /\ cut[k + 1] = Len(w)
  BY DEF Joined
<1>2. Len(parts) = k + 1 /\ k + 1 \in Nat /\ k + 1 > 0
  BY DEF Parts
<1> HIDE DEF parts
<1>3. FlattenSeq(parts) = SubSeq(w, cut[0] + 1, Len(w))
  BY <1>1, <1>2, FlattenSlices
<1>4. cut[0] \in 0..Len(w)
  BY <1>1, <1>2 DEF Sliced
<1>5. IsSuffix(FlattenSeq(parts), w)
  BY <1>3, <1>4, SuffixSlice
<1>6. Log!FlattenSeq(parts) = FlattenSeq(parts)
  BY DEF Log!FlattenSeq, FlattenSeq
<1>7. \A s : Log!IsSuffix(s, w) <=> IsSuffix(s, w)
  BY DEF Log!IsSuffix, Log!IsPrefix, Log!Reverse, IsSuffix, IsPrefix, Reverse
<1> QED BY <1>5, <1>6, <1>7 DEF parts

LEMMA JoinedSame ==
  ASSUME NEW w, NEW k \in Nat, NEW d, NEW e, Joined(d, k, w),
         \A f \in 0..k : e[f].messages = d[f].messages
  PROVE  Joined(e, k, w)
<1>1. Parts(e, k) = Parts(d, k)
  <2>1. \A n \in 1..k + 1 : k + 1 - n \in 0..k
    OBVIOUS
  <2> QED BY <2>1 DEF Parts
<1> QED BY <1>1 DEF Joined

LEMMA JoinedWrite ==
  ASSUME NEW w \in Seq(Messages), NEW m \in Messages, NEW k \in Nat, NEW d, NEW e, Joined(d, k, w),
         d[0].messages \in Seq(Messages), e[0].messages = Append(d[0].messages, m),
         \A f \in 1..k : e[f].messages = d[f].messages
  PROVE  Joined(e, k, Append(w, m))
<1> DEFINE v == Append(w, m)
<1>1. PICK cut : Sliced(Parts(d, k), cut, w, k + 1) /\ cut[k + 1] = Len(w)
  BY DEF Joined
<1>2. /\ v \in Seq(Messages) /\ Len(v) = Len(w) + 1 /\ v[Len(w) + 1] = m
      /\ Len(w) \in Nat /\ \A i \in 1..Len(w) : v[i] = w[i] /\ w[i] \in Messages
  BY AppendProperties, LenProperties, ElementOfSeq
<1>n. Len(w) \in Nat
  BY <1>2
<1>3. \A i \in 1..Len(v) : v[i] \in Messages
  BY <1>2, ElementOfSeq
<1> HIDE DEF v
<1>4. ASSUME NEW a \in 0..Len(w), NEW b \in 0..Len(w), a <= b
      PROVE  SubSeq(v, a + 1, b) = SubSeq(w, a + 1, b)
  <2>1. /\ SubSeq(v, a + 1, b) \in Seq(Messages) /\ Len(SubSeq(v, a + 1, b)) = b - a
        /\ \A i \in 1..b - a : SubSeq(v, a + 1, b)[i] = v[a + i]
    BY <1>2, <1>3, <1>4, SubSeqProperties
  <2>2. /\ SubSeq(w, a + 1, b) \in Seq(Messages) /\ Len(SubSeq(w, a + 1, b)) = b - a
        /\ \A i \in 1..b - a : SubSeq(w, a + 1, b)[i] = w[a + i]
    BY <1>2, <1>4, SubSeqProperties
  <2>3. \A i \in 1..b - a : a + i \in 1..Len(w)
    BY <1>2, <1>4
  <2> QED BY <1>2, <2>1, <2>2, <2>3, SeqEqual
<1>5. ASSUME NEW a \in 0..Len(w), d[0].messages = SubSeq(w, a + 1, Len(w))
      PROVE  e[0].messages = SubSeq(v, a + 1, Len(v))
  <2>1. /\ SubSeq(v, a + 1, Len(v)) \in Seq(Messages) /\ Len(SubSeq(v, a + 1, Len(v))) = Len(w) + 1 - a
        /\ \A i \in 1..Len(w) + 1 - a : SubSeq(v, a + 1, Len(v))[i] = v[a + i]
    BY <1>2, <1>3, SubSeqProperties
  <2>2. /\ Len(SubSeq(w, a + 1, Len(w))) = Len(w) - a
        /\ \A i \in 1..Len(w) - a : SubSeq(w, a + 1, Len(w))[i] = w[a + i]
    BY <1>2, SubSeqProperties
  <2>3. /\ e[0].messages \in Seq(Messages) /\ Len(e[0].messages) = Len(w) - a + 1
        /\ \A i \in 1..Len(w) - a : e[0].messages[i] = d[0].messages[i]
        /\ e[0].messages[Len(w) - a + 1] = m
    BY <1>5, <2>2, AppendProperties
  <2>4. ASSUME NEW i \in 1..Len(w) + 1 - a PROVE e[0].messages[i] = v[a + i]
    <3>1. CASE i \in 1..Len(w) - a
      <4>1. a + i \in 1..Len(w)
        BY <1>2, <3>1
      <4> QED BY <1>2, <1>5, <2>2, <2>3, <3>1, <4>1
    <3>2. CASE i = Len(w) - a + 1
      <4>1. a + i = Len(w) + 1
        BY <1>2, <3>2
      <4> QED BY <1>2, <2>3, <3>2, <4>1
    <3>3. i \in 1..Len(w) - a \/ i = Len(w) - a + 1
      BY <1>n
    <3> QED BY <3>1, <3>2, <3>3
  <2>5. Len(e[0].messages) = Len(SubSeq(v, a + 1, Len(v))) /\ Len(e[0].messages) = Len(w) + 1 - a
    BY <1>n, <2>1, <2>3
  <2>6. \A i \in 1..Len(e[0].messages) : e[0].messages[i] = SubSeq(v, a + 1, Len(v))[i]
    BY <2>1, <2>4, <2>5
  <2>7. e[0].messages \in Seq(Messages) /\ SubSeq(v, a + 1, Len(v)) \in Seq(Messages)
    BY <2>1, <2>3
  <2> QED BY <2>5, <2>6, <2>7, SeqEqual
<1> DEFINE new == [i \in 0..k + 1 |-> IF i = k + 1 THEN Len(v) ELSE cut[i]]
<1>6. \A i \in 0..k + 1 : cut[i] \in 0..Len(w)
  BY <1>1 DEF Sliced
<1>7. new \in [0..k + 1 -> 0..Len(v)] /\ new[k + 1] = Len(v) /\ \A i \in 0..k : new[i] = cut[i]
  BY <1>2, <1>6
<1> HIDE DEF new
<1>8. ASSUME NEW i \in 1..k + 1
      PROVE  new[i - 1] <= new[i] /\ Parts(e, k)[i] = SubSeq(v, new[i - 1] + 1, new[i])
  <2>0. /\ i - 1 \in 0..k /\ new[i - 1] = cut[i - 1] /\ cut[i - 1] <= cut[i]
        /\ Parts(d, k)[i] = SubSeq(w, cut[i - 1] + 1, cut[i])
        /\ Parts(d, k)[i] = d[k + 1 - i].messages /\ Parts(e, k)[i] = e[k + 1 - i].messages
        /\ cut[i - 1] \in 0..Len(w) /\ cut[i] \in 0..Len(w)
    <3>1. i - 1 \in 0..k /\ i - 1 \in 0..k + 1 /\ i \in 0..k + 1
      OBVIOUS
    <3>2. cut[i - 1] <= cut[i] /\ Parts(d, k)[i] = SubSeq(w, cut[i - 1] + 1, cut[i])
      BY <1>1 DEF Sliced
    <3>3. Parts(d, k)[i] = d[k + 1 - i].messages /\ Parts(e, k)[i] = e[k + 1 - i].messages
      BY DEF Parts
    <3> QED BY <1>6, <1>7, <3>1, <3>2, <3>3
  <2>1. CASE i = k + 1
    <3>1. k + 1 - i = 0 /\ cut[i] = Len(w) /\ new[i] = Len(v)
      BY <1>1, <1>7, <2>1
    <3>2. d[0].messages = SubSeq(w, cut[i - 1] + 1, Len(w))
      BY <2>0, <3>1
    <3>3. e[0].messages = SubSeq(v, cut[i - 1] + 1, Len(v))
      BY <1>5, <2>0, <3>2
    <3>4. Parts(e, k)[i] = SubSeq(v, new[i - 1] + 1, new[i])
      BY <2>0, <3>1, <3>3
    <3>5. new[i - 1] \in 0..Len(w) /\ new[i] = Len(w) + 1
      BY <1>2, <2>0, <3>1
    <3> QED BY <1>n, <3>4, <3>5
  <2>2. CASE i # k + 1
    <3>1. k + 1 - i \in 1..k /\ i \in 0..k /\ new[i] = cut[i]
      BY <1>7, <2>2
    <3> QED BY <1>4, <2>0, <3>1
  <2> QED BY <2>1, <2>2
<1>9. Sliced(Parts(e, k), new, v, k + 1)
  BY <1>7, <1>8 DEF Sliced
<1> QED BY <1>7, <1>9 DEF Joined, v

\* The oldest file goes.
LEMMA JoinedRemove ==
  ASSUME NEW w \in Seq(Messages), NEW k \in Nat, NEW d, NEW e, Joined(d, k, w),
         e[k].messages = <<>>, \A f \in 0..k - 1 : e[f].messages = d[f].messages
  PROVE  Joined(e, k, w)
<1>1. PICK cut : Sliced(Parts(d, k), cut, w, k + 1) /\ cut[k + 1] = Len(w)
  BY DEF Joined
<1>0. Len(w) \in Nat /\ \A i \in 0..k + 1 : cut[i] \in 0..Len(w)
  BY <1>1, LenProperties DEF Sliced
<1> DEFINE new == [i \in 0..k + 1 |-> IF i = 0 THEN cut[1] ELSE cut[i]]
<1>2. new \in [0..k + 1 -> 0..Len(w)] /\ new[0] = cut[1] /\ \A i \in 1..k + 1 : new[i] = cut[i]
  BY <1>0
<1> HIDE DEF new
<1>3. ASSUME NEW i \in 1..k + 1
      PROVE  new[i - 1] <= new[i] /\ Parts(e, k)[i] = SubSeq(w, new[i - 1] + 1, new[i])
  <2>0. /\ new[i] = cut[i] /\ cut[i - 1] <= cut[i] /\ cut[i] \in 0..Len(w)
        /\ Parts(d, k)[i] = SubSeq(w, cut[i - 1] + 1, cut[i])
        /\ Parts(d, k)[i] = d[k + 1 - i].messages /\ Parts(e, k)[i] = e[k + 1 - i].messages
    BY <1>0, <1>1, <1>2 DEF Sliced, Parts
  <2>1. CASE i = 1
    <3>1. k + 1 - i = k /\ new[i - 1] = cut[i]
      BY <1>2, <2>1
    <3>2. cut[i] \in Int /\ SubSeq(w, cut[i] + 1, cut[i]) = <<>>
      BY <2>0, SubSeqEmpty
    <3>3. Parts(e, k)[i] = <<>>
      BY <2>0, <3>1
    <3> QED BY <2>0, <3>1, <3>2, <3>3
  <2>2. CASE i # 1
    <3>1. k + 1 - i \in 0..k - 1 /\ i - 1 \in 1..k + 1
      BY <2>2
    <3>2. new[i - 1] = cut[i - 1] /\ e[k + 1 - i].messages = d[k + 1 - i].messages
      BY <1>2, <3>1
    <3> QED BY <2>0, <3>2
  <2> QED BY <2>1, <2>2
<1>4. Sliced(Parts(e, k), new, w, k + 1)
  BY <1>2, <1>3 DEF Sliced
<1>5. new[k + 1] = Len(w)
  BY <1>1, <1>2
<1> QED BY <1>4, <1>5 DEF Joined

\* A file takes the name of the next, which is not there.
LEMMA JoinedRename ==
  ASSUME NEW w \in Seq(Messages), NEW k \in Nat, NEW d, NEW e, Joined(d, k, w), NEW f \in 0..k - 1,
         d[f + 1].messages = <<>>, e[f + 1].messages = d[f].messages, e[f].messages = <<>>,
         \A g \in 0..k \ {f, f + 1} : e[g].messages = d[g].messages
  PROVE  Joined(e, k, w)
<1>1. PICK cut : Sliced(Parts(d, k), cut, w, k + 1) /\ cut[k + 1] = Len(w)
  BY DEF Joined
<1>0. Len(w) \in Nat /\ \A i \in 0..k + 1 : cut[i] \in 0..Len(w)
  BY <1>1, LenProperties DEF Sliced
<1> DEFINE n == k - f
           new == [i \in 0..k + 1 |-> IF i = n THEN cut[n + 1] ELSE cut[i]]
<1>2. /\ n \in 1..k /\ new \in [0..k + 1 -> 0..Len(w)] /\ new[n] = cut[n + 1]
      /\ \A i \in 0..k + 1 : i # n => new[i] = cut[i]
  BY <1>0
<1>3. ASSUME NEW i \in 1..k + 1
      PROVE  /\ cut[i - 1] <= cut[i] /\ d[k + 1 - i].messages = SubSeq(w, cut[i - 1] + 1, cut[i])
             /\ Parts(e, k)[i] = e[k + 1 - i].messages
  BY <1>1 DEF Sliced, Parts
<1>6. /\ k + 1 - n = f + 1 /\ k + 1 - (n + 1) = f
      /\ n \in 1..k + 1 /\ n + 1 \in 1..k + 1 /\ (n + 1) - 1 = n /\ n - 1 \in 0..k + 1 /\ n - 1 # n
      /\ n \in 0..k + 1 /\ n + 1 \in 0..k + 1 /\ n + 1 # n
  OBVIOUS
<1> HIDE DEF n, new
<1>4. cut[n - 1] = cut[n] /\ d[f].messages = SubSeq(w, cut[n] + 1, cut[n + 1]) /\ cut[n] <= cut[n + 1]
  <2>1. cut[n - 1] <= cut[n] /\ SubSeq(w, cut[n - 1] + 1, cut[n]) = <<>>
    <3>1. cut[n - 1] <= cut[n] /\ d[k + 1 - n].messages = SubSeq(w, cut[n - 1] + 1, cut[n])
      BY <1>3, <1>6
    <3> QED BY <1>6, <3>1
  <2>2. cut[n - 1] \in 0..Len(w) /\ cut[n] \in 0..Len(w)
    BY <1>0, <1>6
  <2>3. Len(SubSeq(w, cut[n - 1] + 1, cut[n])) = cut[n] - cut[n - 1]
    <3>1. \A i \in 1..Len(w) : w[i] \in Messages
      BY ElementOfSeq
    <3> QED BY <1>0, <2>1, <2>2, <3>1, SubSeqProperties
  <2>4. Len(<<>>) = 0
    OBVIOUS
  <2>5. cut[n - 1] = cut[n]
    <3>1. cut[n] - cut[n - 1] = 0
      BY <2>1, <2>3, <2>4
    <3>2. cut[n - 1] \in Int /\ cut[n] \in Int
      BY <1>0, <2>2
    <3> QED BY <3>1, <3>2
  <2>6. /\ cut[(n + 1) - 1] <= cut[n + 1]
        /\ d[k + 1 - (n + 1)].messages = SubSeq(w, cut[(n + 1) - 1] + 1, cut[n + 1])
    BY <1>3, <1>6
  <2> QED BY <1>6, <2>5, <2>6
<1>5. ASSUME NEW i \in 1..k + 1
      PROVE  new[i - 1] <= new[i] /\ Parts(e, k)[i] = SubSeq(w, new[i - 1] + 1, new[i])
  <2>0. Parts(e, k)[i] = e[k + 1 - i].messages
    BY <1>3
  <2>1. CASE i = n
    <3>1. Parts(e, k)[i] = d[f].messages
      BY <1>6, <2>0, <2>1
    <3>2. new[i - 1] = cut[n] /\ new[i] = cut[n + 1]
      BY <1>2, <1>4, <1>6, <2>1
    <3> QED BY <1>4, <3>1, <3>2
  <2>2. CASE i = n + 1
    <3>1. Parts(e, k)[i] = <<>>
      BY <1>6, <2>0, <2>2
    <3>2. new[i - 1] = cut[n + 1] /\ new[i] = cut[n + 1] /\ cut[n + 1] \in 0..Len(w)
      BY <1>0, <1>2, <1>6, <2>2
    <3>3. cut[n + 1] \in Int /\ SubSeq(w, cut[n + 1] + 1, cut[n + 1]) = <<>>
      BY <1>0, <3>2, SubSeqEmpty
    <3> QED BY <3>1, <3>2, <3>3
  <2>3. CASE i # n /\ i # n + 1
    <3>0. k \in Nat /\ f \in Int /\ i \in Int /\ i # k - f /\ i # k - f + 1 /\ 1 <= i /\ i <= k + 1
      BY <2>3 DEF n
    <3>1. k + 1 - i \in 0..k /\ k + 1 - i # f /\ k + 1 - i # f + 1
      BY <3>0
    <3>2. e[k + 1 - i].messages = d[k + 1 - i].messages
      BY <3>1
    <3>3. i - 1 \in 0..k + 1 /\ i \in 0..k + 1 /\ i - 1 # n /\ i # n
      BY <2>3 DEF n
    <3>4. new[i - 1] = cut[i - 1] /\ new[i] = cut[i]
      BY <1>2, <3>3
    <3>5. cut[i - 1] <= cut[i] /\ d[k + 1 - i].messages = SubSeq(w, cut[i - 1] + 1, cut[i])
      BY <1>3
    <3> QED BY <2>0, <3>2, <3>4, <3>5
  <2> QED BY <2>1, <2>2, <2>3
<1>7. Sliced(Parts(e, k), new, w, k + 1)
  BY <1>2, <1>5 DEF Sliced
<1>8. new[k + 1] = Len(w)
  BY <1>1, <1>2 DEF n
<1> QED BY <1>7, <1>8 DEF Joined

FileRecords == [there : BOOLEAN, messages : Seq(Messages)]
Rotation == {"flush", "remove", "rename", "reopen"}

LogTypes ==
  /\ logKeep \in Nat /\ logDisk \in [0..logKeep -> FileRecords] /\ logWritten \in Seq(Messages)
  /\ logOpen \in BOOLEAN /\ logCurrent \in Nat /\ logIndex \in 0..logKeep
  /\ logStep \in Rotation \cup {"ready", "write"} /\ logSaid \in Nat

\* As long as configured at most, or of one message.
Small(s) == MaxBytes > 0 => Log!Size(s) <= MaxBytes \/ Len(s) = 1

LogFiles ==
  \A f \in 0..logKeep : /\ ~logDisk[f].there => logDisk[f].messages = <<>>
                        /\ Small(logDisk[f].messages)

\* The writer knows the size of the file it has open; a rotation has closed it,
\* and the name that a file is to take is free.
LogStands ==
  /\ logOpen => logDisk[0].there /\ logCurrent = Log!Size(logDisk[0].messages)
  /\ logStep \in Rotation => ~logOpen
  /\ logStep = "write" => logOpen /\ logDisk[0].messages = <<>>
  /\ logStep # "ready" => \E m \in Messages : logPending = <<m>>
  /\ logStep = "rename" => logIndex < logKeep /\ ~logDisk[logIndex + 1].there
  /\ logStep = "reopen" => ~logDisk[0].there

LogInv == LogTypes /\ LogFiles /\ LogStands /\ Joined(logDisk, logKeep, logWritten)

LEMMA EmptyFile ==
  /\ <<>> \in Seq(Messages) /\ Len(<<>>) = 0 /\ Log!Size(<<>>) = 0 /\ Small(<<>>)
<1>1. <<>> \in Seq(Messages) /\ Len(<<>>) = 0
  OBVIOUS
<1>2. DOMAIN <<>> = {} /\ SumFunctionOnSet(SizesOf(<<>>), {}) = 0
  BY SumEmpty
<1>3. Log!Size(<<>>) = 0
  BY <1>1, <1>2, SizeFacts
<1> QED BY <1>1, <1>3, LogAssumption DEF Small

LEMMA LogInvInit == Log!Init => LogInv
<1> SUFFICES ASSUME Log!Init PROVE LogInv
  OBVIOUS
<1>1. logKeep \in Nat
  BY LogAssumption DEF Log!Init
<1>2. logDisk = [f \in 0..logKeep |-> IF f = 0 THEN Log!File(<<>>) ELSE Log!Absent]
  BY DEF Log!Init, Log!Files
<1>3. /\ Log!File(<<>>) \in FileRecords /\ Log!Absent \in FileRecords
      /\ Log!File(<<>>).messages = <<>> /\ Log!Absent.messages = <<>> /\ Log!File(<<>>).there
  BY EmptyFile DEF Log!File, Log!Absent, FileRecords
<1>4. LogTypes
  BY <1>1, <1>2, <1>3, EmptyFile DEF Log!Init, LogTypes
<1>5. \A f \in 0..logKeep : logDisk[f].messages = <<>>
  BY <1>2, <1>3
<1>6. LogFiles
  BY <1>5, EmptyFile DEF LogFiles
<1>7. LogStands
  <2>1. logDisk[0] = Log!File(<<>>)
    BY <1>1, <1>2
  <2> QED BY <1>3, <2>1, EmptyFile DEF Log!Init, LogStands, Rotation
<1>8. Joined(logDisk, logKeep, logWritten)
  <2> DEFINE k == logKeep
             cut == [i \in 0..k + 1 |-> 0]
  <2>1. logWritten = <<>> /\ Len(logWritten) = 0
    BY DEF Log!Init
  <2>2. cut \in [0..k + 1 -> 0..Len(logWritten)] /\ \A i \in 0..k + 1 : cut[i] = 0
    BY <2>1
  <2>3. \A i \in 1..k + 1 : Parts(logDisk, k)[i] = <<>>
    <3>1. \A i \in 1..k + 1 : k + 1 - i \in 0..k
      BY <1>1
    <3> QED BY <1>5, <3>1 DEF Parts
  <2>4. SubSeq(logWritten, 0 + 1, 0) = <<>>
    BY SubSeqEmpty
  <2>5. \A i \in 1..k + 1 : i - 1 \in 0..k + 1 /\ i \in 0..k + 1
    BY <1>1
  <2>7. cut[k + 1] = Len(logWritten)
    BY <1>1, <2>1, <2>2
  <2>8. \A i \in 1..k + 1 : cut[i - 1] = 0 /\ cut[i] = 0
    BY <2>2, <2>5
  <2>9. \A i \in 1..k + 1 : SubSeq(logWritten, cut[i - 1] + 1, cut[i]) = <<>>
    BY <2>1, <2>4, <2>8
  <2> HIDE DEF cut
  <2>6. Sliced(Parts(logDisk, k), cut, logWritten, k + 1)
    <3>1. \A i \in 1..k + 1 : cut[i - 1] <= cut[i]
      BY <2>8
    <3> QED BY <2>2, <2>3, <2>9, <3>1 DEF Sliced
  <2> QED BY <2>6, <2>7 DEF Joined
<1> QED BY <1>4, <1>6, <1>7, <1>8 DEF LogInv

\* A step that leaves the files.
LEMMA LogStill ==
  ASSUME LogInv, LogTypes', LogStands', logDisk' = logDisk, logKeep' = logKeep, logWritten' = logWritten
  PROVE  LogInv'
<1>1. LogFiles'
  BY DEF LogInv, LogFiles
<1>2. Joined(logDisk, logKeep, logWritten)'
  BY DEF LogInv
<1> QED BY <1>1, <1>2 DEF LogInv

\* The message is written, to a file that has room for it.
LEMMA LogWrite ==
  ASSUME LogInv, NEW m \in Messages, Log!Write(m), logOpen, logOpen' = logOpen, logKeep' = logKeep,
         logStep' = "ready", logIndex' = logIndex, logSaid' \in Nat,
         logDisk[0].messages = <<>> \/ ~Log!ShouldRotate(m.size)
  PROVE  LogInv'
<1>0. /\ LogTypes /\ LogFiles /\ LogStands /\ Joined(logDisk, logKeep, logWritten)
      /\ logKeep \in Nat /\ 0 \in 0..logKeep /\ logDisk[0] \in FileRecords
      /\ logDisk[0].there /\ logCurrent = Log!Size(logDisk[0].messages)
      /\ logDisk[0].messages \in Seq(Messages) /\ m.size \in Nat
  <2>1. LogTypes /\ LogFiles /\ LogStands /\ Joined(logDisk, logKeep, logWritten)
    BY DEF LogInv
  <2>2. logKeep \in Nat /\ logDisk \in [0..logKeep -> FileRecords]
    BY <2>1 DEF LogTypes
  <2>3. 0 \in 0..logKeep
    BY <2>2
  <2>4. logDisk[0] \in FileRecords
    BY <2>2, <2>3
  <2>5. logDisk[0].messages \in Seq(Messages)
    BY <2>4 DEF FileRecords
  <2>6. logDisk[0].there /\ logCurrent = Log!Size(logDisk[0].messages)
    BY <2>1 DEF LogStands
  <2>7. m.size \in Nat
    BY LogAssumption DEF Messages
  <2> QED BY <2>1, <2>2, <2>3, <2>4, <2>5, <2>6, <2>7
<1>1. /\ logDisk' = [logDisk EXCEPT ![0].messages = Append(@, m)]
      /\ logCurrent' = logCurrent + m.size /\ logWritten' = Append(logWritten, m)
  BY DEF Log!Write
<1> PICK new : new = Append(logDisk[0].messages, m)
  OBVIOUS
<1>2. new \in Seq(Messages) /\ Log!Size(new) = logCurrent + m.size
  BY <1>0, SizeAppend
<1>3. /\ logDisk'[0].messages = new /\ logDisk'[0].there /\ DOMAIN logDisk' = 0..logKeep
      /\ \A f \in 0..logKeep \ {0} : logDisk'[f] = logDisk[f]
      /\ logDisk'[0] \in FileRecords
  BY <1>0, <1>1, <1>2 DEF LogTypes, FileRecords
<1>4. LogTypes'
  <2>1. logDisk' \in [0..logKeep -> FileRecords]
    BY <1>0, <1>1, <1>2 DEF LogTypes, FileRecords
  <2>2. logWritten' \in Seq(Messages)
    BY <1>0, <1>1, AppendProperties DEF LogTypes
  <2>3. logCurrent' \in Nat
    BY <1>0, <1>1 DEF LogTypes
  <2> QED BY <1>0, <2>1, <2>2, <2>3 DEF LogTypes
<1>5. Small(new)
  <2> SUFFICES ASSUME MaxBytes > 0 PROVE Log!Size(new) <= MaxBytes \/ Len(new) = 1
    BY DEF Small
  <2>1. CASE logDisk[0].messages = <<>>
    <3>1. Len(new) = 1
      BY <1>0, <2>1, EmptyFile, AppendProperties
    <3> QED BY <3>1
  <2>2. CASE ~Log!ShouldRotate(m.size)
    <3>1. logCurrent = 0 => logDisk[0].messages = <<>>
      BY <1>0, SizeFacts
    <3>2. logCurrent > 0 => Log!Size(new) <= MaxBytes
      BY <1>0, <1>2, <2>2, LogAssumption DEF Log!ShouldRotate, LogTypes
    <3> QED BY <1>0, <2>1, <3>1, <3>2 DEF LogTypes
  <2> QED BY <2>1, <2>2
<1>6. LogFiles'
  BY <1>0, <1>3, <1>5 DEF LogFiles
<1>7. LogStands'
  BY <1>0, <1>1, <1>2, <1>3 DEF LogStands, Rotation
<1>8. Joined(logDisk, logKeep, logWritten)'
  <2>1. \A f \in 1..logKeep : logDisk'[f].messages = logDisk[f].messages
    BY <1>0, <1>3
  <2>2. logWritten \in Seq(Messages)
    BY <1>0 DEF LogTypes
  <2>3. Joined(logDisk', logKeep, Append(logWritten, m))
    BY <1>0, <1>3, <2>1, <2>2, JoinedWrite
  <2> QED BY <1>1, <2>3
<1> QED BY <1>4, <1>6, <1>7, <1>8 DEF LogInv

LEMMA LogSay == ASSUME LogInv, Log!Say PROVE LogInv'
<1>0. /\ LogTypes /\ LogStands /\ logStep = "ready" /\ logSaid' = logSaid + 1
      /\ logKeep' = logKeep /\ logIndex' = logIndex /\ logSaid' \in Nat
  BY DEF Log!Say, LogInv, LogTypes
<1>1. PICK size \in Sizes :
        LET message == [number |-> logSaid + 1, size |-> size]
        IN  \/ /\ Log!ShouldRotate(size) /\ logPending' = <<message>>
               /\ logStep' = "flush" /\ logOpen' = FALSE
               /\ UNCHANGED <<logDisk, logCurrent, logWritten>>
            \/ /\ ~Log!ShouldRotate(size) /\ logOpen /\ Log!Write(message)
               /\ UNCHANGED <<logOpen, logStep, logPending>>
            \/ /\ ~Log!ShouldRotate(size)
               /\ UNCHANGED <<logDisk, logOpen, logCurrent, logStep, logPending, logWritten>>
  BY DEF Log!Say
<1> DEFINE m == [number |-> logSaid + 1, size |-> size]
<1>2. m \in Messages /\ m.size = size
  BY <1>0 DEF LogTypes, Messages
<1>3. CASE /\ logPending' = <<m>> /\ logStep' = "flush" /\ logOpen' = FALSE
           /\ UNCHANGED <<logDisk, logCurrent, logWritten>>
  <2>1. LogTypes'
    BY <1>0, <1>3 DEF LogTypes, Rotation
  <2>2. LogStands'
    BY <1>2, <1>3 DEF LogStands
  <2> QED BY <1>0, <1>3, <2>1, <2>2, LogStill
<1>4. CASE /\ ~Log!ShouldRotate(size) /\ logOpen /\ Log!Write(m)
           /\ UNCHANGED <<logOpen, logStep, logPending>>
  <2> HIDE DEF m
  <2> QED BY <1>0, <1>2, <1>4, LogWrite
<1>5. CASE UNCHANGED <<logDisk, logOpen, logCurrent, logStep, logPending, logWritten>>
  <2>1. LogTypes'
    BY <1>0, <1>5 DEF LogTypes
  <2>2. LogStands'
    BY <1>0, <1>5 DEF LogStands
  <2> QED BY <1>0, <1>5, <2>1, <2>2, LogStill
<1> QED BY <1>1, <1>3, <1>4, <1>5

LEMMA LogFlush == ASSUME LogInv, Log!Flush PROVE LogInv'
<1>1. LogTypes'
  BY DEF LogInv, Log!Flush, Log!Goto, LogTypes, Rotation
<1>2. LogStands'
  BY DEF LogInv, Log!Flush, Log!Goto, LogStands, Rotation
<1> QED BY <1>1, <1>2, LogStill DEF Log!Flush, Log!Goto

LEMMA LogCallFails == ASSUME LogInv, Log!CallFails PROVE LogInv'
<1>1. LogTypes'
  BY DEF LogInv, Log!CallFails, LogTypes
<1>2. LogStands'
  BY DEF LogInv, Log!CallFails, LogStands, Rotation
<1> QED BY <1>1, <1>2, LogStill DEF Log!CallFails

LEMMA LogWritePending == ASSUME LogInv, Log!WritePending PROVE LogInv'
<1>1. PICK m \in Messages : logPending = <<m>>
  BY DEF LogInv, LogStands, Log!WritePending
<1>2. Log!Write(m) /\ logOpen /\ logDisk[0].messages = <<>>
  BY <1>1 DEF LogInv, LogStands, Log!WritePending
<1>3. logOpen' = logOpen /\ logKeep' = logKeep /\ logStep' = "ready" /\ logIndex' = logIndex /\ logSaid' \in Nat
  BY DEF LogInv, LogTypes, Log!WritePending
<1> QED BY <1>2, <1>3, LogWrite

LEMMA DiskFiles ==
  ASSUME LogInv
  PROVE  /\ logKeep \in Nat /\ 0 \in 0..logKeep /\ logKeep \in 0..logKeep /\ DOMAIN logDisk = 0..logKeep
         /\ logDisk \in [0..logKeep -> FileRecords] /\ logWritten \in Seq(Messages)
         /\ \A f \in 0..logKeep : /\ logDisk[f] \in FileRecords
                                  /\ logDisk[f].there \in BOOLEAN /\ logDisk[f].messages \in Seq(Messages)
                                  /\ ~logDisk[f].there => logDisk[f].messages = <<>>
                                  /\ Small(logDisk[f].messages)
         /\ Log!Absent \in FileRecords /\ ~Log!Absent.there /\ Log!Absent.messages = <<>>
         /\ Log!File(<<>>) \in FileRecords /\ Log!File(<<>>).there /\ Log!File(<<>>).messages = <<>>
<1>1. logKeep \in Nat /\ logDisk \in [0..logKeep -> FileRecords] /\ logWritten \in Seq(Messages)
  BY DEF LogInv, LogTypes
<1>2. 0 \in 0..logKeep /\ logKeep \in 0..logKeep /\ DOMAIN logDisk = 0..logKeep
  BY <1>1
<1>3. ASSUME NEW f \in 0..logKeep
      PROVE  /\ logDisk[f] \in FileRecords
             /\ logDisk[f].there \in BOOLEAN /\ logDisk[f].messages \in Seq(Messages)
  BY <1>1 DEF FileRecords
<1>4. LogFiles
  BY DEF LogInv
<1>5. /\ Log!Absent \in FileRecords /\ ~Log!Absent.there /\ Log!Absent.messages = <<>>
      /\ Log!File(<<>>) \in FileRecords /\ Log!File(<<>>).there /\ Log!File(<<>>).messages = <<>>
  BY EmptyFile DEF Log!Absent, Log!File, FileRecords
<1> QED BY <1>1, <1>2, <1>3, <1>4, <1>5 DEF LogFiles

LEMMA LogRemoveOldest == ASSUME LogInv, Log!RemoveOldest PROVE LogInv'
<1>0. /\ logStep = "remove" /\ logDisk' = [logDisk EXCEPT ![logKeep] = Log!Absent]
      /\ logIndex' = (IF logKeep = 0 THEN 0 ELSE logKeep - 1)
      /\ logStep' = (IF logKeep = 0 THEN "reopen" ELSE "rename")
      /\ logKeep' = logKeep /\ logOpen' = logOpen /\ logCurrent' = logCurrent
      /\ logPending' = logPending /\ logSaid' = logSaid /\ logWritten' = logWritten
  BY DEF Log!RemoveOldest, Log!Goto
<1>1. /\ logDisk' \in [0..logKeep -> FileRecords] /\ logDisk'[logKeep] = Log!Absent
      /\ \A f \in 0..logKeep \ {logKeep} : logDisk'[f] = logDisk[f]
  BY <1>0, DiskFiles
<1>2. LogTypes'
  <2>1. logIndex' \in 0..logKeep
    BY <1>0, DiskFiles
  <2> QED BY <1>0, <1>1, <2>1 DEF LogInv, LogTypes, Rotation
<1>3. LogFiles'
  BY <1>0, <1>1, DiskFiles, EmptyFile DEF LogFiles
<1>4. LogStands'
  <2>1. ~logOpen /\ \E m \in Messages : logPending = <<m>>
    BY <1>0 DEF LogInv, LogStands, Rotation
  <2>2. logKeep # 0 => logIndex' < logKeep /\ logIndex' + 1 = logKeep
    BY <1>0, DiskFiles
  <2>3. ~logDisk'[logKeep].there
    BY <1>1, DiskFiles
  <2> QED BY <1>0, <2>1, <2>2, <2>3 DEF LogStands, Rotation
<1>5. Joined(logDisk', logKeep, logWritten)
  <2>1. logDisk'[logKeep].messages = <<>>
    BY <1>1, DiskFiles
  <2>2. \A f \in 0..logKeep - 1 : logDisk'[f].messages = logDisk[f].messages
    <3>1. \A f \in 0..logKeep - 1 : f \in 0..logKeep \ {logKeep}
      BY DiskFiles
    <3> QED BY <1>1, <3>1
  <2>3. Joined(logDisk, logKeep, logWritten)
    BY DEF LogInv
  <2> QED BY <2>1, <2>2, <2>3, JoinedRemove, DiskFiles
<1> QED BY <1>0, <1>2, <1>3, <1>4, <1>5 DEF LogInv

LEMMA LogRename == ASSUME LogInv, Log!Rename PROVE LogInv'
<1>0. /\ logStep = "rename"
      /\ logIndex' = (IF logIndex = 0 THEN 0 ELSE logIndex - 1)
      /\ logStep' = (IF logIndex = 0 THEN "reopen" ELSE "rename")
      /\ logKeep' = logKeep /\ logOpen' = logOpen /\ logCurrent' = logCurrent
      /\ logPending' = logPending /\ logSaid' = logSaid /\ logWritten' = logWritten
  BY DEF Log!Rename, Log!Goto
<1>1. /\ ~logOpen /\ (\E m \in Messages : logPending = <<m>>) /\ logIndex \in 0..logKeep
      /\ logIndex < logKeep /\ ~logDisk[logIndex + 1].there /\ Joined(logDisk, logKeep, logWritten)
  BY <1>0 DEF LogInv, LogTypes, LogStands, Rotation
<1>2. /\ logIndex \in 0..logKeep - 1 /\ logIndex + 1 \in 0..logKeep /\ logIndex # logIndex + 1
      /\ logIndex \in Nat
  BY <1>1, DiskFiles
<1>3. logDisk[logIndex + 1].messages = <<>>
  BY <1>1, <1>2, DiskFiles
<1>4. /\ logDisk' \in [0..logKeep -> FileRecords] /\ ~logDisk'[logIndex].there
      /\ logDisk'[logIndex].messages = <<>>
      /\ logDisk'[logIndex + 1].messages = logDisk[logIndex].messages
      /\ logDisk'[logIndex + 1] \in {logDisk[logIndex], logDisk[logIndex + 1]}
      /\ \A f \in 0..logKeep \ {logIndex, logIndex + 1} : logDisk'[f] = logDisk[f]
  <2>1. CASE logDisk[logIndex].there
    <3>1. logDisk' = [logDisk EXCEPT ![logIndex] = Log!Absent, ![logIndex + 1] = logDisk[logIndex]]
      BY <2>1 DEF Log!Rename
    <3>2. /\ DOMAIN logDisk' = 0..logKeep /\ logDisk'[logIndex] = Log!Absent
          /\ logDisk'[logIndex + 1] = logDisk[logIndex]
          /\ \A f \in 0..logKeep \ {logIndex, logIndex + 1} : logDisk'[f] = logDisk[f]
      BY <1>1, <1>2, <3>1, DiskFiles
    <3>3. logDisk' \in [0..logKeep -> FileRecords]
      BY <1>1, <1>2, <3>1, DiskFiles
    <3> QED BY <3>2, <3>3, DiskFiles
  <2>2. CASE ~logDisk[logIndex].there
    <3>1. logDisk' = logDisk
      BY <2>2 DEF Log!Rename
    <3> QED BY <1>1, <1>3, <2>2, <3>1, DiskFiles
  <2>3. logDisk[logIndex].there \in BOOLEAN
    BY <1>1, DiskFiles
  <2> QED BY <2>1, <2>2, <2>3
<1>5. LogTypes'
  <2>1. logIndex' \in 0..logKeep
    BY <1>0, <1>1, DiskFiles
  <2> QED BY <1>0, <1>4, <2>1 DEF LogInv, LogTypes, Rotation
<1>6. LogFiles'
  <2>1. ASSUME NEW f \in 0..logKeep
        PROVE  /\ ~logDisk'[f].there => logDisk'[f].messages = <<>>
               /\ Small(logDisk'[f].messages)
    <3>1. CASE f = logIndex
      BY <1>4, <3>1, EmptyFile
    <3>2. CASE f = logIndex + 1
      BY <1>1, <1>2, <1>4, <3>2, DiskFiles
    <3>3. CASE f \notin {logIndex, logIndex + 1}
      BY <1>4, <3>3, DiskFiles
    <3> QED BY <3>1, <3>2, <3>3
  <2> QED BY <1>0, <2>1 DEF LogFiles, Small, Log!Size, Log!SumFunction
<1>7. LogStands'
  <2>1. logIndex # 0 => logIndex' < logKeep /\ logIndex' + 1 = logIndex
    BY <1>0, <1>1, <1>2, DiskFiles
  <2> QED BY <1>0, <1>1, <1>4, <2>1 DEF LogStands, Rotation
<1>8. Joined(logDisk', logKeep, logWritten)
  <2>1. \A g \in 0..logKeep \ {logIndex, logIndex + 1} : logDisk'[g].messages = logDisk[g].messages
    BY <1>4
  <2> QED BY <1>1, <1>2, <1>3, <1>4, <2>1, JoinedRename, DiskFiles
<1> QED BY <1>0, <1>5, <1>6, <1>7, <1>8 DEF LogInv

\* A current file that is not there is made.
LEMMA FileMade ==
  ASSUME LogInv, logDisk' = (IF logDisk[0].there THEN logDisk ELSE [logDisk EXCEPT ![0] = Log!File(<<>>)]),
         logKeep' = logKeep, logWritten' = logWritten
  PROVE  /\ logDisk' \in [0..logKeep -> FileRecords] /\ logDisk'[0].there
         /\ logDisk'[0].messages = logDisk[0].messages /\ LogFiles' /\ Joined(logDisk, logKeep, logWritten)'
<1>1. /\ logDisk' \in [0..logKeep -> FileRecords] /\ logDisk'[0].there
      /\ \A f \in 0..logKeep : logDisk'[f].messages = logDisk[f].messages /\ (f # 0 => logDisk'[f] = logDisk[f])
  <2>1. CASE logDisk[0].there
    BY <2>1, DiskFiles
  <2>2. CASE ~logDisk[0].there
    <3>1. logDisk' = [logDisk EXCEPT ![0] = Log!File(<<>>)]
      BY <2>2
    <3>2. /\ logDisk' \in [0..logKeep -> FileRecords] /\ logDisk'[0] = Log!File(<<>>)
          /\ \A f \in 0..logKeep : f # 0 => logDisk'[f] = logDisk[f]
      BY <3>1, DiskFiles
    <3> QED BY <2>2, <3>2, DiskFiles
  <2> QED BY <2>1, <2>2
<1>2. LogFiles'
  <2>1. ASSUME NEW f \in 0..logKeep
        PROVE  /\ ~logDisk'[f].there => logDisk'[f].messages = <<>>
               /\ Small(logDisk'[f].messages)
    BY <1>1, DiskFiles
  <2> QED BY <2>1 DEF LogFiles, Small, Log!Size, Log!SumFunction
<1>3. Joined(logDisk', logKeep, logWritten)
  <2>1. Joined(logDisk, logKeep, logWritten)
    BY DEF LogInv
  <2> QED BY <1>1, <2>1, JoinedSame, DiskFiles
<1> QED BY <1>1, <1>2, <1>3, DiskFiles

LEMMA LogReopen == ASSUME LogInv, Log!Reopen PROVE LogInv'
<1>0. /\ logStep = "reopen" /\ logOpen' = TRUE /\ logStep' = "write" /\ logCurrent' = 0
      /\ logDisk' = (IF logDisk[0].there THEN logDisk ELSE [logDisk EXCEPT ![0] = Log!File(<<>>)])
      /\ logKeep' = logKeep /\ logIndex' = logIndex /\ logPending' = logPending
      /\ logSaid' = logSaid /\ logWritten' = logWritten
  BY DEF Log!Reopen
<1>1. ~logDisk[0].there /\ \E m \in Messages : logPending = <<m>>
  BY <1>0 DEF LogInv, LogStands
<1>2. /\ logDisk' \in [0..logKeep -> FileRecords] /\ logDisk'[0].there
      /\ logDisk'[0].messages = <<>> /\ LogFiles' /\ Joined(logDisk, logKeep, logWritten)'
  BY <1>0, <1>1, FileMade, DiskFiles
<1>3. LogTypes'
  BY <1>0, <1>2 DEF LogInv, LogTypes, Rotation
<1>4. LogStands'
  BY <1>0, <1>1, <1>2, EmptyFile DEF LogStands, Rotation
<1> QED BY <1>2, <1>3, <1>4 DEF LogInv

LEMMA LogRestart == ASSUME LogInv, Log!Restart PROVE LogInv'
<1>0. /\ logOpen' = TRUE /\ logStep' = "ready" /\ logCurrent' = Log!Size(logDisk'[0].messages)
      /\ logDisk' = (IF logDisk[0].there THEN logDisk ELSE [logDisk EXCEPT ![0] = Log!File(<<>>)])
      /\ logKeep' = logKeep /\ logIndex' = logIndex /\ logSaid' = logSaid /\ logWritten' = logWritten
  BY DEF Log!Restart
<1>1. /\ logDisk' \in [0..logKeep -> FileRecords] /\ logDisk'[0].there
      /\ logDisk'[0].messages = logDisk[0].messages /\ LogFiles' /\ Joined(logDisk, logKeep, logWritten)'
  BY <1>0, FileMade
<1>2. logCurrent' \in Nat
  BY <1>0, <1>1, SizeFacts, DiskFiles
<1>3. LogTypes'
  BY <1>0, <1>1, <1>2 DEF LogInv, LogTypes, Rotation
<1>4. LogStands'
  BY <1>0, <1>1 DEF LogStands, Rotation
<1> QED BY <1>1, <1>3, <1>4 DEF LogInv

LEMMA LogInvStep == LogInv /\ (Log!Next \/ UNCHANGED logVars) => LogInv'
<1>1. ASSUME LogInv, UNCHANGED logVars PROVE LogInv'
  <2>1. /\ logKeep' = logKeep /\ logDisk' = logDisk /\ logOpen' = logOpen /\ logCurrent' = logCurrent
        /\ logStep' = logStep /\ logIndex' = logIndex /\ logPending' = logPending
        /\ logSaid' = logSaid /\ logWritten' = logWritten
    BY <1>1 DEF logVars
  <2>2. LogTypes'
    BY <1>1, <2>1 DEF LogInv, LogTypes
  <2>3. LogStands'
    BY <1>1, <2>1 DEF LogInv, LogStands
  <2> QED BY <1>1, <2>1, <2>2, <2>3, LogStill
<1>2. ASSUME LogInv, Log!Next PROVE LogInv'
  BY <1>2, LogSay, LogFlush, LogRemoveOldest, LogRename, LogReopen, LogWritePending, LogCallFails, LogRestart
     DEF Log!Next
<1> QED BY <1>1, <1>2

LEMMA LogHolds == LogInv => Log!TypeOK /\ Log!LogUnbroken
<1> SUFFICES ASSUME LogInv PROVE Log!TypeOK /\ Log!LogUnbroken
  OBVIOUS
<1>1. Log!TypeOK
  BY DiskFiles DEF LogInv, LogTypes, Rotation, Log!TypeOK, Log!Files
<1>2. Log!Kept = Log!FlattenSeq(Parts(logDisk, logKeep))
  BY DEF Log!Kept, Parts
<1>3. Log!IsSuffix(Log!Kept, logWritten)
  BY <1>2, JoinedKept, DiskFiles DEF LogInv
<1> QED BY <1>1, <1>3, DiskFiles DEF Small, Log!LogUnbroken, Log!Files

-----------------------------------------------------------------------------
(* The parts do not touch one another. *)

LogPart == part = "log" => LogInv

(* Housekeeping's LogUnbroken: read from its oldest file to the current    *)
(* one, the log is the unbroken end of what was written, however many      *)
(* rotations there were, wherever one of them failed or the service was    *)
(* restarted, and no file is above its limit but for a single message.     *)
(* (RotatingLogFile.)                                                      *)
THEOREM LogUnbrokenAlways == HousekeepingSpec => []LogUnbroken
<1>1. HousekeepingInit => LogPart
  BY LogInvInit DEF HousekeepingInit, LogPart
<1>2. LogPart /\ [HousekeepingNext]_<<part, vars, logVars, zipVars, toolVars>> => LogPart'
  <2> SUFFICES ASSUME LogPart, HousekeepingNext \/ UNCHANGED <<part, vars, logVars, zipVars, toolVars>>,
                      part' = "log"
               PROVE  LogInv'
    BY DEF LogPart
  <2>1. part = "log" /\ (Log!Next \/ UNCHANGED logVars)
    BY DEF HousekeepingNext
  <2> QED BY <2>1, LogInvStep DEF LogPart
<1>3. LogPart => LogUnbroken
  BY LogHolds DEF LogPart, LogUnbroken
<1> QED BY <1>1, <1>2, <1>3, PTL DEF HousekeepingSpec

-----------------------------------------------------------------------------
(* The archive.                                                            *)

ZipNamed(z, n, name) == {i \in 1..n - 1 : z.entries[i].kind = "file" /\ z.entries[i].name = name}

\* The file has what the last entry of its name says.
LastOfName(z, n, f, name) ==
  ZipNamed(z, n, name) # {} /\ f[name] = z.entries[Unpacking!Max(ZipNamed(z, n, name))].blocks

LEMMA NamedPassed ==
  ASSUME NEW z, NEW n \in Nat \ {0}, NEW name, z.entries[n].kind # "file" \/ z.entries[n].name # name
  PROVE  ZipNamed(z, n + 1, name) = ZipNamed(z, n, name)
<1>1. 1..(n + 1) - 1 = (1..n - 1) \cup {n}
  OBVIOUS
<1> QED BY <1>1 DEF ZipNamed

LEMMA NamedLast ==
  ASSUME NEW z, NEW n \in Nat \ {0}, z.entries[n].kind = "file"
  PROVE  /\ ZipNamed(z, n + 1, z.entries[n].name) # {}
         /\ Unpacking!Max(ZipNamed(z, n + 1, z.entries[n].name)) = n
<1> DEFINE S == ZipNamed(z, n + 1, z.entries[n].name)
<1>1. n \in S /\ \A i \in S : i \in Nat /\ n >= i
  BY DEF ZipNamed
<1> HIDE DEF S
<1>2. \E x \in S : \A y \in S : x >= y
  BY <1>1
<1>3. Unpacking!Max(S) \in S /\ \A y \in S : Unpacking!Max(S) >= y
  BY <1>2 DEF Unpacking!Max
<1>4. Unpacking!Max(S) = n
  <2> PICK m : m = Unpacking!Max(S)
    OBVIOUS
  <2>1. m \in Nat /\ n >= m /\ m >= n
    BY <1>1, <1>3
  <2> QED BY <2>1
<1> QED BY <1>1, <1>4 DEF S

ZipTypes ==
  /\ zip \in Archives /\ zipNext \in 1..Len(zip.entries) + 1
  /\ zipStep \in {"opening", "entry", "copying", "unpacked", "limit", "error"}
  /\ zipEntries \in 0..Limit.entries /\ zipTotal \in 0..Limit.total /\ zipCopied \in Nat
  /\ IsFiniteSet(DOMAIN zipFiles) /\ zipFiles \in [DOMAIN zipFiles -> Nat]
  /\ zipLeft \in BOOLEAN /\ (zipLeft => zipStep \in {"limit", "error"})

\* The file that is being copied, or could not be removed.
ZipInHand == zipStep = "copying" \/ zipLeft

\* That file is counted when it is whole.
ZipCounts ==
  IF ZipInHand
  THEN /\ zipNext <= Len(zip.entries) /\ zip.entries[zipNext].kind = "file"
       /\ zip.entries[zipNext].name \in DOMAIN zipFiles
       /\ zipFiles[zip.entries[zipNext].name] = zipCopied
       /\ zipCopied <= zip.entries[zipNext].blocks
       /\ zipEntries < Limit.entries /\ zipTotal + zipCopied <= Limit.total
       /\ Cardinality(DOMAIN zipFiles) <= zipEntries + 1
       /\ SumFunctionOnSet(zipFiles, DOMAIN zipFiles) <= zipTotal + zipCopied
  ELSE /\ Cardinality(DOMAIN zipFiles) <= zipEntries
       /\ SumFunctionOnSet(zipFiles, DOMAIN zipFiles) <= zipTotal

ZipWhole ==
  \A name \in DOMAIN zipFiles :
    /\ zipFiles[name] <= Limit.single
    /\ \/ ZipInHand /\ name = zip.entries[zipNext].name
       \/ LastOfName(zip, zipNext, zipFiles, name)

ZipInv == ZipTypes /\ ZipCounts /\ ZipWhole

LEMMA ZipFacts ==
  ASSUME ZipInv
  PROVE  /\ zipNext \in Nat \ {0} /\ Len(zip.entries) \in Nat /\ zipEntries \in Nat /\ zipTotal \in Nat
         /\ zipCopied \in Nat /\ Limit.entries \in Nat /\ Limit.single \in Nat /\ Limit.total \in Nat
         /\ IsFiniteSet(DOMAIN zipFiles) /\ Cardinality(DOMAIN zipFiles) \in Nat
         /\ \A name \in DOMAIN zipFiles : zipFiles[name] \in Nat
         /\ SumFunctionOnSet(zipFiles, DOMAIN zipFiles) \in Nat
         /\ zipNext <= Len(zip.entries) => zip.entries[zipNext].blocks \in Nat
<1>1. /\ zip \in Archives /\ zipNext \in 1..Len(zip.entries) + 1 /\ zipEntries \in 0..Limit.entries
      /\ zipTotal \in 0..Limit.total /\ zipCopied \in Nat
      /\ IsFiniteSet(DOMAIN zipFiles) /\ \A name \in DOMAIN zipFiles : zipFiles[name] \in Nat
  BY DEF ZipInv, ZipTypes
<1>2. Len(zip.entries) \in Nat /\ \A i \in 1..Len(zip.entries) : zip.entries[i].blocks \in Nat
  BY <1>1, ArchiveAssumption
<1>3. Cardinality(DOMAIN zipFiles) \in Nat
  BY <1>1, FS_CardinalityType
<1>4. SumFunctionOnSet(zipFiles, DOMAIN zipFiles) \in Nat
  BY <1>1, SumNat
<1> QED BY <1>1, <1>2, <1>3, <1>4, ArchiveAssumption

LEMMA ZipInit == Unpacking!Init => ZipInv
<1> SUFFICES ASSUME Unpacking!Init PROVE ZipInv
  OBVIOUS
<1>1. DOMAIN zipFiles = {} /\ zip \in Archives /\ zipNext = 1 /\ zipStep = "opening"
      /\ zipEntries = 0 /\ zipTotal = 0 /\ zipCopied = 0 /\ zipLeft = FALSE
  BY DEF Unpacking!Init
<1>2. Len(zip.entries) \in Nat
  BY <1>1, ArchiveAssumption
<1>3. IsFiniteSet({}) /\ Cardinality({}) = 0 /\ SumFunctionOnSet(zipFiles, {}) = 0
  BY FS_EmptySet, SumEmpty
<1>4. zipFiles \in [{} -> Nat]
  BY <1>1 DEF Unpacking!Init
<1>5. ZipTypes
  <2>1. /\ IsFiniteSet(DOMAIN zipFiles) /\ zipFiles \in [DOMAIN zipFiles -> Nat]
        /\ zipLeft \in BOOLEAN /\ (zipLeft => zipStep \in {"limit", "error"})
    BY <1>1, <1>3, <1>4
  <2>2. zipNext \in 1..Len(zip.entries) + 1
    BY <1>1, <1>2
  <2>3. zipEntries \in 0..Limit.entries /\ zipTotal \in 0..Limit.total /\ zipCopied \in Nat
    BY <1>1, ArchiveAssumption
  <2> QED BY <1>1, <2>1, <2>2, <2>3 DEF ZipTypes
<1> QED BY <1>1, <1>3, <1>5 DEF ZipInv, ZipCounts, ZipWhole, ZipInHand

\* A step that leaves the files and ends, or does not begin, the copying of one.
LEMMA ZipQuiet ==
  ASSUME ZipInv, zipStep \in {"opening", "entry"}, zipStep' # "copying", zipFiles' = zipFiles,
         zip' = zip, zipTotal' = zipTotal, zipCopied' = zipCopied, zipLeft' = zipLeft,
         zipStep' \in {"opening", "entry", "copying", "unpacked", "limit", "error"},
         \/ zipNext' = zipNext /\ zipEntries' = zipEntries
         \/ /\ zipNext <= Len(zip.entries) /\ zip.entries[zipNext].kind # "file"
            /\ zipNext' = zipNext + 1 /\ zipEntries' \in zipEntries..Limit.entries
  PROVE  ZipInv'
<1>0. ~ZipInHand /\ ~ZipInHand' /\ zipLeft = FALSE
  BY DEF ZipInHand, ZipInv, ZipTypes
<1>1. /\ zipNext' \in 1..Len(zip.entries) + 1 /\ zipEntries' \in 0..Limit.entries
      /\ zipEntries <= zipEntries'
  BY ZipFacts DEF ZipInv, ZipTypes
<1>2. ZipTypes'
  BY <1>0, <1>1 DEF ZipInv, ZipTypes
<1>3. ZipCounts'
  BY <1>0, <1>1, ZipFacts DEF ZipInv, ZipCounts
<1>4. ASSUME NEW name PROVE ZipNamed(zip, zipNext', name) = ZipNamed(zip, zipNext, name)
  <2>1. CASE zipNext' = zipNext
    BY <2>1
  <2>2. CASE zip.entries[zipNext].kind # "file" /\ zipNext' = zipNext + 1
    BY <2>2, NamedPassed, ZipFacts
  <2> QED BY <2>1, <2>2
<1>5. ZipWhole'
  BY <1>0, <1>4 DEF ZipInv, ZipWhole, LastOfName
<1> QED BY <1>2, <1>3, <1>5 DEF ZipInv

LEMMA ZipCreate ==
  ASSUME ZipInv, zipStep = "entry", zipNext <= Len(zip.entries), Unpacking!CreateFile,
         zip' = zip, zipTotal' = zipTotal, zipLeft' = zipLeft
  PROVE  ZipInv'
<1> PICK new : new = zip.entries[zipNext].name
  OBVIOUS
<1>1. /\ zip.entries[zipNext].kind = "file" /\ zipEntries < Limit.entries /\ zipStep' = "copying"
      /\ zipCopied' = 0 /\ zipNext' = zipNext /\ zipEntries' = zipEntries
      /\ zipFiles' = [name \in DOMAIN zipFiles \cup {new} |-> IF name = new THEN 0 ELSE zipFiles[name]]
  BY DEF Unpacking!CreateFile, Unpacking!Accepted, Unpacking!Entry
<1>0. ~ZipInHand /\ ZipInHand' /\ zipLeft = FALSE
  BY <1>1 DEF ZipInHand, ZipInv, ZipTypes
<1> DEFINE D == DOMAIN zipFiles
           f == zipFiles
           g == zipFiles'
<1>2. /\ IsFiniteSet(D) /\ \A name \in D : f[name] \in Nat
      /\ Cardinality(D) <= zipEntries /\ SumFunctionOnSet(f, D) <= zipTotal
      /\ Cardinality(D) \in Nat /\ SumFunctionOnSet(f, D) \in Nat
  BY <1>0, ZipFacts DEF ZipInv, ZipCounts
<1>3. /\ DOMAIN g = D \cup {new} /\ g[new] = 0 /\ \A name \in D \ {new} : g[name] = f[name]
      /\ g \in [D \cup {new} -> Nat]
  BY <1>1, <1>2
<1>4. IsFiniteSet(D \cup {new}) /\ Cardinality(D \cup {new}) <= Cardinality(D) + 1
  <2>1. /\ IsFiniteSet(D \cup {new})
        /\ Cardinality(D \cup {new}) = IF new \in D THEN Cardinality(D) ELSE Cardinality(D) + 1
    BY <1>2, FS_AddElement
  <2>2. Cardinality(D) \in Nat
    BY <1>2
  <2> HIDE DEF D
  <2> QED BY <2>1, <2>2
<1>5. SumFunctionOnSet(g, D \cup {new}) <= SumFunctionOnSet(f, D)
  <2>1. CASE new \in D
    <3>1. D \cup {new} = D
      BY <2>1
    <3>2. SumFunctionOnSet(f, D) = f[new] + SumFunctionOnSet(f, D \ {new})
      BY <1>2, <2>1, SumRemove
    <3>3. SumFunctionOnSet(g, D) = g[new] + SumFunctionOnSet(g, D \ {new})
      BY <1>2, <1>3, <2>1, SumRemove
    <3>4. IsFiniteSet(D \ {new}) /\ \A name \in D \ {new} : f[name] \in Nat /\ f[name] = g[name]
      BY <1>2, <1>3, FS_Subset
    <3>5. SumFunctionOnSet(f, D \ {new}) = SumFunctionOnSet(g, D \ {new})
          /\ SumFunctionOnSet(f, D \ {new}) \in Nat
      <4> HIDE DEF D, f, g
      <4> QED BY <3>4, SumSame, SumNat
    <3>6. f[new] \in Nat /\ g[new] = 0
      BY <1>2, <1>3, <2>1
    <3>7. SumFunctionOnSet(g, D) <= SumFunctionOnSet(f, D)
      <4> HIDE DEF f, g, D
      <4> QED BY <3>2, <3>3, <3>5, <3>6
    <3> QED BY <3>1, <3>7
  <2>2. CASE new \notin D
    <3>1. \A name \in D : f[name] \in Int /\ f[name] = g[name]
      BY <1>2, <1>3, <2>2
    <3>2. SumFunctionOnSet(g, D \cup {new}) = SumFunctionOnSet(f, D)
      BY <1>2, <1>3, <2>2, <3>1, SumZero
    <3> HIDE DEF f, g, D
    <3> QED BY <1>2, <3>2
  <2> QED BY <2>1, <2>2
<1>6. ZipTypes'
  BY <1>0, <1>1, <1>3, <1>4 DEF ZipInv, ZipTypes
<1>7. ZipCounts'
  <2>1. Cardinality(DOMAIN g) <= zipEntries + 1
    <3>1. Cardinality(D \cup {new}) \in Nat
      BY <1>4, FS_CardinalityType
    <3> HIDE DEF D, g
    <3> QED BY <1>2, <1>3, <1>4, <3>1, ZipFacts
  <2>2. SumFunctionOnSet(g, DOMAIN g) <= zipTotal + 0
    <3>1. SumFunctionOnSet(g, D \cup {new}) \in Nat
      <4>1. \A name \in D \cup {new} : g[name] \in Nat
        BY <1>3
      <4> QED BY <1>4, <4>1, SumNat
    <3> HIDE DEF D, g, f
    <3> QED BY <1>2, <1>3, <1>5, <3>1, ZipFacts
  <2>3. zipTotal + 0 <= Limit.total /\ 0 <= zip.entries[zipNext].blocks
    BY ZipFacts DEF ZipInv, ZipTypes
  <2> QED BY <1>0, <1>1, <1>3, <2>1, <2>2, <2>3 DEF ZipCounts
<1>8. ZipWhole'
  <2>1. ASSUME NEW name \in D \cup {new}
        PROVE  /\ g[name] <= Limit.single
               /\ name = new \/ LastOfName(zip, zipNext, g, name)
    <3>1. CASE name = new
      BY <1>3, <3>1, ZipFacts
    <3>2. CASE name # new
      BY <1>0, <1>3, <3>2 DEF ZipInv, ZipWhole, LastOfName
    <3> QED BY <3>1, <3>2
  <2> QED BY <1>0, <1>1, <1>3, <2>1 DEF ZipWhole
<1> QED BY <1>6, <1>7, <1>8 DEF ZipInv

LEMMA ZipCopyBlock == ASSUME ZipInv, Unpacking!CopyBlock PROVE ZipInv'
<1> PICK it : it = zip.entries[zipNext].name
  OBVIOUS
<1>1. /\ zipStep = "copying" /\ zipCopied < zip.entries[zipNext].blocks
      /\ zipCopied + 1 <= Limit.single /\ 1 <= Limit.total - zipTotal - zipCopied
      /\ zipCopied' = zipCopied + 1 /\ zipFiles' = [zipFiles EXCEPT ![it] = zipCopied + 1]
      /\ zip' = zip /\ zipNext' = zipNext /\ zipStep' = zipStep /\ zipEntries' = zipEntries
      /\ zipTotal' = zipTotal /\ zipLeft' = zipLeft
  BY DEF Unpacking!CopyBlock, Unpacking!MayCopy, Unpacking!Entry
<1>0. ZipInHand /\ ZipInHand' /\ zipLeft = FALSE
  BY <1>1 DEF ZipInHand, ZipInv, ZipTypes
<1> DEFINE D == DOMAIN zipFiles
           f == zipFiles
           g == zipFiles'
<1>2. /\ zipNext <= Len(zip.entries) /\ zip.entries[zipNext].kind = "file" /\ it \in D
      /\ f[it] = zipCopied /\ zipEntries < Limit.entries
      /\ Cardinality(D) <= zipEntries + 1 /\ SumFunctionOnSet(f, D) <= zipTotal + zipCopied
      /\ IsFiniteSet(D) /\ (\A name \in D : f[name] \in Nat) /\ SumFunctionOnSet(f, D) \in Nat
  BY <1>0, <1>1, ZipFacts DEF ZipInv, ZipCounts
<1>3. /\ DOMAIN g = D /\ g[it] = zipCopied + 1 /\ \A name \in D \ {it} : g[name] = f[name]
      /\ g \in [D -> Nat]
  <2>1. zipCopied + 1 \in Nat
    BY ZipFacts
  <2>2. \A name \in D : g[name] \in Nat
    BY <1>1, <1>2, <2>1
  <2> QED BY <1>1, <1>2, <2>2
<1>4. SumFunctionOnSet(g, D) = SumFunctionOnSet(f, D) + 1
  <2>1. \A name \in D : f[name] \in Int /\ g[name] \in Int
    BY <1>2, <1>3
  <2>2. SumFunctionOnSet(g, D) = SumFunctionOnSet(f, D) - f[it] + g[it]
    BY <1>2, <1>3, <2>1, SumChange
  <2> HIDE DEF D, f, g
  <2> QED BY <1>2, <1>3, <2>2, ZipFacts
<1>5. ZipTypes'
  BY <1>0, <1>1, <1>2, <1>3, ZipFacts DEF ZipInv, ZipTypes
<1>6. ZipCounts'
  <2>1. zipCopied + 1 <= zip.entries[zipNext].blocks /\ zipTotal + (zipCopied + 1) <= Limit.total
    <3>1. zip.entries[zipNext].blocks \in Nat /\ zipTotal \in Nat /\ zipCopied \in Nat /\ Limit.total \in Nat
      BY <1>2, ZipFacts
    <3>2. zipCopied < zip.entries[zipNext].blocks /\ 1 <= Limit.total - zipTotal - zipCopied
      BY <1>1
    <3> QED BY <3>1, <3>2
  <2>2. SumFunctionOnSet(g, D) <= zipTotal + (zipCopied + 1)
    <3> HIDE DEF D, f, g
    <3> QED BY <1>2, <1>4, ZipFacts
  <2> QED BY <1>0, <1>1, <1>2, <1>3, <2>1, <2>2 DEF ZipCounts
<1>7. ZipWhole'
  <2>1. ASSUME NEW name \in D
        PROVE  g[name] <= Limit.single /\ (name = it \/ LastOfName(zip, zipNext, g, name))
    <3>1. CASE name = it
      BY <1>1, <1>3, <3>1
    <3>2. CASE name # it
      BY <1>0, <1>3, <3>2 DEF ZipInv, ZipWhole, LastOfName
    <3> QED BY <3>1, <3>2
  <2> QED BY <1>0, <1>1, <1>3, <2>1 DEF ZipWhole
<1> QED BY <1>5, <1>6, <1>7 DEF ZipInv

LEMMA ZipCopyStops == ASSUME ZipInv, Unpacking!CopyStops PROVE ZipInv'
<1> PICK it : it = zip.entries[zipNext].name
  OBVIOUS
<1>1. /\ zipStep = "copying" /\ zipStep' \in {"limit", "error"}
      /\ zip' = zip /\ zipNext' = zipNext /\ zipEntries' = zipEntries /\ zipTotal' = zipTotal
      /\ zipCopied' = zipCopied
  BY DEF Unpacking!CopyStops
<1>0. ZipInHand /\ zipLeft = FALSE
  BY <1>1 DEF ZipInHand, ZipInv, ZipTypes
<1> DEFINE D == DOMAIN zipFiles
           f == zipFiles
           g == zipFiles'
<1>2. CASE zipLeft' = TRUE /\ zipFiles' = zipFiles
  <2>1. ZipInHand'
    BY <1>2 DEF ZipInHand
  <2>2. ZipTypes'
    BY <1>1, <1>2 DEF ZipInv, ZipTypes
  <2>3. ZipCounts'
    BY <1>0, <1>1, <1>2, <2>1 DEF ZipInv, ZipCounts
  <2>4. ZipWhole'
    BY <1>0, <1>1, <1>2, <2>1 DEF ZipInv, ZipWhole, LastOfName
  <2> QED BY <2>2, <2>3, <2>4 DEF ZipInv
<1>3. CASE zipFiles' = [n \in DOMAIN zipFiles \ {it} |-> zipFiles[n]] /\ zipLeft' = zipLeft
  <2>1. ~ZipInHand'
    BY <1>0, <1>1, <1>3 DEF ZipInHand
  <2>2. /\ it \in D /\ f[it] = zipCopied
        /\ Cardinality(D) <= zipEntries + 1 /\ SumFunctionOnSet(f, D) <= zipTotal + zipCopied
        /\ IsFiniteSet(D) /\ (\A name \in D : f[name] \in Nat) /\ Cardinality(D) \in Nat
    BY <1>0, ZipFacts DEF ZipInv, ZipCounts
  <2>3. /\ DOMAIN g = D \ {it} /\ \A name \in D \ {it} : g[name] = f[name]
        /\ g \in [D \ {it} -> Nat]
    BY <1>3, <2>2
  <2>4. IsFiniteSet(D \ {it}) /\ Cardinality(D \ {it}) = Cardinality(D) - 1
    BY <2>2, FS_RemoveElement, SMTT(30)
  <2>5. SumFunctionOnSet(g, D \ {it}) <= zipTotal
    <3>1. SumFunctionOnSet(f, D) = f[it] + SumFunctionOnSet(f, D \ {it})
      BY <2>2, SumRemove
    <3>2. \A name \in D \ {it} : f[name] \in Nat /\ f[name] = g[name]
      BY <2>2, <2>3
    <3>3. SumFunctionOnSet(f, D \ {it}) = SumFunctionOnSet(g, D \ {it}) /\ SumFunctionOnSet(f, D \ {it}) \in Nat
      BY <2>4, <3>2, SumSame, SumNat
    <3> HIDE DEF D, f, g
    <3> QED BY <2>2, <3>1, <3>3, ZipFacts
  <2>6. ZipTypes'
    BY <1>0, <1>1, <1>3, <2>3, <2>4 DEF ZipInv, ZipTypes
  <2>7. ZipCounts'
    <3>1. Cardinality(D \ {it}) <= zipEntries
      BY <2>2, <2>4, ZipFacts
    <3> QED BY <1>1, <2>1, <2>3, <2>5, <3>1 DEF ZipCounts
  <2>8. ZipWhole'
    BY <1>0, <1>1, <2>1, <2>3 DEF ZipInv, ZipWhole, LastOfName
  <2> QED BY <2>6, <2>7, <2>8 DEF ZipInv
<1> QED BY <1>2, <1>3 DEF Unpacking!CopyStops, Unpacking!Without, Unpacking!Entry

LEMMA ZipCopyEnds == ASSUME ZipInv, Unpacking!CopyEnds PROVE ZipInv'
<1> PICK it : it = zip.entries[zipNext].name
  OBVIOUS
<1>1. /\ zipStep = "copying" /\ zipCopied = zip.entries[zipNext].blocks /\ zipStep' = "entry"
      /\ zipNext' = zipNext + 1 /\ zipEntries' = zipEntries + 1 /\ zipTotal' = zipTotal + zipCopied
      /\ zip' = zip /\ zipFiles' = zipFiles /\ zipCopied' = zipCopied /\ zipLeft' = zipLeft
  BY DEF Unpacking!CopyEnds, Unpacking!Entry
<1>0. ZipInHand /\ ~ZipInHand' /\ zipLeft = FALSE
  BY <1>1 DEF ZipInHand, ZipInv, ZipTypes
<1>2. /\ zipNext <= Len(zip.entries) /\ zip.entries[zipNext].kind = "file" /\ it \in DOMAIN zipFiles
      /\ zipFiles[it] = zipCopied
      /\ zipEntries < Limit.entries /\ zipTotal + zipCopied <= Limit.total
      /\ Cardinality(DOMAIN zipFiles) <= zipEntries + 1
      /\ SumFunctionOnSet(zipFiles, DOMAIN zipFiles) <= zipTotal + zipCopied
  BY <1>0, <1>1 DEF ZipInv, ZipCounts
<1>3. ZipTypes'
  <2>1. zipNext' \in 1..Len(zip.entries) + 1 /\ zipEntries' \in 0..Limit.entries /\ zipTotal' \in 0..Limit.total
    <3>1. zipNext \in Nat \ {0} /\ Len(zip.entries) \in Nat /\ zipEntries \in Nat /\ zipTotal \in Nat
          /\ zipCopied \in Nat /\ Limit.entries \in Nat /\ Limit.total \in Nat
      BY ZipFacts
    <3>2. zipNext + 1 \in 1..Len(zip.entries) + 1
      BY <1>2, <3>1
    <3>3. zipEntries + 1 \in 0..Limit.entries
      BY <1>2, <3>1
    <3>4. zipTotal + zipCopied \in 0..Limit.total
      BY <1>2, <3>1
    <3> QED BY <1>1, <3>2, <3>3, <3>4
  <2> QED BY <1>0, <1>1, <2>1 DEF ZipInv, ZipTypes
<1>4. ZipCounts'
  BY <1>0, <1>1, <1>2 DEF ZipCounts
<1>5. ZipWhole'
  <2>1. ASSUME NEW name \in DOMAIN zipFiles PROVE LastOfName(zip, zipNext + 1, zipFiles, name)
    <3>1. CASE name = it
      BY <1>1, <1>2, <3>1, NamedLast, ZipFacts DEF LastOfName
    <3>2. CASE name # it
      <4>1. LastOfName(zip, zipNext, zipFiles, name)
        BY <1>0, <1>1, <3>2 DEF ZipInv, ZipWhole
      <4>2. ZipNamed(zip, zipNext + 1, name) = ZipNamed(zip, zipNext, name)
        BY <3>2, NamedPassed, ZipFacts
      <4> QED BY <4>1, <4>2 DEF LastOfName
    <3> QED BY <3>1, <3>2
  <2> QED BY <1>0, <1>1, <2>1 DEF ZipInv, ZipWhole
<1> QED BY <1>3, <1>4, <1>5 DEF ZipInv

LEMMA ZipInvStep == ZipInv /\ (Unpacking!Next \/ UNCHANGED zipVars) => ZipInv'
<1>1. ASSUME ZipInv, UNCHANGED zipVars PROVE ZipInv'
  <2>1. /\ zip' = zip /\ zipNext' = zipNext /\ zipStep' = zipStep /\ zipFiles' = zipFiles
        /\ zipEntries' = zipEntries /\ zipTotal' = zipTotal /\ zipCopied' = zipCopied
        /\ zipLeft' = zipLeft
    BY <1>1 DEF zipVars
  <2> QED BY <1>1, <2>1 DEF ZipInv, ZipTypes, ZipCounts, ZipWhole, ZipInHand
<1>2. ASSUME ZipInv, Unpacking!Open PROVE ZipInv'
  BY <1>2, ZipQuiet DEF Unpacking!Open
<1>3. ASSUME ZipInv, Unpacking!ReadEntry PROVE ZipInv'
  <2>1. zipStep = "entry" /\ zipNext <= Len(zip.entries) /\ zip' = zip /\ zipTotal' = zipTotal
        /\ zipLeft' = zipLeft
    BY <1>3 DEF Unpacking!ReadEntry
  <2>2. CASE Unpacking!Skip
    <3>1. zipEntries \in zipEntries..Limit.entries
      BY <1>3, ZipFacts DEF ZipInv, ZipTypes
    <3> QED BY <1>3, <2>1, <2>2, <3>1, ZipQuiet DEF Unpacking!Skip, Unpacking!Entry
  <2>3. CASE Unpacking!Refuse
    BY <1>3, <2>1, <2>3, ZipQuiet DEF Unpacking!Refuse
  <2>4. CASE Unpacking!MakeDirectory
    <3>1. zipEntries + 1 \in zipEntries..Limit.entries
      BY <1>3, <2>4, ZipFacts DEF Unpacking!MakeDirectory, Unpacking!Accepted
    <3> QED BY <1>3, <2>1, <2>4, <3>1, ZipQuiet DEF Unpacking!MakeDirectory, Unpacking!Entry
  <2>5. CASE Unpacking!CreateFile
    BY <1>3, <2>1, <2>5, ZipCreate
  <2>6. CASE zipStep' = "error" /\ UNCHANGED <<zipNext, zipFiles, zipEntries, zipCopied>>
    BY <1>3, <2>1, <2>6, ZipQuiet
  <2> QED BY <1>3, <2>2, <2>3, <2>4, <2>5, <2>6 DEF Unpacking!ReadEntry
<1>4. ASSUME ZipInv, Unpacking!Finish PROVE ZipInv'
  BY <1>4, ZipQuiet DEF Unpacking!Finish
<1> QED BY <1>1, <1>2, <1>3, <1>4, ZipCopyBlock, ZipCopyStops, ZipCopyEnds DEF Unpacking!Next

LEMMA ZipHolds == ZipInv => Unpacking!TypeOK /\ Unpacking!UnpackedWithinLimits
<1> SUFFICES ASSUME ZipInv PROVE Unpacking!TypeOK /\ Unpacking!UnpackedWithinLimits
  OBVIOUS
<1>1. Unpacking!TypeOK
  BY ZipFacts DEF ZipInv, ZipTypes, Unpacking!TypeOK
<1>2. Cardinality(DOMAIN zipFiles) <= Limit.entries
  <2>1. CASE ZipInHand
    <3>1. zipEntries < Limit.entries /\ Cardinality(DOMAIN zipFiles) <= zipEntries + 1
      BY <2>1 DEF ZipInv, ZipCounts
    <3> QED BY <3>1, ZipFacts
  <2>2. CASE ~ZipInHand
    <3>1. zipEntries <= Limit.entries /\ Cardinality(DOMAIN zipFiles) <= zipEntries
      BY <2>2, ZipFacts DEF ZipInv, ZipCounts, ZipTypes
    <3> QED BY <3>1, ZipFacts
  <2> QED BY <2>1, <2>2
<1>3. SumFunctionOnSet(zipFiles, DOMAIN zipFiles) <= Limit.total
  <2>1. CASE ZipInHand
    <3>1. /\ zipTotal + zipCopied <= Limit.total
          /\ SumFunctionOnSet(zipFiles, DOMAIN zipFiles) <= zipTotal + zipCopied
      BY <2>1 DEF ZipInv, ZipCounts
    <3> QED BY <3>1, ZipFacts
  <2>2. CASE ~ZipInHand
    <3>1. zipTotal <= Limit.total /\ SumFunctionOnSet(zipFiles, DOMAIN zipFiles) <= zipTotal
      BY <2>2, ZipFacts DEF ZipInv, ZipCounts, ZipTypes
    <3> QED BY <3>1, ZipFacts
  <2> QED BY <2>1, <2>2
<1>4. Unpacking!SumFunction(zipFiles) = SumFunctionOnSet(zipFiles, DOMAIN zipFiles)
  BY DEF Unpacking!SumFunction, Unpacking!SumFunctionOnSet, Unpacking!FoldFunctionOnSet,
         Unpacking!MapThenFoldSet, SumFunctionOnSet, FoldFunctionOnSet, MapThenFoldSet
<1>5. \A name : Unpacking!Named(name) = ZipNamed(zip, zipNext, name)
  BY DEF Unpacking!Named, ZipNamed
<1>6. \A name \in DOMAIN zipFiles :
        /\ zipFiles[name] <= Limit.single
        /\ \/ (zipStep = "copying" \/ zipLeft) /\ name = Unpacking!Entry.name
           \/ /\ Unpacking!Named(name) # {}
              /\ zipFiles[name] = zip.entries[Unpacking!Max(Unpacking!Named(name))].blocks
  BY <1>5 DEF ZipInv, ZipWhole, ZipInHand, LastOfName, Unpacking!Entry
<1>7. Unpacking!Cardinality(DOMAIN zipFiles) = Cardinality(DOMAIN zipFiles)
  BY DEF Unpacking!Cardinality, Cardinality
<1> QED BY <1>1, <1>2, <1>3, <1>4, <1>6, <1>7 DEF Unpacking!UnpackedWithinLimits

ZipPart == part = "archive" => ZipInv

(* Housekeeping's UnpackedWithinLimits: at no moment of the unpacking is   *)
(* there more on the disk than the limits allow, in files, in bytes of one *)
(* and in bytes of all, whatever the archive says and however often it     *)
(* names a file; and no file is left in part that could be removed.        *)
(* (extract_zip_archive, copy_zip_file_with_limits.)                       *)
THEOREM UnpackedWithinLimitsAlways == HousekeepingSpec => []UnpackedWithinLimits
<1>1. HousekeepingInit => ZipPart
  BY ZipInit DEF HousekeepingInit, ZipPart
<1>2. ZipPart /\ [HousekeepingNext]_<<part, vars, logVars, zipVars, toolVars>> => ZipPart'
  <2> SUFFICES ASSUME ZipPart, HousekeepingNext \/ UNCHANGED <<part, vars, logVars, zipVars, toolVars>>,
                      part' = "archive"
               PROVE  ZipInv'
    BY DEF ZipPart
  <2>1. part = "archive" /\ (Unpacking!Next \/ UNCHANGED zipVars)
    BY DEF HousekeepingNext
  <2> QED BY <2>1, ZipInvStep DEF ZipPart
<1>3. ZipPart => UnpackedWithinLimits
  BY ZipHolds DEF ZipPart, UnpackedWithinLimits
<1> QED BY <1>1, <1>2, <1>3, PTL DEF HousekeepingSpec

-----------------------------------------------------------------------------
(* The context tools.                                                      *)

\* The steps of the folds of Lookup.
WantStep(c, files, f) == IF f.place = "kept" /\ f.glob THEN Append(files, f) ELSE files
Wanting == INSTANCE FoldFacts WITH Op <- WantStep

ListStep(c, files, f) ==
  IF (f.place \in {"kept", "low"} /\ f.place /= "low" /\ f.glob) /\ Len(files) < ListMax
  THEN Append(files, f) ELSE files
Listing == INSTANCE FoldFacts WITH Op <- ListStep

IsSearched(f) ==
  /\ f.place \in {"kept", "low"} /\ f.place /= "low" /\ ~f.large /\ f.glob
  /\ Tools!Valid(Tools!FlattenSeq(f.lines))
SearchStep(c, acc, f) ==
  LET most == IF IsSearched(f) THEN Tools!Min({f.hits, FileMax, SearchMax - acc.all}) ELSE 0
  IN  [all |-> acc.all + most, matches |-> Append(acc.matches, most)]
Searching == INSTANCE FoldFacts WITH Op <- SearchStep

\* The bytes of a text that is cut after m characters.
CutSize(text, m) == Wrapper + Tools!Quoted(SubSeq(text, 1, m))
HalveStep(c, range, round) ==
  LET middle == range.low + (range.high - range.low) \div 2
  IN  IF range.low >= range.high THEN range
      ELSE IF CutSize(c[1], middle) <= c[2] THEN [range EXCEPT !.low = middle + 1]
      ELSE [range EXCEPT !.high = middle]
Halving == INSTANCE FoldFacts WITH Op <- HalveStep

LEMMA WantedIsFold == Tools!Wanted = Wanting!Result(0, <<>>, toolCall.tree)
<1> QED BY DEF Tools!Wanted, Tools!FoldLeft, Tools!MapThenFoldSet, Wanting!Result, WantStep,
               Wanting!Max, Tools!Max

ListOf(tree) == Listing!Result(0, <<>>, tree)

LEMMA ListIsFold ==
  ASSUME NEW tree
  PROVE  Tools!List(tree) = [ok |-> TRUE, files |-> ListOf(tree),
                             truncated |-> Len(ListOf(tree)) >= ListMax]
<1> QED BY DEF Tools!List, Tools!Visited, Tools!Full, Tools!FoldLeft, Tools!MapThenFoldSet, ListOf,
               Listing!Result, ListStep, Listing!Max, Tools!Max

SearchOf(tree) == Searching!Result(0, [all |-> 0, matches |-> <<>>], tree)

LEMMA SearchIsFold ==
  ASSUME NEW tree
  PROVE  Tools!Search(tree) = [ok |-> TRUE, matches |-> SearchOf(tree).matches,
                               truncated |-> SearchOf(tree).all >= SearchMax]
<1> QED BY DEF Tools!Search, Tools!Visited, Tools!Full, Tools!FoldLeft, Tools!MapThenFoldSet,
               SearchOf, IsSearched, Searching!Result, SearchStep, Searching!Max, Tools!Max

Rounds(n) == [round \in 1..n |-> round]
RangeAfter(text, most, rounds) ==
  Halving!Result(<<text, most>>, [low |-> 0, high |-> Len(text) + 1], rounds)

LEMMA BoundariesIsFold ==
  Tools!Boundaries = RangeAfter(toolText, Tools!Allowed, Rounds(Len(toolText) + 1)).low
<1> QED BY DEF Tools!Boundaries, Tools!Halve, Tools!Cut, Tools!FoldLeft, Tools!MapThenFoldSet,
               RangeAfter, Rounds, Halving!Result, HalveStep, CutSize, Halving!Max, Tools!Max
LEMMA LeastOfTwo ==
  ASSUME NEW a \in Int, NEW b \in Int
  PROVE  /\ Tools!Min({a, b}) = (IF a <= b THEN a ELSE b)
         /\ Tools!Max({a, b}) = (IF a >= b THEN a ELSE b)
<1>1. \E x \in {a, b} : \A y \in {a, b} : x <= y
  OBVIOUS
<1>2. \E x \in {a, b} : \A y \in {a, b} : x >= y
  OBVIOUS
<1>3. Tools!Min({a, b}) \in {a, b} /\ \A y \in {a, b} : Tools!Min({a, b}) <= y
  BY <1>1 DEF Tools!Min
<1>4. Tools!Max({a, b}) \in {a, b} /\ \A y \in {a, b} : Tools!Max({a, b}) >= y
  BY <1>2 DEF Tools!Max
<1> QED BY <1>3, <1>4

LEMMA LeastOfThree ==
  ASSUME NEW a \in Int, NEW b \in Int, NEW d \in Int
  PROVE  /\ Tools!Min({a, b, d}) \in {a, b, d}
         /\ \A y \in {a, b, d} : Tools!Min({a, b, d}) <= y
<1>1. \E x \in {a, b, d} : \A y \in {a, b, d} : x <= y
  OBVIOUS
<1> QED BY <1>1 DEF Tools!Min

\* A list is the beginning of what may be listed, and all of it if not full.
Begins(s, t) == Len(s) <= Len(t) /\ \A i \in 1..Len(s) : s[i] = t[i]

LEMMA BeginsIsPrefix ==
  ASSUME NEW U, NEW s \in Seq(U), NEW t \in Seq(U), Begins(s, t)
  PROVE  Tools!IsPrefix(s, t) /\ (Len(s) = Len(t) => s = t)
<1>1. Len(s) \in Nat /\ Len(t) \in Nat /\ Len(s) <= Len(t)
  BY LenProperties DEF Begins
<1>2. (\A i \in 1..Len(s) : s[i] \in U) /\ (\A i \in 1..Len(t) : t[i] \in U)
  BY ElementOfSeq
<1>3. /\ SubSeq(t, 1, Len(s)) \in Seq(U) /\ Len(SubSeq(t, 1, Len(s))) = Len(s)
      /\ \A i \in 1..Len(s) : SubSeq(t, 1, Len(s))[i] = t[i]
  <2>1. \A i \in 1..Len(s) : t[i] \in U
    BY <1>1, <1>2
  <2>2. /\ SubSeq(t, 1, Len(s)) \in Seq(U)
        /\ Len(SubSeq(t, 1, Len(s))) = IF 1 <= Len(s) THEN Len(s) - 1 + 1 ELSE 0
        /\ \A i \in 1..Len(s) - 1 + 1 : SubSeq(t, 1, Len(s))[i] = t[1 + i - 1]
    BY <1>1, <2>1, SubSeqProperties
  <2> QED BY <1>1, <2>2
<1>4. SubSeq(t, 1, Len(s)) = s
  BY <1>3, SeqEqual DEF Begins
<1>5. SubSeq(s, 1, Len(s)) = s /\ SubSeq(t, 1, Len(t)) = t
  BY SubSeqFull
<1> QED BY <1>1, <1>4, <1>5 DEF Tools!IsPrefix

WantedOf(tree) == Wanting!Result(0, <<>>, tree)
ListStands(tree) ==
  /\ ListOf(tree) \in Seq(LookupFile) /\ WantedOf(tree) \in Seq(LookupFile)
  /\ Begins(ListOf(tree), WantedOf(tree))
  /\ Len(ListOf(tree)) < ListMax => ListOf(tree) = WantedOf(tree)

LEMMA ListIsBeginning == \A tree \in Seq(LookupFile) : ListStands(tree)
<1> DEFINE G == {tree \in Seq(LookupFile) : ListStands(tree)}
<1>1. <<>> \in G
  <2>1. ListOf(<<>>) = <<>> /\ WantedOf(<<>>) = <<>>
    BY Listing!FoldEmpty, Wanting!FoldEmpty DEF ListOf, WantedOf
  <2>2. <<>> \in Seq(LookupFile) /\ Len(<<>>) = 0
    BY EmptySeq
  <2>3. ListStands(<<>>)
    <3>1. Begins(<<>>, <<>>)
      BY <2>2 DEF Begins
    <3> QED BY <2>1, <2>2, <3>1 DEF ListStands
  <2> QED BY <2>2, <2>3
<1>2. ASSUME NEW tree \in Seq(LookupFile), NEW f \in LookupFile, tree \in G
      PROVE  Append(tree, f) \in G
  <2> DEFINE a == ListOf(tree)
             w == WantedOf(tree)
  <2>1. ListOf(Append(tree, f)) = ListStep(0, a, f) /\ WantedOf(Append(tree, f)) = WantStep(0, w, f)
    BY Listing!FoldAppend, Wanting!FoldAppend DEF ListOf, WantedOf
  <2>2. /\ a \in Seq(LookupFile) /\ w \in Seq(LookupFile) /\ Begins(a, w)
        /\ Len(a) < ListMax => a = w
    BY <1>2 DEF ListStands
  <2>3. Append(tree, f) \in Seq(LookupFile)
    BY AppendProperties
  <2> SUFFICES ListStands(Append(tree, f))
    BY <2>3
  <2> HIDE DEF a, w, G
  <2>4. CASE ~(f.place = "kept" /\ f.glob)
    <3>1. ListStep(0, a, f) = a /\ WantStep(0, w, f) = w
      BY <2>4 DEF ListStep, WantStep
    <3> QED BY <2>1, <2>2, <3>1 DEF ListStands
  <2>5. CASE (f.place = "kept" /\ f.glob) /\ Len(a) < ListMax
    <3>1. ListStep(0, a, f) = Append(a, f) /\ WantStep(0, w, f) = Append(a, f)
      BY <2>2, <2>5 DEF ListStep, WantStep
    <3>2. Append(a, f) \in Seq(LookupFile) /\ Len(Append(a, f)) \in Nat
      BY <2>2, AppendProperties, LenProperties
    <3>3. Begins(Append(a, f), Append(a, f))
      BY <3>2 DEF Begins
    <3> QED BY <2>1, <3>1, <3>2, <3>3 DEF ListStands
  <2>6. CASE (f.place = "kept" /\ f.glob) /\ ~(Len(a) < ListMax)
    <3>1. ListStep(0, a, f) = a /\ WantStep(0, w, f) = Append(w, f)
      BY <2>6 DEF ListStep, WantStep
    <3>2. /\ Append(w, f) \in Seq(LookupFile) /\ Len(Append(w, f)) = Len(w) + 1
          /\ \A i \in 1..Len(w) : Append(w, f)[i] = w[i]
      BY <2>2, AppendProperties
    <3>3. Len(a) \in Nat /\ Len(w) \in Nat
      BY <2>2, LenProperties
    <3>4. Begins(a, Append(w, f))
      BY <2>2, <3>2, <3>3 DEF Begins
    <3> QED BY <2>1, <2>2, <2>6, <3>1, <3>2, <3>4 DEF ListStands
  <2> QED BY <2>4, <2>5, <2>6
<1> HIDE DEF G
<1>3. Seq(LookupFile) \subseteq G
  BY <1>1, <1>2, SeqInduction
<1> QED BY <1>3 DEF G

\* What a search finds in a file, if nothing keeps it from it.
Due(f) ==
  IF f.place = "kept" /\ f.glob /\ ~f.large /\ Tools!Valid(Tools!FlattenSeq(f.lines))
  THEN Tools!Min({f.hits, FileMax}) ELSE 0

SearchStands(tree) ==
  /\ SearchOf(tree).all \in Nat /\ SearchOf(tree).all <= SearchMax
  /\ SearchOf(tree).matches \in Seq(Nat) /\ Len(SearchOf(tree).matches) = Len(tree)
  /\ \A i \in 1..Len(tree) :
       /\ SearchOf(tree).matches[i] <= Due(tree[i])
       /\ SearchOf(tree).all < SearchMax => SearchOf(tree).matches[i] = Due(tree[i])

LEMMA SearchTakes ==
  ASSUME NEW f \in LookupFile, NEW all \in Nat, all <= SearchMax
  PROVE  LET most == IF IsSearched(f) THEN Tools!Min({f.hits, FileMax, SearchMax - all}) ELSE 0
         IN  /\ most \in Nat /\ all + most <= SearchMax /\ most <= Due(f)
             /\ all + most < SearchMax => most = Due(f)
<1>1. f.hits \in Nat /\ FileMax \in Nat /\ SearchMax \in Nat /\ SearchMax - all \in Nat
  BY LookupAssumption DEF LookupFile
<1> DEFINE m3 == Tools!Min({f.hits, FileMax, SearchMax - all})
           m2 == Tools!Min({f.hits, FileMax})
<1>2. /\ m3 \in {f.hits, FileMax, SearchMax - all}
      /\ \A y \in {f.hits, FileMax, SearchMax - all} : m3 <= y
      /\ m2 = IF f.hits <= FileMax THEN f.hits ELSE FileMax
  <2>1. f.hits \in Int /\ FileMax \in Int /\ SearchMax - all \in Int
    BY <1>1
  <2>2. m2 = IF f.hits <= FileMax THEN f.hits ELSE FileMax
    BY <2>1, LeastOfTwo
  <2>3. /\ m3 \in {f.hits, FileMax, SearchMax - all}
        /\ \A y \in {f.hits, FileMax, SearchMax - all} : m3 <= y
    BY <2>1, LeastOfThree
  <2> QED BY <2>2, <2>3
<1>3. IsSearched(f) <=> (f.place = "kept" /\ f.glob /\ ~f.large /\ Tools!Valid(Tools!FlattenSeq(f.lines)))
  BY DEF IsSearched
<1> HIDE DEF m3, m2
<1>4. m3 \in Nat /\ all + m3 <= SearchMax /\ m3 <= m2 /\ (all + m3 < SearchMax => m3 = m2)
  BY <1>1, <1>2
<1>5. CASE IsSearched(f)
  <2>1. Due(f) = m2
    BY <1>3, <1>5 DEF Due, m2
  <2> QED BY <1>4, <1>5, <2>1 DEF m3
<1>6. CASE ~IsSearched(f)
  <2>1. Due(f) = 0
    BY <1>3, <1>6 DEF Due
  <2> QED BY <1>6, <2>1
<1> QED BY <1>5, <1>6

LEMMA SearchIsDue == \A tree \in Seq(LookupFile) : SearchStands(tree)
<1> DEFINE G == {tree \in Seq(LookupFile) : SearchStands(tree)}
<1>1. <<>> \in G
  <2>1. SearchOf(<<>>) = [all |-> 0, matches |-> <<>>]
    BY Searching!FoldEmpty DEF SearchOf
  <2>2. <<>> \in Seq(LookupFile) /\ <<>> \in Seq(Nat) /\ Len(<<>>) = 0
    BY EmptySeq
  <2>3. SearchStands(<<>>)
    <3>1. [all |-> 0, matches |-> <<>>].all = 0 /\ [all |-> 0, matches |-> <<>>].matches = <<>>
      OBVIOUS
    <3>2. 0 <= SearchMax
      BY LookupAssumption
    <3>3. SearchOf(<<>>).all = 0 /\ SearchOf(<<>>).matches = <<>>
      BY <2>1, <3>1
    <3>4. \A i \in 1..Len(<<>>) : FALSE
      BY <2>2
    <3>5. 0 \in Nat
      OBVIOUS
    <3> HIDE DEF G
    <3> DEFINE acc == SearchOf(<<>>)
    <3>6. acc.all = 0 /\ acc.matches = <<>>
      BY <3>3
    <3> HIDE DEF acc
    <3>7. /\ acc.all \in Nat /\ acc.all <= SearchMax
          /\ acc.matches \in Seq(Nat) /\ Len(acc.matches) = Len(<<>>)
      BY <2>2, <3>2, <3>5, <3>6
    <3> QED BY <3>4, <3>7 DEF SearchStands, acc
  <2> QED BY <2>2, <2>3
<1>2. ASSUME NEW tree \in Seq(LookupFile), NEW f \in LookupFile, tree \in G
      PROVE  Append(tree, f) \in G
  <2> DEFINE acc == SearchOf(tree)
             most == IF IsSearched(f) THEN Tools!Min({f.hits, FileMax, SearchMax - acc.all}) ELSE 0
  <2>1. SearchOf(Append(tree, f)) = SearchStep(0, acc, f)
    BY Searching!FoldAppend DEF SearchOf
  <2>2. SearchOf(Append(tree, f)) = [all |-> acc.all + most, matches |-> Append(acc.matches, most)]
    BY <2>1 DEF SearchStep
  <2>3. /\ acc.all \in Nat /\ acc.all <= SearchMax
        /\ acc.matches \in Seq(Nat) /\ Len(acc.matches) = Len(tree)
        /\ \A i \in 1..Len(tree) :
             /\ acc.matches[i] <= Due(tree[i])
             /\ acc.all < SearchMax => acc.matches[i] = Due(tree[i])
    BY <1>2 DEF SearchStands
  <2>4. /\ most \in Nat /\ acc.all + most <= SearchMax /\ most <= Due(f)
        /\ acc.all + most < SearchMax => most = Due(f)
    BY <2>3, SearchTakes
  <2>5. /\ Append(tree, f) \in Seq(LookupFile) /\ Len(Append(tree, f)) = Len(tree) + 1
        /\ \A i \in 1..Len(tree) : Append(tree, f)[i] = tree[i]
        /\ Append(tree, f)[Len(tree) + 1] = f /\ Len(tree) \in Nat
    BY AppendProperties, LenProperties
  <2> SUFFICES SearchStands(Append(tree, f))
    BY <2>5
  <2> HIDE DEF acc, most, G
  <2>6. /\ Append(acc.matches, most) \in Seq(Nat) /\ Len(Append(acc.matches, most)) = Len(tree) + 1
        /\ \A i \in 1..Len(tree) : Append(acc.matches, most)[i] = acc.matches[i]
        /\ Append(acc.matches, most)[Len(tree) + 1] = most
    BY <2>3, <2>4, AppendProperties
  <2>7. acc.all + most < SearchMax => acc.all < SearchMax
    BY <2>3, <2>4, LookupAssumption
  <2>8. ASSUME NEW i \in 1..Len(tree) + 1
        PROVE  /\ Append(acc.matches, most)[i] <= Due(Append(tree, f)[i])
               /\ acc.all + most < SearchMax => Append(acc.matches, most)[i] = Due(Append(tree, f)[i])
    <3>1. CASE i \in 1..Len(tree)
      BY <2>3, <2>5, <2>6, <2>7, <3>1
    <3>2. CASE i = Len(tree) + 1
      BY <2>4, <2>5, <2>6, <3>2
    <3>3. i \in 1..Len(tree) \/ i = Len(tree) + 1
      BY <2>5
    <3> QED BY <3>1, <3>2, <3>3
  <2>9. acc.all + most \in Nat
    BY <2>3, <2>4
  <2> QED BY <2>2, <2>4, <2>5, <2>6, <2>8, <2>9 DEF SearchStands
<1> HIDE DEF G
<1>3. Seq(LookupFile) \subseteq G
  BY <1>1, <1>2, SeqInduction
<1> QED BY <1>3 DEF G

-----------------------------------------------------------------------------
(* Texts that are cut.                                                     *)

SumOfBytes(chars) == SumFunctionOnSet([i \in DOMAIN chars |-> chars[i].bytes], DOMAIN chars)
SumOfQuoted(chars) == SumFunctionOnSet([i \in DOMAIN chars |-> chars[i].quoted], DOMAIN chars)

LEMMA TextSizes ==
  ASSUME NEW chars \in Seq(LookupChar)
  PROVE  /\ Tools!Bytes(chars) = SumOfBytes(chars) /\ Tools!Quoted(chars) = SumOfQuoted(chars)
         /\ Tools!Bytes(chars) \in Nat /\ Tools!Quoted(chars) \in Nat
         /\ (\A i \in DOMAIN chars : chars[i].bytes <= chars[i].quoted)
              => Tools!Bytes(chars) <= Tools!Quoted(chars)
<1> DEFINE B == [i \in DOMAIN chars |-> chars[i].bytes]
           Q == [i \in DOMAIN chars |-> chars[i].quoted]
<1>1. DOMAIN B = DOMAIN chars /\ DOMAIN Q = DOMAIN chars
  OBVIOUS
<1>2. Len(chars) \in Nat /\ DOMAIN chars = 1..Len(chars) /\ \A i \in DOMAIN chars : chars[i] \in LookupChar
  BY LenProperties, ElementOfSeq
<1>3. IsFiniteSet(DOMAIN chars)
  BY <1>2, FS_Interval
<1>4. \A i \in DOMAIN chars :
        /\ B[i] = chars[i].bytes /\ Q[i] = chars[i].quoted
        /\ B[i] \in Nat /\ Q[i] \in Nat
  BY <1>2 DEF LookupChar
<1>5. Tools!Bytes(chars) = Tools!SumFunction(B) /\ Tools!Quoted(chars) = Tools!SumFunction(Q)
  BY DEF Tools!Bytes, Tools!Quoted
<1>6. SumOfBytes(chars) = SumFunctionOnSet(B, DOMAIN chars) /\ SumOfQuoted(chars) = SumFunctionOnSet(Q, DOMAIN chars)
  BY DEF SumOfBytes, SumOfQuoted
<1> HIDE DEF B, Q
<1>7. /\ Tools!SumFunction(B) = SumFunctionOnSet(B, DOMAIN chars)
      /\ Tools!SumFunction(Q) = SumFunctionOnSet(Q, DOMAIN chars)
  BY <1>1 DEF Tools!SumFunction, Tools!SumFunctionOnSet, Tools!FoldFunctionOnSet,
              Tools!MapThenFoldSet, SumFunctionOnSet, FoldFunctionOnSet, MapThenFoldSet
<1>8. SumFunctionOnSet(B, DOMAIN chars) \in Nat /\ SumFunctionOnSet(Q, DOMAIN chars) \in Nat
  BY <1>3, <1>4, SumNat
<1>9. ASSUME \A i \in DOMAIN chars : chars[i].bytes <= chars[i].quoted
      PROVE  SumFunctionOnSet(B, DOMAIN chars) <= SumFunctionOnSet(Q, DOMAIN chars)
  <2>1. \A i \in DOMAIN chars : B[i] \in Int /\ Q[i] \in Int /\ B[i] <= Q[i]
    BY <1>4, <1>9
  <2> QED BY <1>3, <2>1, SumBelow
<1> QED BY <1>5, <1>6, <1>7, <1>8, <1>9

\* The first characters of a text.
LEMMA FirstChars ==
  ASSUME NEW U, NEW s \in Seq(U), NEW n \in 0..Len(s)
  PROVE  /\ SubSeq(s, 1, n) \in Seq(U) /\ Len(SubSeq(s, 1, n)) = n
         /\ Begins(SubSeq(s, 1, n), s)
<1>1. Len(s) \in Nat /\ \A i \in 1..n : s[i] \in U
  BY LenProperties, ElementOfSeq
<1>2. /\ SubSeq(s, 1, n) \in Seq(U) /\ Len(SubSeq(s, 1, n)) = IF 1 <= n THEN n - 1 + 1 ELSE 0
      /\ \A i \in 1..n - 1 + 1 : SubSeq(s, 1, n)[i] = s[1 + i - 1]
  BY <1>1, SubSeqProperties
<1>3. n - 1 + 1 = n /\ n \in Nat /\ n <= Len(s) /\ \A i \in 1..n : 1 + i - 1 = i
  BY <1>1
<1> QED BY <1>2, <1>3 DEF Begins

\* What lies within so many bytes begins the text, and is not followed by a
\* character that does, too.
LEMMA WithinIs ==
  ASSUME NEW chars \in Seq(LookupChar), NEW most \in Nat
  PROVE  LET head == Tools!Within(chars, most)
         IN  /\ head \in Seq(LookupChar)
             /\ Tools!IsPrefix(head, chars) /\ Tools!Bytes(head) <= most
             /\ Tools!Bytes(chars) <= most => head = chars
             /\ Tools!Bytes(chars) > most => Tools!Bytes(SubSeq(chars, 1, Len(head) + 1)) > most
<1> DEFINE n == Len(chars)
           Fit == {m \in 0..n : Tools!Bytes(SubSeq(chars, 1, m)) <= most}
           k == Tools!Max(Fit)
<1>1. n \in Nat
  BY LenProperties
<1>2. \A m \in 0..n : /\ SubSeq(chars, 1, m) \in Seq(LookupChar)
                      /\ Tools!Bytes(SubSeq(chars, 1, m)) \in Nat
  BY FirstChars, TextSizes
<1>3. 0 \in Fit
  <2>1. SubSeq(chars, 1, 0) = <<>>
    BY SubSeqEmpty
  <2>2. <<>> \in Seq(LookupChar) /\ DOMAIN <<>> = {}
    BY EmptySeq
  <2>3. Tools!Bytes(<<>>) = 0
    BY <2>2, TextSizes, SumEmpty DEF SumOfBytes
  <2>4. Tools!Bytes(SubSeq(chars, 1, 0)) <= most
    <3>1. 0 <= most
      OBVIOUS
    <3>2. Tools!Bytes(SubSeq(chars, 1, 0)) = 0
      BY <2>1, <2>3, Zenon
    <3> QED BY <3>1, <3>2
  <2>5. 0 \in 0..n
    BY <1>1
  <2> QED BY <2>4, <2>5
<1>4. k \in Fit /\ \A m \in Fit : k >= m
  <2>1. \E x \in Fit : \A y \in Fit : x >= y
    <3> DEFINE Out == {m \in Nat : ~(\E x \in Fit : x >= m)}
               Low == {m \in Nat : m \notin Out}
    <3> SUFFICES ASSUME ~(\E x \in Fit : \A y \in Fit : x >= y) PROVE FALSE
      OBVIOUS
    <3>1. Fit \subseteq 0..n
      OBVIOUS
    <3> HIDE DEF Fit
    <3>2. 0 \in Low
      BY <1>3
    <3>3. ASSUME NEW m \in Nat, m \in Low PROVE m + 1 \in Low
      <4>1. PICK x \in Fit : x >= m
        BY <3>3
      <4>2. PICK y \in Fit : ~(x >= y)
        OBVIOUS
      <4>3. y >= m + 1
        BY <3>1, <4>1, <4>2, <1>1
      <4> QED BY <4>3
    <3> HIDE DEF Low
    <3>4. n + 1 \in Low
      BY <1>1, <3>2, <3>3, SetInduction
    <3> QED BY <1>1, <3>1, <3>4 DEF Low, Out
  <2> HIDE DEF Fit
  <2> QED BY <2>1 DEF Tools!Max
<1>5. Tools!Within(chars, most) = SubSeq(chars, 1, k)
  BY DEF Tools!Within
<1>6. k \in 0..n /\ Tools!Bytes(SubSeq(chars, 1, k)) <= most
  BY <1>4
<1>7. \A m \in 0..n : m > k => Tools!Bytes(SubSeq(chars, 1, m)) > most
  <2>1. ASSUME NEW m \in 0..n, m > k, ~(Tools!Bytes(SubSeq(chars, 1, m)) > most) PROVE FALSE
    <3>1. Tools!Bytes(SubSeq(chars, 1, m)) <= most
      BY <1>2, <2>1
    <3>2. m \in Fit
      BY <2>1, <3>1
    <3> HIDE DEF Fit, k
    <3> QED BY <1>1, <1>4, <1>6, <2>1, <3>2
  <2> QED BY <2>1
<1>8. SubSeq(chars, 1, n) = chars
  BY SubSeqFull
<1> HIDE DEF k, Fit
<1>9. /\ SubSeq(chars, 1, k) \in Seq(LookupChar) /\ Len(SubSeq(chars, 1, k)) = k
      /\ Begins(SubSeq(chars, 1, k), chars)
  BY <1>6, FirstChars
<1>10. Tools!IsPrefix(SubSeq(chars, 1, k), chars)
  BY <1>9, BeginsIsPrefix
<1>11. Tools!Bytes(chars) <= most => k = n
  <2>1. n > k => Tools!Bytes(chars) > most
    <3>1. n \in 0..n
      BY <1>1
    <3> HIDE DEF n
    <3>2. n > k => Tools!Bytes(SubSeq(chars, 1, n)) > most
      BY <1>7, <3>1
    <3> QED BY <1>8, <3>2
  <2>2. Tools!Bytes(chars) \in Nat
    BY TextSizes
  <2> QED BY <1>1, <1>6, <2>1, <2>2
<1>12. Tools!Bytes(chars) > most => k + 1 \in 0..n /\ k + 1 > k
  <2>1. k = n => Tools!Bytes(chars) <= most
    BY <1>6, <1>8
  <2>2. Tools!Bytes(chars) \in Nat
    BY TextSizes
  <2> QED BY <1>1, <1>6, <2>1, <2>2
<1> QED BY <1>5, <1>6, <1>7, <1>8, <1>9, <1>10, <1>11, <1>12
\* What is left of the boundaries after so many rounds: all below fit, none above.
RangeStands(text, most, rounds) ==
  LET range == RangeAfter(text, most, rounds)
      n == Len(text) + 1
  IN  /\ range \in [low : 0..n, high : 0..n] /\ range.low <= range.high
      /\ range.low > 0 => CutSize(text, range.low - 1) <= most
      /\ range.high < n => CutSize(text, range.high) > most
      /\ range.low = range.high \/ range.high - range.low + Len(rounds) <= n

LEMMA CutSizes ==
  ASSUME NEW text \in Seq(LookupChar), NEW m \in 0..Len(text)
  PROVE  CutSize(text, m) \in Nat
<1>1. SubSeq(text, 1, m) \in Seq(LookupChar)
  BY FirstChars
<1>2. Tools!Quoted(SubSeq(text, 1, m)) \in Nat
  BY <1>1, TextSizes
<1> QED BY <1>2, LookupAssumption DEF CutSize

LEMMA HalvingKeeps ==
  ASSUME NEW text \in Seq(LookupChar), NEW most \in Nat
  PROVE  \A rounds \in Seq(Nat) : RangeStands(text, most, rounds)
<1> DEFINE G == {rounds \in Seq(Nat) : RangeStands(text, most, rounds)}
           n == Len(text) + 1
           c == <<text, most>>
<1>0. n \in Nat /\ n - 1 = Len(text) /\ c[1] = text /\ c[2] = most
  BY LenProperties
<1>1. <<>> \in G
  <2>1. RangeAfter(text, most, <<>>) = [low |-> 0, high |-> n]
    BY Halving!FoldEmpty DEF RangeAfter
  <2>2. <<>> \in Seq(Nat) /\ Len(<<>>) = 0
    BY EmptySeq
  <2>3. RangeStands(text, most, <<>>)
    <3> DEFINE range == RangeAfter(text, most, <<>>)
    <3>1. range.low = 0 /\ range.high = n /\ range \in [low : 0..n, high : 0..n]
      BY <1>0, <2>1
    <3> HIDE DEF range
    <3>2. /\ range \in [low : 0..n, high : 0..n] /\ range.low <= range.high
          /\ range.low > 0 => CutSize(text, range.low - 1) <= most
          /\ range.high < n => CutSize(text, range.high) > most
          /\ range.low = range.high \/ range.high - range.low + Len(<<>>) <= n
      <4> HIDE DEF n
      <4> QED BY <1>0, <2>2, <3>1
    <3> QED BY <3>2 DEF RangeStands, range
  <2> QED BY <2>2, <2>3
<1>2. ASSUME NEW rounds \in Seq(Nat), NEW x \in Nat, rounds \in G PROVE Append(rounds, x) \in G
  <2> DEFINE range == RangeAfter(text, most, rounds)
             next == RangeAfter(text, most, Append(rounds, x))
             middle == range.low + (range.high - range.low) \div 2
             k == Len(rounds)
  <2>1. next = HalveStep(c, range, x)
    BY Halving!FoldAppend DEF RangeAfter
  <2>2. /\ range \in [low : 0..n, high : 0..n] /\ range.low <= range.high
        /\ range.low > 0 => CutSize(text, range.low - 1) <= most
        /\ range.high < n => CutSize(text, range.high) > most
        /\ range.low = range.high \/ range.high - range.low + k <= n
    BY <1>2 DEF RangeStands
  <2>3. Append(rounds, x) \in Seq(Nat) /\ Len(Append(rounds, x)) = k + 1 /\ k \in Nat
    BY AppendProperties, LenProperties
  <2>4. next = IF range.low >= range.high THEN range
               ELSE IF CutSize(text, middle) <= most THEN [range EXCEPT !.low = middle + 1]
               ELSE [range EXCEPT !.high = middle]
    BY <1>0, <2>1 DEF HalveStep
  <2> HIDE DEF range, next, k, n, G
  <2>a. range.low \in 0..n /\ range.high \in 0..n
    BY <2>2
  <2>5. /\ next \in [low : 0..n, high : 0..n] /\ next.low <= next.high
        /\ next.low > 0 => CutSize(text, next.low - 1) <= most
        /\ next.high < n => CutSize(text, next.high) > most
        /\ next.low = next.high \/ next.high - next.low + (k + 1) <= n
    <3>1. CASE range.low >= range.high
      <4>1. next = range /\ range.low = range.high
        BY <1>0, <2>a, <2>2, <2>4, <3>1
      <4> QED BY <2>2, <4>1
    <3>2. CASE ~(range.low >= range.high)
      <4>1. \A a, b \in Nat : a < b => /\ a + (b - a) \div 2 \in Nat
                                       /\ a <= a + (b - a) \div 2 /\ a + (b - a) \div 2 < b
        OBVIOUS
      <4>2. middle \in Nat /\ range.low <= middle /\ middle < range.high /\ middle \in 0..Len(text)
        BY <1>0, <2>a, <3>2, <4>1
      <4> HIDE DEF middle
      <4>3. CutSize(text, middle) \in Nat
        BY <4>2, CutSizes
      <4>4. CASE CutSize(text, middle) <= most
        <5>1. next = [range EXCEPT !.low = middle + 1]
          BY <2>4, <3>2, <4>4
        <5>2. /\ next.low = middle + 1 /\ next.high = range.high
              /\ middle + 1 \in 0..n
          BY <1>0, <2>2, <2>a, <4>2, <5>1
        <5>3. next \in [low : 0..n, high : 0..n]
          BY <2>2, <5>1, <5>2
        <5>4. middle + 1 > 0 /\ middle + 1 - 1 = middle /\ middle + 1 <= range.high
              /\ range.high - (middle + 1) + (k + 1) <= n
          BY <1>0, <2>2, <2>3, <2>a, <3>2, <4>2
        <5>5. next.low - 1 = middle
          BY <4>2, <5>2, <5>4
        <5>6. CutSize(text, next.low - 1) <= most
          BY <4>4, <5>5
        <5>7. next.high < n => CutSize(text, next.high) > most
          BY <2>2, <5>2
        <5>8. next.low <= next.high /\ next.high - next.low + (k + 1) <= n
          BY <5>2, <5>4
        <5> QED BY <5>3, <5>6, <5>7, <5>8
      <4>5. CASE ~(CutSize(text, middle) <= most)
        <5>1. next = [range EXCEPT !.high = middle]
          BY <2>4, <3>2, <4>5
        <5>2. /\ next.low = range.low /\ next.high = middle
              /\ middle \in 0..n
          BY <1>0, <2>2, <2>a, <4>2, <5>1
        <5>3. next \in [low : 0..n, high : 0..n]
          BY <2>2, <5>1, <5>2
        <5>4. CutSize(text, middle) > most /\ range.low <= middle
              /\ middle - range.low + (k + 1) <= n
          BY <1>0, <2>2, <2>3, <2>a, <3>2, <4>2, <4>3, <4>5
        <5> QED BY <2>2, <5>2, <5>3, <5>4
      <4> QED BY <4>4, <4>5
    <3> QED BY <3>1, <3>2
  <2>6. RangeStands(text, most, Append(rounds, x))
    BY <2>3, <2>5 DEF RangeStands, next, n
  <2> QED BY <2>3, <2>6 DEF G
<1> HIDE DEF G
<1>3. Seq(Nat) \subseteq G
  BY <1>1, <1>2, SeqInduction
<1> QED BY <1>3 DEF G

\* As many boundaries as are told fit, and one more does not.
LEMMA BoundariesAre ==
  ASSUME NEW text \in Seq(LookupChar), NEW most \in Nat, Tools!Bytes(text) > most,
         \A i \in DOMAIN text : text[i].bytes <= text[i].quoted
  PROVE  LET low == RangeAfter(text, most, Rounds(Len(text) + 1)).low
         IN  /\ low \in 0..Len(text) /\ CutSize(text, low) > most
             /\ low > 0 => CutSize(text, low - 1) <= most
<1> DEFINE n == Len(text) + 1
           range == RangeAfter(text, most, Rounds(n))
<1>0. n \in Nat /\ n - 1 = Len(text) /\ Len(text) \in Nat
  BY LenProperties
<1>1. Rounds(n) \in Seq(Nat) /\ Len(Rounds(n)) = n
  <2> HIDE DEF n
  <2> QED BY <1>0 DEF Rounds
<1>2. RangeStands(text, most, Rounds(n))
  BY <1>1, HalvingKeeps
<1>3. /\ range \in [low : 0..n, high : 0..n] /\ range.low <= range.high
      /\ range.low > 0 => CutSize(text, range.low - 1) <= most
      /\ range.high < n => CutSize(text, range.high) > most
      /\ range.low = range.high \/ range.high - range.low + n <= n
  BY <1>1, <1>2 DEF RangeStands
<1>4. CutSize(text, Len(text)) > most /\ CutSize(text, Len(text)) \in Nat
  <2>1. SubSeq(text, 1, Len(text)) = text
    BY SubSeqFull
  <2>2. Tools!Bytes(text) <= Tools!Quoted(text) /\ Tools!Bytes(text) \in Nat /\ Tools!Quoted(text) \in Nat
    BY TextSizes
  <2>3. CutSize(text, Len(text)) = Wrapper + Tools!Quoted(text)
    BY <2>1 DEF CutSize
  <2> QED BY <2>2, <2>3, LookupAssumption
<1> HIDE DEF range
<1>5. range.low = range.high /\ range.low \in 0..n
  BY <1>0, <1>3
<1>6. range.low # n
  <2> SUFFICES ASSUME range.low = n PROVE FALSE
    OBVIOUS
  <2>1. CutSize(text, Len(text)) <= most
    <3>1. n > 0
      BY <1>0
    <3> HIDE DEF n
    <3>2. CutSize(text, n - 1) <= most
      BY <1>3, <3>1
    <3> QED BY <1>0, <3>2
  <2> QED BY <1>4, <2>1
<1>7. range.low \in 0..Len(text) /\ range.high < n
  BY <1>0, <1>5, <1>6
<1>8. CutSize(text, range.low) > most
  BY <1>3, <1>5, <1>7
<1> QED BY <1>3, <1>7, <1>8 DEF range

-----------------------------------------------------------------------------
(* The calls.                                                              *)

MostOf(c) == Tools!Min({Tools!Max({1, c.bytes}), ReadMax})
AllowedOf(c) == Tools!Min({Tools!Max({1, c.bytes}), Tools!Max({1, c.left})})

\* What is read of a text r.chars, as Reads says it.
ReadHonest(r, chars, most) ==
  /\ Tools!IsPrefix(r.chars, chars) /\ Tools!Bytes(r.chars) <= most
  /\ ~r.truncated => r.chars = chars
  /\ r.truncated => Tools!Bytes(SubSeq(chars, 1, Len(r.chars) + 1)) > most

ListHonest(r, tree) ==
  Tools!IsPrefix(r.files, WantedOf(tree)) /\ (~r.truncated => r.files = WantedOf(tree))
SearchHonest(r, tree) ==
  \A i \in DOMAIN tree :
    /\ r.matches[i] <= Due(tree[i])
    /\ ~r.truncated => r.matches[i] = Due(tree[i])

FoundHonest(c, r) ==
  r.ok =>
    /\ c.tool = "list" => ListHonest(r, c.tree)
    /\ c.tool = "search" => SearchHonest(r, c.tree)
    /\ c.tool = "read" => ReadHonest(r, Tools!FlattenSeq(c.tree[1].lines), MostOf(c))
    /\ c.tool = "range" =>
         ReadHonest(r, Tools!FlattenSeq(SubSeq(c.tree[1].lines, c.first, r.last)), MostOf(c))
    /\ c.tool # "none"

AnswerHonest(c, text, a) ==
  /\ a.size <= AllowedOf(c)
  /\ Tools!Bytes(text) <= AllowedOf(c) <=> a.form = "whole"
  /\ a.form = "cut" => a.chars < Len(text) /\ CutSize(text, a.chars + 1) > AllowedOf(c)
  /\ a.form = "minimal" => CutSize(text, 0) > AllowedOf(c)

LookupInv ==
  /\ toolCall \in Calls /\ toolStep \in {"called", "found", "answered"}
  /\ toolText \in Seq(LookupChar) /\ \A i \in DOMAIN toolText : toolText[i].bytes <= toolText[i].quoted
  /\ toolStep /= "called" => FoundHonest(toolCall, toolResult)
  /\ toolStep = "answered" => AnswerHonest(toolCall, toolText, toolAnswer)

LEMMA LookupInit == Tools!Init => LookupInv
<1> SUFFICES ASSUME Tools!Init PROVE LookupInv
  OBVIOUS
<1>1. toolCall \in Calls /\ toolStep = "called" /\ (toolText \in Results \/ toolText = <<>>)
  BY DEF Tools!Init
<1>2. <<>> \in Seq(LookupChar) /\ \A i \in DOMAIN <<>> : FALSE
  BY EmptySeq
<1>3. toolText \in Seq(LookupChar) /\ \A i \in DOMAIN toolText : toolText[i].bytes <= toolText[i].quoted
  <2>1. CASE toolText \in Results
    BY <2>1, LookupAssumption
  <2>2. CASE toolText = <<>>
    BY <1>2, <2>2
  <2> QED BY <1>1, <2>1, <2>2
<1> QED BY <1>1, <1>3 DEF LookupInv

LEMMA CallTypes ==
  ASSUME NEW c \in Calls
  PROVE  /\ c.tool \in {"list", "search", "read", "range", "none"} /\ c.tree \in Seq(LookupFile)
         /\ c.tool \in {"read", "range"} => c.tree[1] \in LookupFile
         /\ c.first \in Nat /\ c.last \in Nat
         /\ MostOf(c) \in Nat /\ AllowedOf(c) \in Nat /\ AllowedOf(c) >= 1
<1>1. /\ c.tool \in {"list", "search", "read", "range", "none"} /\ c.tree \in Seq(LookupFile)
      /\ c.tool \in {"read", "range"} => c.tree /= <<>>
      /\ c.first \in Nat /\ c.last \in Nat /\ c.bytes \in Nat /\ c.left \in Nat
      /\ ReadMax \in Nat
  BY LookupAssumption
<1>2. c.tool \in {"read", "range"} => c.tree[1] \in LookupFile
  <2>1. c.tree # <<>> => Len(c.tree) \in Nat \ {0}
    BY <1>1, EmptySeq
  <2>2. c.tree # <<>> => 1 \in 1..Len(c.tree)
    BY <2>1
  <2> QED BY <1>1, <2>2, ElementOfSeq
<1>3. \A k \in Nat : Tools!Max({1, k}) \in Nat /\ Tools!Max({1, k}) >= 1
  <2>1. ASSUME NEW k \in Nat PROVE Tools!Max({1, k}) = IF 1 >= k THEN 1 ELSE k
    BY LeastOfTwo
  <2> QED BY <2>1
<1>4. \A a, b \in Nat : Tools!Min({a, b}) \in {a, b}
  <2>1. ASSUME NEW a \in Nat, NEW b \in Nat PROVE Tools!Min({a, b}) = IF a <= b THEN a ELSE b
    BY LeastOfTwo
  <2> QED BY <2>1
<1>5. MostOf(c) \in Nat
  BY <1>1, <1>3, <1>4 DEF MostOf
<1>6. AllowedOf(c) \in Nat /\ AllowedOf(c) >= 1
  BY <1>1, <1>3, <1>4 DEF AllowedOf
<1> QED BY <1>1, <1>2, <1>5, <1>6

LEMMA FlattenedLines ==
  ASSUME NEW lines \in Seq(Seq(LookupChar))
  PROVE  Tools!FlattenSeq(lines) \in Seq(LookupChar)
<1>1. Tools!FlattenSeq(lines) = FlattenSeq(lines)
  BY DEF Tools!FlattenSeq, FlattenSeq
<1> QED BY <1>1, FlattenType

LEMMA ReadsHonestly ==
  ASSUME NEW chars \in Seq(LookupChar), NEW most \in Nat, NEW r,
         r.chars = Tools!Within(chars, most), r.truncated <=> Tools!Bytes(chars) > most
  PROVE  ReadHonest(r, chars, most)
<1>1. Tools!Bytes(chars) \in Nat
  BY TextSizes
<1> DEFINE head == Tools!Within(chars, most)
<1>2. /\ head \in Seq(LookupChar)
      /\ Tools!IsPrefix(head, chars) /\ Tools!Bytes(head) <= most
      /\ Tools!Bytes(chars) <= most => head = chars
      /\ Tools!Bytes(chars) > most => Tools!Bytes(SubSeq(chars, 1, Len(head) + 1)) > most
  BY WithinIs
<1> HIDE DEF head
<1>3. r.chars = head
  BY DEF head
<1> QED BY <1>1, <1>2, <1>3 DEF ReadHonest

LEMMA LookupExecute == ASSUME LookupInv, Tools!Execute PROVE LookupInv'
<1> DEFINE c == toolCall
           r == toolResult'
<1>1. /\ c \in Calls /\ c' = c /\ toolText' = toolText /\ toolStep' = "found"
      /\ r = CASE c.tool = "list" -> Tools!List(c.tree)
                [] c.tool = "search" -> Tools!Search(c.tree)
                [] c.tool = "read" -> Tools!ReadWhole(c.tree[1])
                [] c.tool = "range" -> Tools!ReadLines(c.tree[1], c.first, c.last)
                [] c.tool = "none" -> Tools!Refused
  BY DEF LookupInv, Tools!Execute
<1>2. /\ c.tool \in {"list", "search", "read", "range", "none"} /\ c.tree \in Seq(LookupFile)
      /\ c.tool \in {"read", "range"} => c.tree[1] \in LookupFile
      /\ c.first \in Nat /\ c.last \in Nat /\ MostOf(c) \in Nat
  BY <1>1, CallTypes
<1>3. Tools!Most = MostOf(c)
  BY DEF Tools!Most, MostOf
<1>4. FoundHonest(c, r)
  <2> HIDE DEF r
  <2>1. CASE c.tool = "list"
    <3>1. ListStands(c.tree)
      BY <1>2, ListIsBeginning
    <3>2. r.files = ListOf(c.tree) /\ (r.truncated <=> Len(ListOf(c.tree)) >= ListMax)
      BY <1>1, <2>1, ListIsFold
    <3>3. /\ ListOf(c.tree) \in Seq(LookupFile) /\ WantedOf(c.tree) \in Seq(LookupFile)
          /\ Begins(ListOf(c.tree), WantedOf(c.tree))
          /\ Len(ListOf(c.tree)) < ListMax => ListOf(c.tree) = WantedOf(c.tree)
      BY <3>1 DEF ListStands
    <3>4. Tools!IsPrefix(ListOf(c.tree), WantedOf(c.tree))
      BY <3>3, BeginsIsPrefix
    <3>5. Len(ListOf(c.tree)) \in Nat /\ ListMax \in Nat
      BY <3>3, LenProperties, LookupAssumption
    <3>6. ListHonest(r, c.tree)
      BY <3>2, <3>3, <3>4, <3>5 DEF ListHonest
    <3> QED BY <2>1, <3>6 DEF FoundHonest
  <2>2. CASE c.tool = "search"
    <3>1. SearchStands(c.tree) /\ DOMAIN c.tree = 1..Len(c.tree) /\ SearchMax \in Nat
      BY <1>2, SearchIsDue, LenProperties, LookupAssumption
    <3>2. r.matches = SearchOf(c.tree).matches /\ (r.truncated <=> SearchOf(c.tree).all >= SearchMax)
      BY <1>1, <2>2, SearchIsFold
    <3>3. SearchHonest(r, c.tree)
      BY <3>1, <3>2 DEF SearchHonest, SearchStands
    <3> QED BY <2>2, <3>3 DEF FoundHonest
  <2>3. CASE c.tool = "read"
    <3> DEFINE chars == Tools!FlattenSeq(c.tree[1].lines)
    <3>1. chars \in Seq(LookupChar)
      BY <1>2, <2>3, FlattenedLines DEF LookupFile
    <3>2. r = Tools!ReadWhole(c.tree[1])
      BY <1>1, <2>3
    <3> SUFFICES ASSUME r.ok PROVE ReadHonest(r, chars, MostOf(c))
      BY <2>3 DEF FoundHonest
    <3>3. r.chars = Tools!Within(chars, MostOf(c)) /\ (r.truncated <=> Tools!Bytes(chars) > MostOf(c))
      BY <1>3, <3>2 DEF Tools!ReadWhole, Tools!Refused
    <3> HIDE DEF chars
    <3> QED BY <1>2, <3>1, <3>3, ReadsHonestly
  <2>4. CASE c.tool = "range"
    <3> DEFINE f == c.tree[1]
               chars == Tools!FlattenSeq(SubSeq(f.lines, c.first, r.last))
    <3>1. f \in LookupFile /\ r = Tools!ReadLines(f, c.first, c.last)
      BY <1>1, <1>2, <2>4
    <3> SUFFICES ASSUME r.ok PROVE ReadHonest(r, chars, MostOf(c))
      BY <2>4 DEF FoundHonest
    <3>2. /\ c.first # 0 /\ ~(c.first > Len(f.lines)) /\ ~(c.last < c.first)
          /\ r.last = Tools!Min({c.last, Len(f.lines)})
          /\ r.chars = Tools!Within(chars, MostOf(c))
          /\ (r.truncated <=> Tools!Bytes(chars) > MostOf(c))
      BY <1>3, <3>1 DEF Tools!ReadLines, Tools!Refused
    <3>3. f.lines \in Seq(Seq(LookupChar)) /\ Len(f.lines) \in Nat
      BY <3>1, LenProperties DEF LookupFile
    <3>4. r.last \in Nat /\ r.last <= Len(f.lines)
      <4>1. r.last = IF c.last <= Len(f.lines) THEN c.last ELSE Len(f.lines)
        <5>1. c.last \in Int /\ Len(f.lines) \in Int
          BY <1>2, <3>3
        <5> HIDE DEF c, f
        <5> QED BY <3>2, <5>1, LeastOfTwo
      <4> QED BY <1>2, <3>3, <4>1
    <3>5. \A i \in c.first..r.last : f.lines[i] \in Seq(LookupChar)
      <4>1. c.first \in Nat /\ c.first >= 1
        BY <1>2, <3>2
      <4>2. \A i \in c.first..r.last : i \in 1..Len(f.lines)
        <5> HIDE DEF c, f
        <5> QED BY <3>3, <3>4, <4>1
      <4> QED BY <3>3, <4>2, ElementOfSeq
    <3>6. SubSeq(f.lines, c.first, r.last) \in Seq(Seq(LookupChar))
      BY <1>2, <3>4, <3>5, SubSeqProperties
    <3>7. chars \in Seq(LookupChar)
      BY <3>6, FlattenedLines
    <3> HIDE DEF chars
    <3> QED BY <1>2, <3>2, <3>7, ReadsHonestly
  <2>5. CASE c.tool = "none"
    BY <1>1, <2>5 DEF Tools!Refused, FoundHonest
  <2> QED BY <1>2, <2>1, <2>2, <2>3, <2>4, <2>5
<1> QED BY <1>1, <1>4 DEF LookupInv

LEMMA LookupAnswer == ASSUME LookupInv, Tools!Answer PROVE LookupInv'
<1> DEFINE a == toolAnswer'
           n == Len(toolText)
           low == RangeAfter(toolText, AllowedOf(toolCall), Rounds(n + 1)).low
           most == AllowedOf(toolCall)
<1>1. /\ UNCHANGED <<toolCall, toolResult, toolText>> /\ toolStep = "found" /\ toolStep' = "answered"
      /\ toolCall \in Calls /\ toolText \in Seq(LookupChar)
      /\ \A i \in DOMAIN toolText : toolText[i].bytes <= toolText[i].quoted
      /\ FoundHonest(toolCall, toolResult)
  BY DEF LookupInv, Tools!Answer
<1>2. most \in Nat /\ most >= 1 /\ Tools!Bytes(toolText) \in Nat /\ Minimal \in Nat /\ n \in Nat
  BY <1>1, CallTypes, TextSizes, LenProperties, LookupAssumption
<1>3. Tools!Allowed = most /\ Tools!Boundaries = low
  BY BoundariesIsFold DEF Tools!Allowed, AllowedOf
<1>4. \A m : Tools!Cut(m) = [form |-> "cut", chars |-> m, size |-> CutSize(toolText, m)]
  BY DEF Tools!Cut, CutSize
<1>5. a = CASE Tools!Bytes(toolText) <= most -> [form |-> "whole", chars |-> n, size |-> Tools!Bytes(toolText)]
            [] Tools!Bytes(toolText) > most /\ Minimal > most -> [form |-> "0", chars |-> 0, size |-> 1]
            [] Tools!Bytes(toolText) > most /\ Minimal <= most ->
                 IF low > 0 THEN Tools!Cut(low - 1)
                 ELSE [form |-> "minimal", chars |-> 0, size |-> Minimal]
  BY <1>3 DEF Tools!Answer
<1>6. Tools!Bytes(toolText) > most =>
        low \in 0..n /\ CutSize(toolText, low) > most /\ (low > 0 => CutSize(toolText, low - 1) <= most)
  BY <1>1, <1>2, BoundariesAre
<1>7. AnswerHonest(toolCall, toolText, a)
  <2> HIDE DEF a, low, most, n
  <2>0. SUFFICES /\ a.size <= most
                 /\ Tools!Bytes(toolText) <= most <=> a.form = "whole"
                 /\ a.form = "cut" => a.chars < n /\ CutSize(toolText, a.chars + 1) > most
                 /\ a.form = "minimal" => CutSize(toolText, 0) > most
    BY DEF AnswerHonest, most, n
  <2>1. CASE Tools!Bytes(toolText) <= most
    <3>1. a = [form |-> "whole", chars |-> n, size |-> Tools!Bytes(toolText)]
      BY <1>2, <1>5, <2>1
    <3> QED BY <2>1, <3>1
  <2>2. CASE Tools!Bytes(toolText) > most /\ Minimal > most
    <3>1. a = [form |-> "0", chars |-> 0, size |-> 1]
      BY <1>2, <1>5, <2>2
    <3> QED BY <1>2, <2>2, <3>1
  <2>3. CASE Tools!Bytes(toolText) > most /\ Minimal <= most /\ low > 0
    <3>1. a = [form |-> "cut", chars |-> low - 1, size |-> CutSize(toolText, low - 1)]
      BY <1>2, <1>4, <1>5, <2>3
    <3>2. low - 1 + 1 = low /\ low - 1 < n
      BY <1>2, <1>6, <2>3
    <3>3. a.chars + 1 = low /\ a.chars < n /\ a.form = "cut"
      BY <3>1, <3>2
    <3>4. CutSize(toolText, a.chars + 1) > most /\ a.size <= most
      BY <1>6, <2>3, <3>1, <3>3
    <3> QED BY <1>2, <2>3, <3>3, <3>4
  <2>4. CASE Tools!Bytes(toolText) > most /\ Minimal <= most /\ ~(low > 0)
    <3>1. a = [form |-> "minimal", chars |-> 0, size |-> Minimal]
      BY <1>2, <1>5, <2>4
    <3>2. low = 0
      BY <1>2, <1>6, <2>4
    <3>3. CutSize(toolText, 0) > most
      BY <1>6, <2>4, <3>2
    <3> QED BY <1>2, <2>4, <3>1, <3>3
  <2> QED BY <1>2, <2>1, <2>2, <2>3, <2>4
<1> QED BY <1>1, <1>7 DEF LookupInv

LEMMA LookupHolds == LookupInv => Tools!TypeOK /\ Tools!AnswersHonest
<1> SUFFICES ASSUME LookupInv PROVE Tools!TypeOK /\ Tools!AnswersHonest
  OBVIOUS
<1>1. Tools!TypeOK
  <2>1. \A i \in DOMAIN toolText : toolText[i] \in LookupChar
    BY LenProperties, ElementOfSeq DEF LookupInv
  <2> QED BY <2>1 DEF LookupInv, LookupChar, Tools!TypeOK
<1>2. /\ toolCall.tool \in {"list", "search", "read", "range", "none"}
      /\ Tools!Most = MostOf(toolCall) /\ Tools!Allowed = AllowedOf(toolCall)
      /\ Tools!Wanted = WantedOf(toolCall.tree)
      /\ \A m : Tools!Cut(m).size = CutSize(toolText, m)
  BY CallTypes, WantedIsFold DEF LookupInv, Tools!Most, MostOf, Tools!Allowed, AllowedOf, WantedOf,
                                Tools!Cut, CutSize
<1>3. \A chars : Tools!Reads(chars) <=> ReadHonest(toolResult, chars, MostOf(toolCall))
  BY <1>2 DEF Tools!Reads, ReadHonest
<1>4. toolStep = "answered" =>
        /\ toolAnswer.size <= Tools!Allowed
        /\ Tools!Bytes(toolText) <= Tools!Allowed <=> toolAnswer.form = "whole"
        /\ toolAnswer.form = "cut" =>
             toolAnswer.chars < Len(toolText) /\ Tools!Cut(toolAnswer.chars + 1).size > Tools!Allowed
        /\ toolAnswer.form = "minimal" => Tools!Cut(0).size > Tools!Allowed
  BY <1>2 DEF LookupInv, AnswerHonest
<1>5. ASSUME toolStep /= "called", toolResult.ok
      PROVE  /\ toolCall.tool = "list" => ListHonest(toolResult, toolCall.tree)
             /\ toolCall.tool = "search" => SearchHonest(toolResult, toolCall.tree)
             /\ toolCall.tool = "read" => Tools!Reads(Tools!FlattenSeq(toolCall.tree[1].lines))
             /\ toolCall.tool = "range" =>
                  Tools!Reads(Tools!FlattenSeq(SubSeq(toolCall.tree[1].lines, toolCall.first, toolResult.last)))
             /\ toolCall.tool # "none"
  BY <1>2, <1>3, <1>5 DEF LookupInv, FoundHonest
<1> QED BY <1>1, <1>2, <1>4, <1>5 DEF Tools!AnswersHonest, ListHonest, SearchHonest, Due

LookupPart == part = "lookup" => LookupInv

(* Housekeeping's AnswersHonest: whatever the repository, the limits and   *)
(* the call, what a context tool does not say was cut is all there is; a   *)
(* text that was cut ends between two characters, as late as it can; and   *)
(* no answer is above what may be looked up.                               *)
(* (list_files, search_code, read_utf8_file_limited,                       *)
(* read_utf8_line_range_limited, truncate_json_result.)                    *)
THEOREM AnswersAreHonest == HousekeepingSpec => []AnswersHonest
<1>1. HousekeepingInit => LookupPart
  BY LookupInit DEF HousekeepingInit, LookupPart
<1>2. LookupPart /\ [HousekeepingNext]_<<part, vars, logVars, zipVars, toolVars>> => LookupPart'
  <2> SUFFICES ASSUME LookupPart, HousekeepingNext \/ UNCHANGED <<part, vars, logVars, zipVars, toolVars>>,
                      part' = "lookup"
               PROVE  LookupInv'
    BY DEF LookupPart
  <2>1. part = "lookup" /\ LookupInv /\ (Tools!Next \/ UNCHANGED toolVars)
    BY DEF HousekeepingNext, LookupPart
  <2>2. CASE Tools!Next
    BY <2>1, <2>2, LookupExecute, LookupAnswer DEF Tools!Next
  <2>3. CASE UNCHANGED toolVars
    BY <2>1, <2>3 DEF toolVars, LookupInv
  <2> QED BY <2>1, <2>2, <2>3
<1>3. LookupPart => AnswersHonest
  BY LookupHolds DEF LookupPart, AnswersHonest
<1> QED BY <1>1, <1>2, <1>3, PTL DEF HousekeepingSpec
=============================================================================
