------------------------------ MODULE WorkDirs ------------------------------
(***************************************************************************)
(* The directories below work/: of every script task one, at a fixed depth *)
(* below directories it shares with other tasks, and of every AI review    *)
(* one with the unpacked repository.  Script tasks leave theirs, with the  *)
(* output; reviews remove their own.  What is a day old is removed by a    *)
(* pass of the cleanup, at every start and hourly: first that of reviews,  *)
(* then that of script tasks not registered as at work, and then the       *)
(* directories above that have become empty.                               *)
(*                                                                         *)
(* Tasks make their directories while a pass goes on.  A path is the       *)
(* sequence of its components; a pass takes less than a day.               *)
(***************************************************************************)
EXTENDS Naturals, FiniteSets, Sequences

CONSTANTS
  Tasks,     \* the paths of script tasks, all of one length
  Reviews,   \* the reviews, for which their directories stand
  MaxStarts  \* bound: how often the service is started

ASSUME WorkDirsAssumption ==
  /\ MaxStarts \in Nat
  /\ Tasks \subseteq Seq(STRING)
  /\ \A x \in Tasks : Len(x) > 1
  /\ \A x, y \in Tasks : Len(x) = Len(y)
  /\ \A x \in Tasks : \A n \in 0..Len(x) : SubSeq(x, 1, n) \notin Reviews

VARIABLES
  up, starts,  \* "down", "starting" with a pass, or "running"; the starts so far
  dirs,        \* the directories that exist, below work/script_tasks and of reviews
  old,         \* those that are a day old
  active,      \* ACTIVE_SCRIPT_WORK_DIRS
  step,        \* of each task and review: what it does next
  depth,       \* of each task: the directory above its own it makes next
  pass,        \* of the cleanup: "idle", "contexts", "inside", "tasks", "parents"
  snapshot,    \* what it saw registered
  todo,        \* directories listed that it has not come to
  at,          \* the review's directory it is inside of, or the parent it is at
  emptied      \* parents still to be looked at

service == <<up, starts>>
makers == <<active, step, depth>>
cleanup == <<pass, snapshot, todo, at, emptied>>
vars == <<service, dirs, old, makers, cleanup>>

Above(x) == SubSeq(x, 1, Len(x) - 1)
Exists(x) == x = <<>> \/ x \in dirs
Children(x) == {y \in dirs \ Reviews : y /= <<>> /\ Above(y) = x}
Leaves == dirs \cap Tasks

AtWork == {"making", "returning", "leaf", "working"}

Init ==
  /\ up = "running" /\ starts = 1 /\ dirs = {} /\ old = {} /\ active = {}
  /\ step = [x \in Tasks \cup Reviews |-> "idle"] /\ depth = [x \in Tasks |-> 0]
  /\ pass = "idle" /\ snapshot = {} /\ todo = {} /\ at = <<>> /\ emptied = {}

----------------------------------------------------------------------------
(* A script task.                                                          *)

Becomes(x, what) == step' = [step EXCEPT ![x] = what]
Fails(x) == Becomes(x, "failed") /\ active' = active \ {x}

Register(x) ==
  /\ up = "running" /\ step[x] = "idle" /\ Becomes(x, "making")
  /\ active' = active \cup {x}
  /\ depth' = [depth EXCEPT ![x] = Len(x) - 1]
  /\ UNCHANGED <<service, dirs, old, cleanup>>

\* create_dir_all above its own: it tries the lowest, and as long as there
\* is nothing above, the one above; then it comes back down, and no
\* directory may now be missing.
MakeParent(x) ==
  LET d == SubSeq(x, 1, depth[x])
      made == dirs' = dirs \cup {d}
      next == IF depth[x] = Len(x) - 1 THEN "leaf" ELSE "returning"
  IN  /\ step[x] \in {"making", "returning"}
      /\ \/ /\ Exists(Above(d)) /\ made /\ Becomes(x, next)
            /\ depth' = [depth EXCEPT ![x] = IF next = "leaf" THEN @ ELSE @ + 1]
            /\ UNCHANGED active
         \/ /\ ~Exists(Above(d)) /\ step[x] = "making"
            /\ depth' = [depth EXCEPT ![x] = @ - 1]
            /\ UNCHANGED <<dirs, step, active>>
         \/ /\ ~Exists(Above(d)) /\ step[x] = "returning" /\ Fails(x)
            /\ UNCHANGED <<dirs, depth>>
      /\ UNCHANGED <<service, old, cleanup>>

MakeLeaf(x) ==
  /\ step[x] = "leaf"
  /\ \/ /\ Exists(Above(x)) /\ dirs' = dirs \cup {x} /\ Becomes(x, "working") /\ UNCHANGED active
     \/ /\ ~Exists(Above(x)) /\ Fails(x) /\ UNCHANGED dirs
  /\ UNCHANGED <<service, old, depth, cleanup>>

\* Faulty variant: the directory stays registered.
FinishRegistered(x) ==
  /\ x \in Tasks /\ step[x] = "working" /\ Becomes(x, "done")
  /\ UNCHANGED <<service, dirs, old, active, depth, cleanup>>

\* Its source is removed, its output stays.
Finish(x) ==
  /\ x \in Tasks /\ step[x] = "working" /\ Becomes(x, "done")
  /\ active' = active \ {x}
  /\ UNCHANGED <<service, dirs, old, depth, cleanup>>

----------------------------------------------------------------------------
(* A review.                                                               *)

Unpack(r) ==
  /\ up = "running" /\ r \in Reviews /\ step[r] = "idle" /\ Becomes(r, "working")
  /\ dirs' = dirs \cup {r}
  /\ UNCHANGED <<service, old, active, depth, cleanup>>

\* Also when unpacking failed, or the review falls back to the diff only.
Release(r) ==
  /\ r \in Reviews /\ step[r] = "working" /\ Becomes(r, "done")
  /\ dirs' = dirs \ {r} /\ old' = old \ {r}
  /\ UNCHANGED <<service, active, depth, cleanup>>

----------------------------------------------------------------------------
(* The cleanup.                                                            *)

Gone(x) == dirs' = dirs \ {x} /\ old' = old \ {x}
\* The end of the first pass lets the service begin.
Idle == pass' = "idle" /\ up' = "running"
Abort == Idle /\ todo' = {} /\ emptied' = {}

Begin ==
  /\ up = "running" /\ pass = "idle" /\ pass' = "contexts"
  /\ todo' = dirs \cap Reviews
  /\ UNCHANGED <<service, dirs, old, makers, snapshot, at, emptied>>

\* A review's directory it listed: old, it is removed (or cannot be); else
\* it looks for others inside.  If it is gone, the pass ends, with an error.
VisitContext(r) ==
  /\ pass = "contexts" /\ r \in todo
  /\ \/ /\ r \in old /\ Gone(r)
        /\ todo' = todo \ {r} /\ UNCHANGED <<up, pass, at, emptied>>
     \/ /\ r \in old /\ todo' = todo \ {r} /\ UNCHANGED <<up, dirs, old, pass, at, emptied>>
     \/ /\ r \in dirs \ old /\ pass' = "inside" /\ at' = r /\ todo' = todo \ {r}
        /\ UNCHANGED <<up, dirs, old, emptied>>
     \/ /\ r \notin dirs /\ Abort /\ UNCHANGED <<dirs, old, at>>
  /\ UNCHANGED <<starts, makers, snapshot>>

\* The review may have removed it meanwhile.
LeaveContext ==
  /\ pass = "inside"
  /\ \/ at \in dirs /\ pass' = "contexts" /\ UNCHANGED <<up, todo, emptied>>
     \/ at \notin dirs /\ Abort
  /\ at' = <<>>
  /\ UNCHANGED <<starts, dirs, old, makers, snapshot>>

TakeSnapshot ==
  /\ pass = "contexts" /\ todo = {} /\ pass' = "tasks"
  /\ snapshot' = active /\ todo' = Leaves
  /\ UNCHANGED <<service, dirs, old, makers, at, emptied>>

\* A task's directory it listed; the parent of one it removes is noted.
VisitTask(x) ==
  /\ pass = "tasks" /\ x \in todo /\ todo' = todo \ {x}
  /\ \/ x \in old \ snapshot /\ Gone(x) /\ emptied' = emptied \cup {Above(x)}
     \/ UNCHANGED <<dirs, old, emptied>>
  /\ UNCHANGED <<service, makers, pass, snapshot, at>>

NextParent ==
  /\ \/ pass = "tasks" /\ todo = {}
     \/ pass = "parents" /\ at = <<>>
  /\ \/ emptied = {} /\ Idle /\ UNCHANGED <<at, emptied>>
     \/ /\ pass' = "parents" /\ UNCHANGED up
        /\ \E x \in emptied : at' = x /\ emptied' = emptied \ {x}
  /\ UNCHANGED <<starts, dirs, old, makers, snapshot, todo>>

\* Faulty variant: a parent is removed with all that is in it.
ClimbAll ==
  /\ pass = "parents" /\ at /= <<>>
  /\ dirs' = dirs \ {y \in dirs \ Reviews : \E n \in 1..Len(y) : SubSeq(y, 1, n) = at}
  /\ at' = Above(at)
  /\ UNCHANGED <<service, old, makers, pass, snapshot, todo, emptied>>

\* remove_dir on a parent, and then on its own: one that is gone is passed,
\* one that is not empty ends the climb.
Climb ==
  /\ pass = "parents" /\ at /= <<>>
  /\ \/ Children(at) = {} /\ dirs' = dirs \ {at} /\ at' = Above(at)
     \/ Children(at) /= {} /\ UNCHANGED dirs /\ at' = <<>>
  /\ UNCHANGED <<service, old, makers, pass, snapshot, todo, emptied>>

----------------------------------------------------------------------------
(* Time, and the service's end.                                            *)

\* A day passes for a directory.
Age(x) ==
  /\ pass = "idle" /\ x \in Leaves \cup (dirs \cap Reviews) /\ x \notin old
  /\ old' = old \cup {x}
  /\ UNCHANGED <<service, dirs, makers, cleanup>>

\* What is at work ends with the service, and leaves what it has made.
Crash ==
  /\ up /= "down" /\ starts < MaxStarts /\ up' = "down"
  /\ step' = [x \in DOMAIN step |-> IF step[x] \in AtWork THEN "dead" ELSE step[x]]
  /\ active' = {} /\ pass' = "idle" /\ todo' = {} /\ emptied' = {} /\ snapshot' = {} /\ at' = <<>>
  /\ UNCHANGED <<starts, dirs, old, depth>>

\* The first pass is before anything else.
Restart ==
  /\ up = "down" /\ up' = "starting" /\ starts' = starts + 1
  /\ pass' = "contexts" /\ todo' = dirs \cap Reviews
  /\ UNCHANGED <<dirs, old, makers, snapshot, at, emptied>>

Task(x) == Register(x) \/ MakeParent(x) \/ MakeLeaf(x) \/ Finish(x)
Review(r) == Unpack(r) \/ Release(r)
Removal(x) == (VisitTask(x) \/ VisitContext(x)) /\ x \in dirs \ dirs'
Pass ==
  \/ Begin \/ LeaveContext \/ TakeSnapshot \/ NextParent \/ Climb
  \/ (\E r \in Reviews : VisitContext(r)) \/ (\E x \in Tasks : VisitTask(x))

Next ==
  \/ \E x \in Tasks : Task(x)
  \/ \E r \in Reviews : Review(r)
  \/ \E x \in Tasks \cup Reviews : Age(x)
  \/ Pass \/ Crash \/ Restart

\* What is begun is ended, the cleanup goes on, the service is started
\* again, and a directory can be removed sooner or later.
Fairness ==
  /\ \A x \in Tasks : WF_vars(Task(x))
  /\ \A r \in Reviews : WF_vars(Review(r))
  /\ WF_vars(Pass) /\ WF_vars(Restart)
  /\ \A x \in Tasks \cup Reviews : SF_vars(Removal(x))

Spec == Init /\ [][Next]_vars /\ Fairness

----------------------------------------------------------------------------
(* What must hold.                                                         *)

TypeOK ==
  /\ up \in {"down", "starting", "running"} /\ starts \in 1..MaxStarts + 1
  /\ active \subseteq Tasks /\ snapshot \subseteq Tasks
  /\ old \subseteq dirs \cap (Tasks \cup Reviews) /\ todo \subseteq Tasks \cup Reviews
  /\ depth \in [Tasks -> Nat] /\ \A x \in Tasks : depth[x] < Len(x)
  /\ step \in [Tasks \cup Reviews -> AtWork \cup {"idle", "done", "failed", "dead"}]
  /\ pass \in {"idle", "contexts", "inside", "tasks", "parents"}

(* The directory of a script task at work is there, with all above it,     *)
(* whatever its age, and however the cleanup's removals fall between the   *)
(* steps in which it and tasks next to it make theirs.                     *)
(* (ScriptRunner::run, create_task_dir, cleanup_stale_script_task_work.)   *)
WorkKept ==
  \A x \in Tasks : step[x] = "working" => \A n \in 1..Len(x) : SubSeq(x, 1, n) \in dirs

(* What was left, by a task that ended or in a crash, and is a day old is  *)
(* removed in the end, although passes end at the first error.             *)
(* (cleanup_stale_review_work, spawn_periodic_stale_review_work_cleanup.)  *)
LeftoversGo ==
  \A x \in Tasks \cup Reviews :
    (x \in old /\ step[x] \notin AtWork) ~> x \notin dirs
=============================================================================
