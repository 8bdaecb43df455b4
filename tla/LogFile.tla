------------------------------- MODULE LogFile -------------------------------
(***************************************************************************)
(* The service's log file and its rotation, one system call a step.  A     *)
(* message that would make the file too large is written to a new one; the *)
(* files before it are renamed, .1 to .2 and so on, and the oldest is      *)
(* removed.  Any call may fail: the message is lost then, and so are those *)
(* after it until a rotation succeeds.  The service may be started again.  *)
(*                                                                         *)
(* Messages are numbered as they come and have a size.                     *)
(***************************************************************************)
EXTENDS SequencesExt

CONSTANTS
  Sizes,        \* of messages
  MaxBytes,     \* of a file; 0 is no limit
  Keeps,        \* how many files may be kept beside the current one
  MaxMessages   \* bound

VARIABLES
  keep,      \* max_files, as configured
  disk,      \* of each file, 0 the current one: the messages in it, or Absent
  open,      \* whether the writer has the current file open
  current,   \* current_bytes
  step,      \* "ready", or the call of the rotation that comes next
  index,     \* in the renames, the file that is renamed next
  pending,   \* the message being written
  said,      \* how many messages there were
  written    \* those the writer took, in their order

vars == <<keep, disk, open, current, step, index, pending, said, written>>
Files == 0..keep
Absent == [there |-> FALSE, messages |-> <<>>]
File(messages) == [there |-> TRUE, messages |-> messages]

Size(messages) == SumFunction([i \in DOMAIN messages |-> messages[i].size])

Init ==
  /\ keep \in Keeps
  /\ disk = [f \in Files |-> IF f = 0 THEN File(<<>>) ELSE Absent]
  /\ open = TRUE /\ current = 0 /\ step = "ready" /\ index = 0
  /\ pending = <<>> /\ said = 0 /\ written = <<>>

ShouldRotate(size) == MaxBytes > 0 /\ current > 0 /\ current + size > MaxBytes

Write(message) ==
  /\ disk' = [disk EXCEPT ![0].messages = Append(@, message)]
  /\ current' = current + message.size /\ written' = Append(written, message)

\* A message comes.
Say ==
  /\ step = "ready" /\ said < MaxMessages /\ said' = said + 1
  /\ \E size \in Sizes :
       LET message == [number |-> said + 1, size |-> size]
       IN  \/ /\ ShouldRotate(size) /\ pending' = <<message>>
              /\ step' = "flush" /\ open' = FALSE
              /\ UNCHANGED <<disk, current, written>>
           \/ /\ ~ShouldRotate(size) /\ open /\ Write(message)
              /\ UNCHANGED <<open, step, pending>>
           \* The write fails, or there is no open file.
           \/ /\ ~ShouldRotate(size)
              /\ UNCHANGED <<disk, open, current, step, pending, written>>
  /\ UNCHANGED <<keep, index>>

Goto(where) == step' = where /\ UNCHANGED <<keep, open, current, pending, said, written>>

Flush ==
  /\ step = "flush" /\ Goto("remove")
  /\ UNCHANGED <<disk, index>>

\* The oldest, or with no files to keep the current one.
RemoveOldest ==
  /\ step = "remove" /\ Goto(IF keep = 0 THEN "reopen" ELSE "rename")
  /\ disk' = [disk EXCEPT ![keep] = Absent]
  /\ index' = IF keep = 0 THEN 0 ELSE keep - 1

\* From the oldest to the current one; what is not there is passed.
Rename ==
  /\ step = "rename"
  /\ disk' = IF disk[index].there
             THEN [disk EXCEPT ![index] = Absent, ![index + 1] = disk[index]] ELSE disk
  /\ IF index = 0 THEN Goto("reopen") /\ UNCHANGED index
     ELSE Goto("rename") /\ index' = index - 1

Reopen ==
  /\ step = "reopen" /\ open' = TRUE /\ step' = "write" /\ current' = 0
  /\ disk' = IF disk[0].there THEN disk ELSE [disk EXCEPT ![0] = File(<<>>)]
  /\ UNCHANGED <<keep, index, pending, said, written>>

WritePending ==
  /\ step = "write" /\ step' = "ready" /\ pending' = <<>>
  /\ Write(pending[1])
  /\ UNCHANGED <<keep, open, index, said>>

\* A call fails: the message is lost, what was renamed stays so.
CallFails ==
  /\ step /= "ready" /\ step' = "ready" /\ pending' = <<>>
  /\ UNCHANGED <<keep, disk, open, current, index, said, written>>

\* Faulty variant: the file is opened without what is in it.
RestartAnew ==
  /\ disk' = [disk EXCEPT ![0] = File(<<>>)]
  /\ open' = TRUE /\ current' = 0 /\ step' = "ready" /\ pending' = <<>>
  /\ UNCHANGED <<keep, index, said, written>>

\* The service ends and is started again, at any step.
Restart ==
  /\ disk' = IF disk[0].there THEN disk ELSE [disk EXCEPT ![0] = File(<<>>)]
  /\ open' = TRUE /\ current' = Size(disk'[0].messages)
  /\ step' = "ready" /\ pending' = <<>>
  /\ UNCHANGED <<keep, index, said, written>>

Next ==
  Say \/ Flush \/ RemoveOldest \/ Rename \/ Reopen \/ WritePending \/ CallFails \/ Restart

Spec == Init /\ [][Next]_vars

----------------------------------------------------------------------------
(* What must hold.                                                         *)

TypeOK ==
  /\ \A f \in Files : disk[f].there \in BOOLEAN
  /\ open \in BOOLEAN /\ current \in Nat /\ index \in Files
  /\ step \in {"ready", "flush", "remove", "rename", "reopen", "write"}

\* From the oldest file to the current one.
Kept == FlattenSeq([n \in 1..keep + 1 |-> disk[keep + 1 - n].messages])

(* Read from the oldest file to the current one, the log is the end of     *)
(* what was written: in order, nothing twice, no gap between two files,    *)
(* also when a rotation stopped at any of its calls and was begun anew;    *)
(* and a file is never longer than configured, but for a single message.   *)
(* (RotatingLogFile::rotate, write, should_rotate.)                        *)
LogUnbroken ==
  /\ IsSuffix(Kept, written)
  /\ MaxBytes > 0 =>
       \A f \in Files : Size(disk[f].messages) <= MaxBytes \/ Len(disk[f].messages) = 1
=============================================================================
