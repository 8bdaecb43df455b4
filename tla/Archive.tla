------------------------------- MODULE Archive -------------------------------
(***************************************************************************)
(* Unpacking a repository archive under limits: on the bytes of the        *)
(* archive, the length of a path, the number of entries, the bytes of one  *)
(* file and of all.  Entries without a safe name, and the directory that   *)
(* holds them all, are passed over.  Files are copied a block at a time,   *)
(* and an archive may name a file twice.                                   *)
(***************************************************************************)
EXTENDS SequencesExt

CONSTANTS
  Archives,     \* [bytes, entries]; an entry is [kind, name, blocks, long],
                \* of kind "unsafe", "directory" or "file"
  Limit         \* [bytes, entries, single, total], the last two in blocks

VARIABLES
  archive,
  next,      \* the entry that comes next, or is being copied
  step,      \* "opening", "entry", "copying", "unpacked", "limit", "error"
  files,     \* the blocks of the files that are there, by name
  entries,   \* extracted_entries
  total,     \* extracted_bytes
  copied,    \* of the file being copied
  left       \* whether that file is still there though unpacking has stopped

vars == <<archive, next, step, files, entries, total, copied, left>>

Entry == archive.entries[next]

Init ==
  /\ archive \in Archives /\ next = 1 /\ step = "opening"
  /\ files = <<>> /\ entries = 0 /\ total = 0 /\ copied = 0 /\ left = FALSE

\* The archive is too large, or is none.
Open ==
  /\ step = "opening"
  /\ \/ archive.bytes > Limit.bytes /\ step' = "limit"
     \/ archive.bytes <= Limit.bytes /\ step' \in {"entry", "error"}
  /\ UNCHANGED <<archive, next, files, entries, total, copied, left>>

Skip ==
  /\ Entry.kind = "unsafe" /\ next' = next + 1
  /\ UNCHANGED <<step, files, entries, copied>>

Refuse ==
  /\ Entry.kind /= "unsafe" /\ (Entry.long \/ entries >= Limit.entries)
  /\ step' = "limit" /\ UNCHANGED <<next, files, entries, copied>>

Accepted == Entry.kind /= "unsafe" /\ ~Entry.long /\ entries < Limit.entries

MakeDirectory ==
  /\ Accepted /\ Entry.kind = "directory"
  /\ next' = next + 1 /\ entries' = entries + 1 /\ UNCHANGED <<step, files, copied>>

\* A file of that name is emptied.
CreateFile ==
  /\ Accepted /\ Entry.kind = "file" /\ step' = "copying"
  /\ files' = [name \in DOMAIN files \cup {Entry.name} |-> IF name = Entry.name THEN 0 ELSE files[name]]
  /\ copied' = 0
  /\ UNCHANGED <<next, entries>>

ReadEntry ==
  /\ step = "entry" /\ next <= Len(archive.entries)
  /\ \/ Skip \/ Refuse \/ MakeDirectory \/ CreateFile
     \/ step' = "error" /\ UNCHANGED <<next, files, entries, copied>>
  /\ UNCHANGED <<archive, total, left>>

MayCopy == copied + 1 <= Limit.single /\ 1 <= Limit.total - total - copied

Without(name) == [n \in DOMAIN files \ {name} |-> files[n]]

CopyBlock ==
  /\ step = "copying" /\ copied < Entry.blocks /\ MayCopy
  /\ copied' = copied + 1 /\ files' = [files EXCEPT ![Entry.name] = copied']
  /\ UNCHANGED <<archive, next, step, entries, total, left>>

\* Faulty variant: what was copied of the file stays.
CopyStopsShort ==
  /\ step = "copying"
  /\ \/ copied < Entry.blocks /\ ~MayCopy /\ step' = "limit"
     \/ step' = "error"
  /\ UNCHANGED <<archive, next, files, entries, total, copied, left>>

\* A limit, or an error of reading or writing: the file is removed, and stays
\* when it cannot be.  It stays, too, when its mode cannot be set.
CopyStops ==
  /\ step = "copying"
  /\ \/ copied < Entry.blocks /\ ~MayCopy /\ step' = "limit"
     \/ step' = "error"
  /\ \/ files' = Without(Entry.name) /\ UNCHANGED left
     \/ left' = TRUE /\ UNCHANGED files
  /\ UNCHANGED <<archive, next, entries, total, copied>>

CopyEnds ==
  /\ step = "copying" /\ copied = Entry.blocks
  /\ step' = "entry" /\ next' = next + 1 /\ entries' = entries + 1 /\ total' = total + copied
  /\ UNCHANGED <<archive, files, copied, left>>

Finish ==
  /\ step = "entry" /\ next > Len(archive.entries) /\ step' = "unpacked"
  /\ UNCHANGED <<archive, next, files, entries, total, copied, left>>

Next == Open \/ ReadEntry \/ CopyBlock \/ CopyStops \/ CopyEnds \/ Finish

Spec == Init /\ [][Next]_vars

----------------------------------------------------------------------------
(* What must hold.                                                         *)

TypeOK ==
  /\ step \in {"opening", "entry", "copying", "unpacked", "limit", "error"}
  /\ next \in 1..Len(archive.entries) + 1 /\ entries \in Nat /\ total \in Nat /\ copied \in Nat
  /\ left \in BOOLEAN

\* The entries behind us that are files of a name.
Named(name) ==
  {i \in 1..next - 1 : archive.entries[i].kind = "file" /\ archive.entries[i].name = name}

(* At no moment is there more on the disk than the limits allow, whatever  *)
(* sizes the archive's own directory states and however often it names a   *)
(* file; and every file but the one being copied is whole, as the last     *)
(* entry of its name has it, also when unpacking stops at a limit, but for *)
(* the file in hand when it can then not be removed.                       *)
(* (extract_zip_archive, copy_zip_file_with_limits.)                       *)
UnpackedWithinLimits ==
  /\ Cardinality(DOMAIN files) <= Limit.entries
  /\ SumFunction(files) <= Limit.total
  /\ \A name \in DOMAIN files :
       /\ files[name] <= Limit.single
       /\ \/ (step = "copying" \/ left) /\ name = Entry.name
          \/ Named(name) /= {} /\ files[name] = archive.entries[Max(Named(name))].blocks
=============================================================================
