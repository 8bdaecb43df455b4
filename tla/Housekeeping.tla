---------------------------- MODULE Housekeeping ----------------------------
(***************************************************************************)
(* What the service keeps on its disk beside the database: the working     *)
(* directories, the log file, an archive being unpacked, and the files it  *)
(* left, as the context tools read them.  These share nothing, and a       *)
(* property is about one of them only; so a behaviour here is one of one   *)
(* of them, and the states are the sum, not the product.                   *)
(***************************************************************************)
EXTENDS WorkDirs

CONSTANTS Sizes, MaxBytes, Keeps, MaxMessages, Archives, Limit, Calls, Results,
          ListMax, SearchMax, FileMax, ReadMax, LineMax, Minimal, Wrapper

\* A message is a line, with its end.
ASSUME LogAssumption ==
  /\ Sizes \subseteq Nat \ {0} /\ Keeps \subseteq Nat /\ MaxBytes \in Nat /\ MaxMessages \in Nat

ASSUME ArchiveAssumption ==
  /\ Limit.entries \in Nat /\ Limit.single \in Nat /\ Limit.total \in Nat
  /\ \A a \in Archives : /\ Len(a.entries) \in Nat
                         /\ \A i \in 1..Len(a.entries) : a.entries[i].blocks \in Nat

\* A call that reads names a file; no character is shorter in JSON.
LookupChar == [bytes : Nat, quoted : Nat, valid : BOOLEAN]
LookupFile ==
  [place : {"kept", "low", "hidden", "link"}, glob : BOOLEAN, large : BOOLEAN, hits : Nat,
   lines : Seq(Seq(LookupChar))]

ASSUME LookupAssumption ==
  /\ {ListMax, SearchMax, FileMax, ReadMax, LineMax, Minimal, Wrapper} \subseteq Nat
  /\ \A c \in Calls :
       /\ c.tool \in {"list", "search", "read", "range", "none"}
       /\ c.tree \in Seq(LookupFile) /\ (c.tool \in {"read", "range"} => c.tree /= <<>>)
       /\ {c.first, c.last, c.bytes, c.left} \subseteq Nat
  /\ \A chars \in Results :
       /\ chars \in Seq(LookupChar)
       /\ \A i \in DOMAIN chars : chars[i].bytes <= chars[i].quoted

VARIABLES
  part,    \* "work", "log", "archive" or "lookup"
  logKeep, logDisk, logOpen, logCurrent, logStep, logIndex, logPending, logSaid, logWritten,
  zip, zipNext, zipStep, zipFiles, zipEntries, zipTotal, zipCopied, zipLeft,
  toolCall, toolStep, toolResult, toolText, toolAnswer

logVars == <<logKeep, logDisk, logOpen, logCurrent, logStep, logIndex, logPending, logSaid, logWritten>>
zipVars == <<zip, zipNext, zipStep, zipFiles, zipEntries, zipTotal, zipCopied, zipLeft>>
toolVars == <<toolCall, toolStep, toolResult, toolText, toolAnswer>>

Log == INSTANCE LogFile WITH
  keep <- logKeep, disk <- logDisk, open <- logOpen, current <- logCurrent, step <- logStep,
  index <- logIndex, pending <- logPending, said <- logSaid, written <- logWritten

Unpacking == INSTANCE Archive WITH
  archive <- zip, next <- zipNext, step <- zipStep, files <- zipFiles,
  entries <- zipEntries, total <- zipTotal, copied <- zipCopied, left <- zipLeft

Tools == INSTANCE Lookup WITH
  call <- toolCall, step <- toolStep, result <- toolResult, text <- toolText,
  answer <- toolAnswer

NoLog ==
  /\ logKeep = 0 /\ logDisk = <<>> /\ logOpen = FALSE /\ logCurrent = 0 /\ logStep = "none"
  /\ logIndex = 0 /\ logPending = <<>> /\ logSaid = 0 /\ logWritten = <<>>
NoArchive ==
  /\ zip = <<>> /\ zipNext = 0 /\ zipStep = "none" /\ zipFiles = <<>>
  /\ zipEntries = 0 /\ zipTotal = 0 /\ zipCopied = 0 /\ zipLeft = FALSE
NoLookup ==
  /\ toolCall = <<>> /\ toolStep = "none" /\ toolResult = <<>> /\ toolText = <<>>
  /\ toolAnswer = <<>>

HousekeepingInit ==
  /\ part \in {"work", "log", "archive", "lookup"}
  /\ Init
  /\ IF part = "log" THEN Log!Init ELSE NoLog
  /\ IF part = "archive" THEN Unpacking!Init ELSE NoArchive
  /\ IF part = "lookup" THEN Tools!Init ELSE NoLookup

HousekeepingNext ==
  \/ part = "work" /\ Next /\ UNCHANGED <<part, logVars, zipVars, toolVars>>
  \/ part = "log" /\ Log!Next /\ UNCHANGED <<part, vars, zipVars, toolVars>>
  \/ part = "archive" /\ Unpacking!Next /\ UNCHANGED <<part, vars, logVars, toolVars>>
  \/ part = "lookup" /\ Tools!Next /\ UNCHANGED <<part, vars, logVars, zipVars>>

\* The fairness is that of the cleanup: no other part has a promise to keep.
HousekeepingSpec ==
  HousekeepingInit /\ [][HousekeepingNext]_<<part, vars, logVars, zipVars, toolVars>> /\ Fairness

(* LogFile's LogUnbroken: the log read from its oldest file on is the      *)
(* unbroken end of what was written, in files of bounded size.             *)
LogUnbroken == part = "log" => Log!TypeOK /\ Log!LogUnbroken

(* Archive's UnpackedWithinLimits: never more on the disk than the limits, *)
(* and no file in part that could be removed.                              *)
UnpackedWithinLimits == part = "archive" => Unpacking!TypeOK /\ Unpacking!UnpackedWithinLimits

(* Lookup's AnswersHonest: what a context tool does not say was cut is     *)
(* all there is, and no answer is above its limit.                         *)
AnswersHonest == part = "lookup" => Tools!TypeOK /\ Tools!AnswersHonest
=============================================================================
