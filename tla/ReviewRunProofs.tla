--------------------------- MODULE ReviewRunProofs ---------------------------
(***************************************************************************)
(* Theorems about ReviewRun, for every set of reviews and every bound.     *)
(* The inductive invariant adds to the types: that a review is in hand     *)
(* where one is worked on (InHand), where the run stands against its row   *)
(* (RunFollows), against the rows of its reviews (RowsFollow), against the *)
(* counts (CountsFollow) and the channel (QueueFollows), and what there is *)
(* to see of the reason when it fails (CauseFollows).                      *)
(***************************************************************************)
EXTENDS ReviewRun, Discussion, TLAPS

\* A review is in hand.
Busy == {"preparing", "recording", "publishing", "failing"} \cup Executing
\* No error has been returned yet.
Smooth == {"accepted", "fetching", "choosing", "summarising"} \cup Busy
Inside == (Smooth \ {"accepted"}) \cup {"closing"}

AllEnded == \A r \in Reviews : row[r] \in Ended
NoneOpened == \A r \in Reviews : row[r] = "none"

InHand ==
  /\ at \in Busy => cur \in Reviews /\ cur \notin todo /\ row[cur] = "running"
  /\ at = "failing" => outcome \in Failures

RunFollows ==
  /\ at = "accepted" => run = "none"
  /\ at \in Inside => run = "running"
  /\ at = "reporting" => run # "completed" /\ failing
  /\ at \in Smooth => ~failing /\ ~broken
  /\ broken => failing
  /\ at # "over" => ~notified
  /\ at = "over" => (notified <=> run # "completed")
  /\ at \in {"reporting", "over"} /\ run \in {"none", "running"} => broken
  /\ run = "completed" => at = "over"

RowsFollow ==
  /\ \A r \in todo : row[r] = "none"
  /\ \A r \in Reviews :
       row[r] = "running" => broken \/ at = "dead" \/ (at \in Busy /\ r = cur)
  /\ at \in {"accepted", "fetching"} => todo = Reviews
  /\ at \in {"choosing"} \cup Busy =>
       \A r \in Reviews : r \in todo \/ row[r] \in Ended \/ (at \in Busy /\ r = cur)
  /\ at = "summarising" \/ (at = "closing" /\ ~failing) => AllEnded \/ NoneOpened

CountsFollow ==
  /\ records <= posted
  /\ at \in Smooth \cup {"closing"} /\ ~failing =>
       /\ total.findings = stored + (IF at = "recording" THEN left ELSE 0)
       /\ records = total.comments + (IF at = "publishing" THEN published ELSE 0)
  /\ at \in Busy /\ at # "publishing" => published = 0
  /\ run = "completed" => sums.findings = stored /\ sums.comments = records

QueueFollows ==
  \A r \in Reviews : queued[r] > 0 => at \in Executing /\ r = cur

NoArchiveError == \A r \in Reviews : detail[r].code # "archive_error"

Cause ==
  \/ NoneOpened
  \/ \E r \in Reviews :
       /\ \A q \in Reviews : detail[q].code = "archive_error" <=> q = r
       /\ \A q \in Reviews : row[q] = "none" <=> q \in todo

CauseFollows ==
  /\ at \in Smooth => NoArchiveError
  /\ failing /\ ~broken => Cause
  /\ run = "failed" => failing

IInv ==
  /\ TypeOK /\ InHand
  /\ RunFollows /\ RowsFollow /\ CountsFollow /\ QueueFollows /\ CauseFollows
-----------------------------------------------------------------------------
\* The initial state satisfies the inductive invariant.
LEMMA InitIInv == Init => IInv
<1> SUFFICES ASSUME Init PROVE IInv
  OBVIOUS
<1> USE ReviewRunAssumption DEF Init, Zero, Blank
<1>1. TypeOK
  <2>1. ControlOK BY DEF ControlOK, Steps, Outcomes
  <2>2. CountsOK BY DEF CountsOK
  <2>3. RowsOK BY DEF RowsOK, RowStates, Phases
  <2> QED BY <2>1, <2>2, <2>3 DEF TypeOK
<1>2. InHand /\ RunFollows /\ RowsFollow
  BY DEF InHand, RunFollows, RowsFollow, Busy, Smooth, Inside, Executing
<1>3. CountsFollow /\ QueueFollows /\ CauseFollows
  BY DEF CountsFollow, QueueFollows, CauseFollows, NoArchiveError, Smooth, Busy,
         Executing
<1> QED BY <1>1, <1>2, <1>3 DEF IInv

\* Every step keeps the types of the control state.
LEMMA ControlStep == ASSUME ControlOK, [Next]_vars PROVE ControlOK'
<1> USE ReviewRunAssumption
<1> USE DEF ControlOK, Executing, Steps, Outcomes, Failures, Go, Break, book,
            loop, tables, outside
<1>1. CASE OpenRun BY <1>1 DEF OpenRun
<1>2. CASE Fetch BY <1>2 DEF Fetch
<1>3. CASE LoopEnds BY <1>3 DEF LoopEnds
<1>4. CASE PrepareContext BY <1>4 DEF PrepareContext
<1>5. ASSUME NEW r \in Reviews, StartTask(r) PROVE ControlOK'
  BY <1>5 DEF StartTask
<1>6. CASE ExecutionReturns BY <1>6 DEF ExecutionReturns
<1>7. CASE FallBack BY <1>7 DEF FallBack, WriterDone
<1>8. CASE TakeResult BY <1>8 DEF TakeResult, WriterDone
<1>9. CASE RecordFinding BY <1>9 DEF RecordFinding
<1>10. CASE Draft BY <1>10 DEF Draft
<1>11. CASE Publish BY <1>11 DEF Publish, Recorded, Unrecorded, Unacknowledged
<1>12. CASE CompleteTask BY <1>12 DEF CompleteTask
<1>13. CASE FailTask BY <1>13 DEF FailTask, FailRow
<1>14. CASE Summarise
  BY <1>14 DEF Summarise, Recorded, Unrecorded, Unacknowledged
<1>15. CASE CloseRun BY <1>15 DEF CloseRun
<1>16. CASE Notify BY <1>16 DEF Notify
<1>17. CASE ReportProgress BY <1>17 DEF ReportProgress
<1>18. ASSUME NEW r \in Reviews, WriteProgress(r) PROVE ControlOK'
  BY <1>18 DEF WriteProgress
<1>19. CASE Die BY <1>19 DEF Die
<1>20. CASE UNCHANGED vars BY <1>20 DEF vars
<1> QED
  BY <1>1, <1>2, <1>3, <1>4, <1>5, <1>6, <1>7, <1>8, <1>9, <1>10, <1>11, <1>12,
     <1>13, <1>14, <1>15, <1>16, <1>17, <1>18, <1>19, <1>20 DEF Next, Advance

\* Every step keeps the counts natural numbers, within their bounds.
LEMMA CountsStep == ASSUME ControlOK, CountsOK, [Next]_vars PROVE CountsOK'
<1> USE ReviewRunAssumption
<1> USE DEF CountsOK, Zero, Go, Break, book, loop, tables, outside
<1>1. CASE OpenRun BY <1>1 DEF OpenRun
<1>2. CASE Fetch BY <1>2 DEF Fetch
<1>3. CASE LoopEnds BY <1>3 DEF LoopEnds
<1>4. CASE PrepareContext BY <1>4 DEF PrepareContext
<1>5. ASSUME NEW r \in Reviews, StartTask(r) PROVE CountsOK'
  BY <1>5 DEF StartTask
<1>6. CASE ExecutionReturns BY <1>6 DEF ExecutionReturns
<1>7. CASE FallBack BY <1>7 DEF FallBack, WriterDone
<1>8. CASE TakeResult BY <1>8 DEF TakeResult, WriterDone
<1>9. CASE RecordFinding BY <1>9 DEF RecordFinding
<1>10. CASE Draft BY <1>10 DEF Draft
<1>11. CASE Publish BY <1>11 DEF Publish, Recorded, Unrecorded, Unacknowledged
<1>12. CASE CompleteTask BY <1>12 DEF CompleteTask
<1>13. CASE FailTask BY <1>13 DEF FailTask, FailRow
<1>14. CASE Summarise
  BY <1>14 DEF Summarise, Recorded, Unrecorded, Unacknowledged
<1>15. CASE CloseRun BY <1>15 DEF CloseRun
<1>16. CASE Notify BY <1>16 DEF Notify
<1>17. CASE ReportProgress BY <1>17 DEF ReportProgress
<1>18. ASSUME NEW r \in Reviews, WriteProgress(r) PROVE CountsOK'
  BY <1>18 DEF WriteProgress
<1>19. CASE Die BY <1>19 DEF Die
<1>20. CASE UNCHANGED vars BY <1>20 DEF vars
<1> QED
  BY <1>1, <1>2, <1>3, <1>4, <1>5, <1>6, <1>7, <1>8, <1>9, <1>10, <1>11, <1>12,
     <1>13, <1>14, <1>15, <1>16, <1>17, <1>18, <1>19, <1>20 DEF Next, Advance

\* Every step keeps the types of the rows: what it writes it writes to the
\* review in hand.
LEMMA RowsStep == ASSUME ControlOK, CountsOK, RowsOK, InHand, [Next]_vars PROVE RowsOK'
<1> USE ReviewRunAssumption
<1> USE DEF RowsOK, InHand, Busy, Executing, RowStates, Phases, Ended, Show,
            Go, Break, book, loop, tables, outside
<1>1. CASE OpenRun BY <1>1 DEF OpenRun
<1>2. CASE Fetch BY <1>2 DEF Fetch
<1>3. CASE LoopEnds BY <1>3 DEF LoopEnds
<1>4. CASE PrepareContext BY <1>4 DEF PrepareContext
<1>5. ASSUME NEW r \in Reviews, StartTask(r) PROVE RowsOK' BY <1>5, SMTT(30) DEF StartTask
<1>6. CASE ExecutionReturns BY <1>6 DEF ExecutionReturns
<1>7. CASE FallBack BY <1>7 DEF FallBack, WriterDone
<1>8. CASE TakeResult BY <1>8 DEF TakeResult, WriterDone
<1>9. CASE RecordFinding BY <1>9 DEF RecordFinding
<1>10. CASE Draft BY <1>10 DEF Draft
<1>11. CASE Publish BY <1>11 DEF Publish, Recorded, Unrecorded, Unacknowledged
<1>12. CASE CompleteTask
  <2> USE <1>12 DEF CompleteTask
  <2>1. cur \in Reviews /\ row' \in [Reviews -> RowStates]
    OBVIOUS
  <2>2. phase' \in [Reviews -> Phases]
    BY <2>1
  <2>3. detail' \in [Reviews -> [code : {"none"} \cup Failures,
                                findings : Nat, comments : Nat]]
    <3>1. [code |-> "none", findings |-> found, comments |-> published]
            \in [code : {"none"} \cup Failures, findings : Nat, comments : Nat]
      BY DEF CountsOK
    <3> QED BY <2>1, <3>1
  <2> QED BY <2>1, <2>2, <2>3
<1>13. CASE FailTask
  <2> USE <1>13 DEF FailTask, FailRow
  <2>1. cur \in Reviews /\ row' \in [Reviews -> RowStates]
    OBVIOUS
  <2>2. phase' \in [Reviews -> Phases]
    BY <2>1
  <2>3. detail' \in [Reviews -> [code : {"none"} \cup Failures,
                                findings : Nat, comments : Nat]]
    <3>1. [Blank EXCEPT !.code = outcome]
            \in [code : {"none"} \cup Failures, findings : Nat, comments : Nat]
      BY DEF Blank
    <3> QED BY <2>1, <3>1
  <2> QED BY <2>1, <2>2, <2>3
<1>14. CASE Summarise
  BY <1>14 DEF Summarise, Recorded, Unrecorded, Unacknowledged
<1>15. CASE CloseRun BY <1>15 DEF CloseRun
<1>16. CASE Notify BY <1>16 DEF Notify
<1>17. CASE ReportProgress BY <1>17 DEF ReportProgress
<1>18. ASSUME NEW r \in Reviews, WriteProgress(r) PROVE RowsOK'
  BY <1>18 DEF WriteProgress
<1>19. CASE Die BY <1>19 DEF Die
<1>20. CASE UNCHANGED vars BY <1>20 DEF vars
<1> QED
  BY <1>1, <1>2, <1>3, <1>4, <1>5, <1>6, <1>7, <1>8, <1>9, <1>10, <1>11, <1>12,
     <1>13, <1>14, <1>15, <1>16, <1>17, <1>18, <1>19, <1>20 DEF Next, Advance

\* Every step of a review is about the one that was started last.
LEMMA InHandStep == ASSUME ControlOK, RowsOK, InHand, RowsFollow, [Next]_vars PROVE InHand'
<1> USE ReviewRunAssumption
<1> USE DEF ControlOK, RowsOK, InHand, RowsFollow, Busy, Executing, Outcomes,
            Failures, Go, Break, book, loop, tables, outside
<1>1. CASE OpenRun BY <1>1 DEF OpenRun
<1>2. CASE Fetch BY <1>2 DEF Fetch
<1>3. CASE LoopEnds BY <1>3 DEF LoopEnds
<1>4. CASE PrepareContext BY <1>4 DEF PrepareContext
<1>5. ASSUME NEW r \in Reviews, StartTask(r) PROVE InHand' BY <1>5 DEF StartTask
<1>6. CASE ExecutionReturns BY <1>6 DEF ExecutionReturns
<1>7. CASE FallBack BY <1>7 DEF FallBack, WriterDone
<1>8. CASE TakeResult BY <1>8 DEF TakeResult, WriterDone
<1>9. CASE RecordFinding BY <1>9 DEF RecordFinding
<1>10. CASE Draft BY <1>10 DEF Draft
<1>11. CASE Publish BY <1>11 DEF Publish, Recorded, Unrecorded, Unacknowledged
<1>12. CASE CompleteTask BY <1>12 DEF CompleteTask
<1>13. CASE FailTask BY <1>13 DEF FailTask, FailRow
<1>14. CASE Summarise
  BY <1>14 DEF Summarise, Recorded, Unrecorded, Unacknowledged
<1>15. CASE CloseRun BY <1>15 DEF CloseRun
<1>16. CASE Notify BY <1>16 DEF Notify
<1>17. CASE ReportProgress BY <1>17 DEF ReportProgress
<1>18. ASSUME NEW r \in Reviews, WriteProgress(r) PROVE InHand'
  BY <1>18 DEF WriteProgress
<1>19. CASE Die BY <1>19 DEF Die
<1>20. CASE UNCHANGED vars BY <1>20 DEF vars
<1> QED
  BY <1>1, <1>2, <1>3, <1>4, <1>5, <1>6, <1>7, <1>8, <1>9, <1>10, <1>11, <1>12,
     <1>13, <1>14, <1>15, <1>16, <1>17, <1>18, <1>19, <1>20 DEF Next, Advance

\* The run's row is written at its start and at its end, in step with the task.
LEMMA RunStep == ASSUME ControlOK, RowsOK, RunFollows, [Next]_vars PROVE RunFollows'
<1> USE ReviewRunAssumption
<1> USE DEF ControlOK, RowsOK, RunFollows, Smooth, Inside, Busy, Executing,
            Steps, RowStates, Ended, Go, Break, book, loop, tables, outside
<1>1. CASE OpenRun BY <1>1 DEF OpenRun
<1>2. CASE Fetch BY <1>2 DEF Fetch
<1>3. CASE LoopEnds BY <1>3 DEF LoopEnds
<1>4. CASE PrepareContext BY <1>4 DEF PrepareContext
<1>5. ASSUME NEW r \in Reviews, StartTask(r) PROVE RunFollows'
  BY <1>5 DEF StartTask
<1>6. CASE ExecutionReturns BY <1>6 DEF ExecutionReturns
<1>7. CASE FallBack BY <1>7 DEF FallBack, WriterDone
<1>8. CASE TakeResult BY <1>8 DEF TakeResult, WriterDone
<1>9. CASE RecordFinding BY <1>9 DEF RecordFinding
<1>10. CASE Draft BY <1>10 DEF Draft
<1>11. CASE Publish BY <1>11 DEF Publish, Recorded, Unrecorded, Unacknowledged
<1>12. CASE CompleteTask BY <1>12 DEF CompleteTask
<1>13. CASE FailTask BY <1>13 DEF FailTask, FailRow
<1>14. CASE Summarise
  BY <1>14 DEF Summarise, Recorded, Unrecorded, Unacknowledged
<1>15. CASE CloseRun BY <1>15 DEF CloseRun
<1>16. CASE Notify BY <1>16 DEF Notify
<1>17. CASE ReportProgress BY <1>17 DEF ReportProgress
<1>18. ASSUME NEW r \in Reviews, WriteProgress(r) PROVE RunFollows'
  BY <1>18 DEF WriteProgress
<1>19. CASE Die BY <1>19 DEF Die
<1>20. CASE UNCHANGED vars BY <1>20 DEF vars
<1> QED
  BY <1>1, <1>2, <1>3, <1>4, <1>5, <1>6, <1>7, <1>8, <1>9, <1>10, <1>11, <1>12,
     <1>13, <1>14, <1>15, <1>16, <1>17, <1>18, <1>19, <1>20 DEF Next, Advance

\* The rows of the reviews are those the loop has reached, each ended before the
\* next is started.
LEMMA RowsFollowStep == ASSUME ControlOK, RowsOK, InHand, RunFollows, RowsFollow, [Next]_vars PROVE RowsFollow'
<1> USE ReviewRunAssumption
<1> USE DEF ControlOK, RowsOK, InHand, RunFollows, RowsFollow, AllEnded,
            NoneOpened, Smooth, Inside, Busy, Executing, RowStates, Ended,
            Go, Break, book, loop, tables, outside
<1>1. CASE OpenRun BY <1>1 DEF OpenRun
<1>2. CASE Fetch BY <1>2 DEF Fetch
<1>3. CASE LoopEnds BY <1>3 DEF LoopEnds
<1>4. CASE PrepareContext BY <1>4 DEF PrepareContext
<1>5. ASSUME NEW r \in Reviews, StartTask(r) PROVE RowsFollow'
  BY <1>5 DEF StartTask
<1>6. CASE ExecutionReturns BY <1>6 DEF ExecutionReturns
<1>7. CASE FallBack BY <1>7 DEF FallBack, WriterDone
<1>8. CASE TakeResult BY <1>8 DEF TakeResult, WriterDone
<1>9. CASE RecordFinding BY <1>9 DEF RecordFinding
<1>10. CASE Draft BY <1>10 DEF Draft
<1>11. CASE Publish BY <1>11 DEF Publish, Recorded, Unrecorded, Unacknowledged
<1>12. CASE CompleteTask BY <1>12 DEF CompleteTask
<1>13. CASE FailTask BY <1>13 DEF FailTask, FailRow
<1>14. CASE Summarise
  BY <1>14 DEF Summarise, Recorded, Unrecorded, Unacknowledged
<1>15. CASE CloseRun BY <1>15 DEF CloseRun
<1>16. CASE Notify BY <1>16 DEF Notify
<1>17. CASE ReportProgress BY <1>17 DEF ReportProgress
<1>18. ASSUME NEW r \in Reviews, WriteProgress(r) PROVE RowsFollow'
  BY <1>18 DEF WriteProgress
<1>19. CASE Die BY <1>19 DEF Die
<1>20. CASE UNCHANGED vars BY <1>20 DEF vars
<1> QED
  BY <1>1, <1>2, <1>3, <1>4, <1>5, <1>6, <1>7, <1>8, <1>9, <1>10, <1>11, <1>12,
     <1>13, <1>14, <1>15, <1>16, <1>17, <1>18, <1>19, <1>20 DEF Next, Advance

\* The summary counts what was recorded, while nothing has failed.
LEMMA CountsFollowStep == ASSUME ControlOK, CountsOK, RunFollows, CountsFollow, [Next]_vars PROVE CountsFollow'
<1> USE ReviewRunAssumption
<1> USE DEF ControlOK, CountsOK, RunFollows, CountsFollow, Smooth, Inside,
            Busy, Executing, Zero, Go, Break, book, loop, tables, outside
<1>1. CASE OpenRun BY <1>1 DEF OpenRun
<1>2. CASE Fetch BY <1>2 DEF Fetch
<1>3. CASE LoopEnds BY <1>3 DEF LoopEnds
<1>4. CASE PrepareContext BY <1>4 DEF PrepareContext
<1>5. ASSUME NEW r \in Reviews, StartTask(r) PROVE CountsFollow'
  BY <1>5 DEF StartTask
<1>6. CASE ExecutionReturns BY <1>6 DEF ExecutionReturns
<1>7. CASE FallBack BY <1>7 DEF FallBack, WriterDone
<1>8. CASE TakeResult BY <1>8 DEF TakeResult, WriterDone
<1>9. CASE RecordFinding BY <1>9 DEF RecordFinding
<1>10. CASE Draft BY <1>10 DEF Draft
<1>11. CASE Publish BY <1>11 DEF Publish, Recorded, Unrecorded, Unacknowledged
<1>12. CASE CompleteTask BY <1>12 DEF CompleteTask
<1>13. CASE FailTask BY <1>13 DEF FailTask, FailRow
<1>14. CASE Summarise
  BY <1>14 DEF Summarise, Recorded, Unrecorded, Unacknowledged
<1>15. CASE CloseRun BY <1>15 DEF CloseRun
<1>16. CASE Notify BY <1>16 DEF Notify
<1>17. CASE ReportProgress BY <1>17 DEF ReportProgress
<1>18. ASSUME NEW r \in Reviews, WriteProgress(r) PROVE CountsFollow'
  BY <1>18 DEF WriteProgress
<1>19. CASE Die BY <1>19 DEF Die
<1>20. CASE UNCHANGED vars BY <1>20 DEF vars
<1> QED
  BY <1>1, <1>2, <1>3, <1>4, <1>5, <1>6, <1>7, <1>8, <1>9, <1>10, <1>11, <1>12,
     <1>13, <1>14, <1>15, <1>16, <1>17, <1>18, <1>19, <1>20 DEF Next, Advance

\* Progress is only reported for the review in hand.
LEMMA QueueStep == ASSUME ControlOK, RowsOK, InHand, QueueFollows, [Next]_vars PROVE QueueFollows'
<1> USE ReviewRunAssumption
<1> USE DEF ControlOK, RowsOK, InHand, QueueFollows, Busy, Executing, Go,
            Break, book, loop, tables, outside
<1>1. CASE OpenRun BY <1>1 DEF OpenRun
<1>2. CASE Fetch BY <1>2 DEF Fetch
<1>3. CASE LoopEnds BY <1>3 DEF LoopEnds
<1>4. CASE PrepareContext BY <1>4 DEF PrepareContext
<1>5. ASSUME NEW r \in Reviews, StartTask(r) PROVE QueueFollows'
  BY <1>5 DEF StartTask
<1>6. CASE ExecutionReturns BY <1>6 DEF ExecutionReturns
<1>7. CASE FallBack BY <1>7 DEF FallBack, WriterDone
<1>8. CASE TakeResult BY <1>8 DEF TakeResult, WriterDone
<1>9. CASE RecordFinding BY <1>9 DEF RecordFinding
<1>10. CASE Draft BY <1>10 DEF Draft
<1>11. CASE Publish BY <1>11 DEF Publish, Recorded, Unrecorded, Unacknowledged
<1>12. CASE CompleteTask BY <1>12 DEF CompleteTask
<1>13. CASE FailTask BY <1>13 DEF FailTask, FailRow
<1>14. CASE Summarise
  BY <1>14 DEF Summarise, Recorded, Unrecorded, Unacknowledged
<1>15. CASE CloseRun BY <1>15 DEF CloseRun
<1>16. CASE Notify BY <1>16 DEF Notify
<1>17. CASE ReportProgress BY <1>17 DEF ReportProgress
<1>18. ASSUME NEW r \in Reviews, WriteProgress(r) PROVE QueueFollows'
  BY <1>18 DEF WriteProgress
<1>19. CASE Die BY <1>19 DEF Die
<1>20. CASE UNCHANGED vars BY <1>20 DEF vars
<1> QED
  BY <1>1, <1>2, <1>3, <1>4, <1>5, <1>6, <1>7, <1>8, <1>9, <1>10, <1>11, <1>12,
     <1>13, <1>14, <1>15, <1>16, <1>17, <1>18, <1>19, <1>20 DEF Next, Advance

\* While the store works, a run fails before its first review or by the archive of
\* its last one.
LEMMA CauseStep == ASSUME ControlOK, RowsOK, InHand, RunFollows, RowsFollow, CauseFollows, [Next]_vars PROVE CauseFollows'
<1> USE ReviewRunAssumption
<1> USE DEF ControlOK, RowsOK, InHand, RunFollows, RowsFollow, CauseFollows,
            Cause, NoneOpened, NoArchiveError, Smooth, Inside, Busy,
            Executing, RowStates, Ended, Failures, Go, Break, book, loop,
            tables, outside
<1>1. CASE OpenRun BY <1>1 DEF OpenRun
<1>2. CASE Fetch BY <1>2 DEF Fetch
<1>3. CASE LoopEnds BY <1>3 DEF LoopEnds
<1>4. CASE PrepareContext BY <1>4 DEF PrepareContext
<1>5. ASSUME NEW r \in Reviews, StartTask(r) PROVE CauseFollows'
  BY <1>5 DEF StartTask
<1>6. CASE ExecutionReturns BY <1>6 DEF ExecutionReturns
<1>7. CASE FallBack BY <1>7 DEF FallBack, WriterDone
<1>8. CASE TakeResult BY <1>8 DEF TakeResult, WriterDone
<1>9. CASE RecordFinding BY <1>9 DEF RecordFinding
<1>10. CASE Draft BY <1>10 DEF Draft
<1>11. CASE Publish BY <1>11 DEF Publish, Recorded, Unrecorded, Unacknowledged
<1>12. CASE CompleteTask BY <1>12 DEF CompleteTask
<1>13. CASE FailTask
  <2>1. /\ cur \in Reviews /\ cur \notin todo /\ outcome \in Failures
        /\ run = "running" /\ NoArchiveError /\ ~failing /\ ~broken
        /\ UNCHANGED <<run, todo>>
    BY <1>13 DEF FailTask
  <2>2. CASE Break("closing")
    BY <2>1, <2>2
  <2>3. CASE FailRow /\ outcome # "archive_error" /\ Go("choosing")
    BY <2>1, <2>3 DEF FailRow, Blank
  <2>4. CASE FailRow /\ outcome = "archive_error" /\ at' = "closing" /\ failing' = TRUE
    <3>1. \A q \in Reviews : detail'[q].code = "archive_error" <=> q = cur
      BY <2>1, <2>4 DEF FailRow, Blank
    <3>2. \A q \in Reviews : row'[q] = "none" <=> q \in todo'
      BY <1>13, <2>1, <2>4 DEF FailTask, FailRow
    <3> QED BY <2>1, <2>4, <3>1, <3>2
  <2> QED BY <1>13, <2>2, <2>3, <2>4 DEF FailTask
<1>14. CASE Summarise
  BY <1>14 DEF Summarise, Recorded, Unrecorded, Unacknowledged
<1>15. CASE CloseRun BY <1>15 DEF CloseRun
<1>16. CASE Notify BY <1>16 DEF Notify
<1>17. CASE ReportProgress BY <1>17 DEF ReportProgress
<1>18. ASSUME NEW r \in Reviews, WriteProgress(r) PROVE CauseFollows'
  BY <1>18 DEF WriteProgress
<1>19. CASE Die BY <1>19 DEF Die
<1>20. CASE UNCHANGED vars BY <1>20 DEF vars
<1> QED
  BY <1>1, <1>2, <1>3, <1>4, <1>5, <1>6, <1>7, <1>8, <1>9, <1>10, <1>11, <1>12,
     <1>13, <1>14, <1>15, <1>16, <1>17, <1>18, <1>19, <1>20 DEF Next, Advance
-----------------------------------------------------------------------------
\* The inductive invariant holds.
LEMMA Inductive == Safe => []IInv
<1>1. Init => IInv
  BY InitIInv
<1>2. IInv /\ [Next]_vars => IInv'
  <2> SUFFICES ASSUME IInv, [Next]_vars PROVE IInv'
    OBVIOUS
  <2>1. ControlOK /\ CountsOK /\ RowsOK /\ InHand /\ RunFollows /\ RowsFollow
        /\ CountsFollow /\ QueueFollows /\ CauseFollows
    BY DEF IInv, TypeOK
  <2>2. ControlOK' BY <2>1, ControlStep
  <2>3. CountsOK' BY <2>1, CountsStep
  <2>4. RowsOK' BY <2>1, RowsStep
  <2>5. InHand' BY <2>1, InHandStep
  <2>6. RunFollows' BY <2>1, RunStep
  <2>7. RowsFollow' BY <2>1, RowsFollowStep
  <2>8. CountsFollow' BY <2>1, CountsFollowStep
  <2>9. QueueFollows' BY <2>1, QueueStep
  <2>10. CauseFollows' BY <2>1, CauseStep
  <2> QED
    BY <2>2, <2>3, <2>4, <2>5, <2>6, <2>7, <2>8, <2>9, <2>10 DEF IInv, TypeOK
<1> QED BY <1>1, <1>2, PTL DEF Safe

(* Whatever fails and wherever the run dies, a completed run's totals are  *)
(* its finding rows and its comment records, and every comment on record   *)
(* exists on GitLab.                                                       *)
THEOREM RunBooksBalance == Safe => [](TypeOK /\ BooksBalance /\ RecordsArePosted)
<1>1. IInv => TypeOK /\ BooksBalance /\ RecordsArePosted
  BY DEF IInv, CountsFollow, BooksBalance, RecordsArePosted
<1> QED BY <1>1, Inductive, PTL

(* A run that is over leaves nothing open but by a failure of the store,   *)
(* and the requester hears of a failure exactly when the run did not       *)
(* complete.                                                               *)
THEOREM RunLeavesNothingOpen == Safe => []NothingLeftOpen
<1>1. IInv => NothingLeftOpen
  <2> SUFFICES ASSUME IInv, at = "over" PROVE NothingLeftOpen
    BY DEF NothingLeftOpen
  <2>1. at \notin Busy
    BY DEF Busy, Executing
  <2> QED BY <2>1 DEF IInv, RunFollows, RowsFollow, NothingLeftOpen
<1> QED BY <1>1, Inductive, PTL

(* While the store works, a failed run had no diff, or no archive for the  *)
(* review it ended with.                                                   *)
THEOREM RunFailureHasCause == Safe => []FailureHasCause
<1>1. IInv => FailureHasCause
  BY DEF IInv, CauseFollows, Cause, NoneOpened, FailureHasCause,
         Ledger!NoneStarted
<1> QED BY <1>1, Inductive, PTL

(* Every step of a run is a step of the ledger, or none: rows open once,   *)
(* end once, one review at a time, and a completed run has settled all of  *)
(* them or run none.                                                       *)
THEOREM RunImplementsLedger == Safe => ImplementsLedger
<1>1. Init => Ledger!Init
  BY DEF Init, Ledger!Init
<1>2. IInv /\ [Next]_vars => [Ledger!Next]_(Ledger!vars)
  <2> SUFFICES ASSUME IInv, [Next]_vars PROVE [Ledger!Next]_(Ledger!vars)
    OBVIOUS
  <2> USE DEF Ledger!vars, Go, Break, tables
  <2>1. CASE OpenRun
    BY <2>1 DEF OpenRun, Ledger!Next, Ledger!Open, IInv, RunFollows
  <2>2. ASSUME NEW r \in Reviews, StartTask(r) PROVE [Ledger!Next]_(Ledger!vars)
    <3>1. run = "running" /\ row[r] = "none" /\ \A q \in Reviews : row[q] # "running"
      BY <2>2 DEF StartTask, IInv, RunFollows, RowsFollow, Smooth, Inside, Busy, Executing
    <3>2. Ledger!Start(r) \/ UNCHANGED Ledger!vars
      BY <2>2, <3>1 DEF StartTask, Ledger!Start
    <3> QED BY <3>2 DEF Ledger!Next
  <2>3. ASSUME CompleteTask \/ FailTask PROVE [Ledger!Next]_(Ledger!vars)
    <3>1. cur \in Reviews /\ run = "running" /\ row[cur] = "running"
      BY <2>3 DEF CompleteTask, FailTask, IInv, InHand, RunFollows, Smooth, Inside,
                  Busy, Executing
    <3>2. Ledger!End(cur) \/ UNCHANGED Ledger!vars
      BY <2>3, <3>1 DEF CompleteTask, FailTask, FailRow, Ledger!End, Ledger!Ended
    <3> QED BY <3>1, <3>2 DEF Ledger!Next
  <2>4. CASE CloseRun
    <3>1. run = "running"
      BY <2>4 DEF CloseRun, IInv, RunFollows, Inside
    <3>2. CASE failing
      BY <2>4, <3>1, <3>2 DEF CloseRun, Ledger!Next, Ledger!Fail
    <3>3. CASE ~failing
      <4>1. Ledger!AllSettled \/ Ledger!NoneStarted
        BY <2>4, <3>3 DEF CloseRun, IInv, RowsFollow, AllEnded, NoneOpened, Ended,
                          Ledger!AllSettled, Ledger!NoneStarted, Ledger!Ended
      <4> QED BY <2>4, <3>1, <3>3, <4>1 DEF CloseRun, Ledger!Next, Ledger!Complete
    <3> QED BY <3>2, <3>3
  <2>5. ASSUME \/ Fetch \/ LoopEnds \/ PrepareContext \/ ExecutionReturns \/ FallBack
               \/ TakeResult \/ Notify \/ ReportProgress \/ Die
               \/ \E r \in Reviews : WriteProgress(r)
        PROVE  UNCHANGED Ledger!vars
    BY <2>5 DEF Fetch, LoopEnds, PrepareContext, ExecutionReturns, FallBack, TakeResult,
                Notify, ReportProgress, Die, WriteProgress
  <2>6. ASSUME RecordFinding \/ Draft \/ Publish \/ Summarise
        PROVE  UNCHANGED Ledger!vars
    BY <2>6 DEF RecordFinding, Draft, Publish, Summarise
  <2>7. CASE UNCHANGED vars
    BY <2>7 DEF vars
  <2> QED BY <2>1, <2>2, <2>3, <2>4, <2>5, <2>6, <2>7 DEF Next, Advance
<1> QED BY <1>1, <1>2, Inductive, PTL DEF Safe, ImplementsLedger, Ledger!Spec

(* Whoever reads a completed run in the tables finds no review of it open  *)
(* or skipped halfway, and never two reviews open at once.                 *)
THEOREM RunCompletedMeansSettled == Safe => []Ledger!CompletedMeansSettled
<1> USE DEF Ledger!RowStates, Ledger!Ended
<1>1. Ledger!Init => Ledger!TypeOK /\ Ledger!CompletedMeansSettled
  BY DEF Ledger!Init, Ledger!TypeOK, Ledger!CompletedMeansSettled
<1>2. Ledger!TypeOK /\ Ledger!CompletedMeansSettled /\ [Ledger!Next]_(Ledger!vars)
        => (Ledger!TypeOK /\ Ledger!CompletedMeansSettled)'
  <2> SUFFICES ASSUME Ledger!TypeOK, Ledger!CompletedMeansSettled,
                      [Ledger!Next]_(Ledger!vars)
               PROVE  (Ledger!TypeOK /\ Ledger!CompletedMeansSettled)'
    OBVIOUS
  <2> USE DEF Ledger!TypeOK, Ledger!CompletedMeansSettled, Ledger!AllSettled,
              Ledger!NoneStarted
  <2>1. CASE Ledger!Open
    BY <2>1 DEF Ledger!Open
  <2>2. CASE Ledger!Complete \/ Ledger!Fail
    BY <2>2 DEF Ledger!Complete, Ledger!Fail
  <2>3. ASSUME NEW r \in Reviews, Ledger!Start(r)
        PROVE  (Ledger!TypeOK /\ Ledger!CompletedMeansSettled)'
    BY <2>3 DEF Ledger!Start
  <2>4. ASSUME NEW r \in Reviews, Ledger!End(r)
        PROVE  (Ledger!TypeOK /\ Ledger!CompletedMeansSettled)'
    BY <2>4 DEF Ledger!End
  <2>5. CASE UNCHANGED Ledger!vars
    BY <2>5 DEF Ledger!vars
  <2> QED BY <2>1, <2>2, <2>3, <2>4, <2>5 DEF Ledger!Next
<1> QED BY <1>1, <1>2, RunImplementsLedger, PTL DEF ImplementsLedger, Ledger!Spec

(* No report of an execution is written over the phase its review ended    *)
(* with: the writer task has emptied the channel by then.                  *)
THEOREM RunEndIsShownLast == Safe => EndIsShownLast
<1>1. IInv /\ [Next]_vars =>
        [\A r \in Reviews : row[r] \in Ended => phase'[r] = phase[r]]_vars
  <2> SUFFICES ASSUME IInv, [Next]_vars, NEW r \in Reviews, row[r] \in Ended
               PROVE  phase'[r] = phase[r]
    OBVIOUS
  <2>1. RowsOK /\ InHand /\ QueueFollows /\ RowsFollow
    BY DEF IInv, TypeOK
  <2> USE <2>1 DEF RowsOK, Ended
  <2>2. at \in Busy => cur \in Reviews /\ r # cur
    BY DEF InHand
  <2>3. ASSUME \/ PrepareContext \/ FallBack \/ Draft \/ CompleteTask \/ FailTask
        PROVE  phase'[r] = phase[r]
    <3>1. Show(cur, "working") \/ Show(cur, "completed") \/ Show(cur, "failed")
          \/ UNCHANGED phase
      BY <2>3 DEF PrepareContext, FallBack, Draft, CompleteTask, FailTask
    <3>2. at \in Busy
      BY <2>3 DEF PrepareContext, FallBack, WriterDone, Draft, CompleteTask, FailTask, Busy
    <3> QED BY <2>2, <3>1, <3>2 DEF Show
  <2>4. ASSUME NEW q \in Reviews, StartTask(q) PROVE phase'[r] = phase[r]
    <3>1. r # q
      BY <2>4 DEF StartTask, RowsFollow
    <3> QED BY <2>4, <3>1 DEF StartTask, Show
  <2>5. ASSUME NEW q \in Reviews, WriteProgress(q) PROVE phase'[r] = phase[r]
    <3>1. r # q
      BY <2>2, <2>5 DEF WriteProgress, QueueFollows, Busy
    <3> QED BY <2>5, <3>1 DEF WriteProgress, Show
  <2>6. ASSUME \/ OpenRun \/ Fetch \/ LoopEnds \/ ExecutionReturns \/ TakeResult
               \/ RecordFinding \/ Publish \/ Summarise \/ CloseRun \/ Notify
               \/ ReportProgress \/ Die \/ UNCHANGED vars
        PROVE  phase' = phase
    BY <2>6 DEF OpenRun, Fetch, LoopEnds, ExecutionReturns, TakeResult, RecordFinding,
                Publish, Summarise, CloseRun, Notify, ReportProgress, Die, vars, tables
  <2> QED BY <2>3, <2>4, <2>5, <2>6 DEF Next, Advance
<1> QED BY <1>1, Inductive, PTL DEF Safe, EndIsShownLast

-----------------------------------------------------------------------------
(* A run opens its discussions with calls of create_discussion, of which   *)
(* Discussion is the specification.  The inductive invariant of a call     *)
(* says what the worker knows of the requests (Sent, Informed) and that    *)
(* the second is sent only when GitLab will never grant the first          *)
(* (Exclusive).                                                            *)
Sent(c) == worker[c] = "starting" <=> first[c] = "unsent"

Exclusive(c) ==
  /\ first[c] = "rejected" => c \in Positioned
  /\ second[c] # "unsent" => first[c] = "rejected"

Informed(c) ==
  /\ worker[c] = "created" => first[c] = "created"
  /\ worker[c] = "fell_back" => second[c] = "created"
  /\ caller[c] \in Positions => worker[c] \in {"created", "fell_back"} /\ caller[c] = Position(c)
  /\ worker[c] \in {"starting", "posting"} => second[c] = "unsent"

CommentInv == CallTypeOK /\ \A c \in Calls : Sent(c) /\ Exclusive(c) /\ Informed(c)

\* The initial state satisfies the inductive invariant.
LEMMA CommentInit == CallInit => CommentInv
  BY DEF CallInit, CommentInv, CallTypeOK, Sent, Exclusive, Informed, Requests,
         Returned, Positions

\* Every step keeps the types.
LEMMA CommentTypes == ASSUME CallTypeOK, [CallNext]_(callVars) PROVE CallTypeOK'
<1> USE DEF CallTypeOK, Requests, Returned, Positions
<1>1. ASSUME NEW c \in Calls, Caller(c) PROVE CallTypeOK'
  BY <1>1 DEF Caller, Return, TimeOut, Position
<1>2. ASSUME NEW c \in Calls, Post(c) \/ TryUnplaced(c) PROVE CallTypeOK'
  BY <1>2 DEF Post, TryUnplaced
<1>3. ASSUME NEW c \in Calls, ReadReply(c) \/ GiveUp(c) PROVE CallTypeOK'
  BY <1>3 DEF ReadReply, GiveUp
<1>4. ASSUME NEW c \in Calls, GitLab(c) PROVE CallTypeOK'
  BY <1>4 DEF GitLab, ReceiveFirst, ReceiveSecond
<1>5. CASE UNCHANGED callVars
  BY <1>5 DEF callVars
<1> QED BY <1>1, <1>2, <1>3, <1>4, <1>5 DEF CallNext, Worker

\* Every step keeps what holds of each call: the one it is about, and the others.
LEMMA CommentCalls ==
  ASSUME CommentInv, [CallNext]_(callVars), NEW d \in Calls
  PROVE  (Sent(d) /\ Exclusive(d) /\ Informed(d))'
<1>1. CallTypeOK /\ Sent(d) /\ Exclusive(d) /\ Informed(d)
  BY DEF CommentInv
<1> USE DEF CallTypeOK, Sent, Exclusive, Informed, Position, Positions, Requests,
            Returned
<1>2. ASSUME NEW c \in Calls, Caller(c) PROVE (Sent(d) /\ Exclusive(d) /\ Informed(d))'
  <2>1. CASE Return(c) BY <1>1, <2>1 DEF Return
  <2>2. CASE TimeOut(c) BY <1>1, <2>2 DEF TimeOut
  <2> QED BY <1>2, <2>1, <2>2 DEF Caller
<1>3. ASSUME NEW c \in Calls, Worker(c) PROVE (Sent(d) /\ Exclusive(d) /\ Informed(d))'
  <2>1. CASE Post(c) BY <1>1, <2>1 DEF Post
  <2>2. CASE TryUnplaced(c) BY <1>1, <2>2 DEF TryUnplaced
  <2>3. CASE ReadReply(c) BY <1>1, <2>3 DEF ReadReply
  <2>4. CASE GiveUp(c) BY <1>1, <2>4 DEF GiveUp
  <2> QED BY <1>3, <2>1, <2>2, <2>3, <2>4 DEF Worker
<1>4. ASSUME NEW c \in Calls, GitLab(c) PROVE (Sent(d) /\ Exclusive(d) /\ Informed(d))'
  <2>1. CASE ReceiveFirst(c) BY <1>1, <2>1 DEF ReceiveFirst
  <2>2. CASE ReceiveSecond(c) BY <1>1, <2>2 DEF ReceiveSecond
  <2> QED BY <1>4, <2>1, <2>2 DEF GitLab
<1>5. CASE UNCHANGED callVars
  BY <1>1, <1>5 DEF callVars
<1> QED BY <1>2, <1>3, <1>4, <1>5 DEF CallNext

\* The inductive invariant holds.
LEMMA CommentInvHolds == CallSafe => []CommentInv
<1>1. CommentInv /\ [CallNext]_(callVars) => CommentInv'
  BY CommentTypes, CommentCalls DEF CommentInv
<1> QED BY CommentInit, <1>1, PTL DEF CallSafe

(* No call makes two discussions: the one without a position is asked for  *)
(* only when GitLab has said no to the other.                              *)
THEOREM DiscussionNeverTwice == CallSafe => [](CallTypeOK /\ NeverTwice)
<1>1. CommentInv => CallTypeOK /\ NeverTwice
  BY DEF CommentInv, Exclusive, NeverTwice
<1> QED BY <1>1, CommentInvHolds, PTL

(* However late the worker, its requests or their replies are, a call's    *)
(* comment appears at most once, where the answer says, and never after an *)
(* answer that says so.                                                    *)
THEOREM DiscussionImplementsCommentOnce == CallSafe => ImplementsCommentOnce
<1>1. CallInit => Once!Init
  BY DEF CallInit, Once!Init, OnceThere
<1>2. CommentInv /\ [CallNext]_(callVars) => [Once!Next]_(Once!vars)
  <2> SUFFICES ASSUME CommentInv, [CallNext]_(callVars) PROVE [Once!Next]_(Once!vars)
    OBVIOUS
  <2> DEFINE there == [c \in Calls |-> OnceThere(c)]
  <2>1. ASSUME NEW c \in Calls, Return(c) PROVE [Once!Next]_(Once!vars)
    <3>1. there' = there /\ caller[c] = "waiting" /\ worker[c] \in Returned
      BY <2>1 DEF Return, OnceThere
    <3>2. CASE worker[c] = "error"
      BY <2>1, <3>1, <3>2 DEF Return, Once!Fail, Once!Next
    <3>3. CASE worker[c] # "error"
      <4>1. there[c] # "none" /\ Position(c) = Once!Told(c)
        BY <3>1, <3>3 DEF CommentInv, Exclusive, Informed, OnceThere, Position,
                          Returned,
                          Once!Told
      <4> QED BY <2>1, <3>1, <3>3, <4>1 DEF Return, Once!Succeed, Once!Next
    <3> QED BY <3>2, <3>3
  <2>2. ASSUME NEW c \in Calls, TimeOut(c) PROVE [Once!Next]_(Once!vars)
    <3>1. there' = there
      BY <2>2 DEF TimeOut, OnceThere
    <3> QED BY <2>2, <3>1 DEF TimeOut, Once!Fail, Once!Next
  <2>3. ASSUME NEW c \in Calls, Worker(c) PROVE UNCHANGED Once!vars
    <3>1. there' = there
      BY <2>3 DEF Worker, Post, TryUnplaced, ReadReply, GiveUp,
                  OnceThere, CommentInv, CallTypeOK,
                  Sent, Informed
    <3> QED BY <2>3, <3>1 DEF Worker, Post, TryUnplaced, ReadReply, GiveUp,
                              Once!vars
  <2>4. ASSUME NEW c \in Calls, ReceiveFirst(c) PROVE [Once!Next]_(Once!vars)
    <3>1. there[c] = "none" /\ caller[c] \in {"waiting", "failed"} /\ UNCHANGED caller
      BY <2>4 DEF ReceiveFirst, OnceThere, CommentInv, CallTypeOK, Exclusive, Informed
    <3>2. \/ there' = there
          \/ c \in Positioned /\ there' = [there EXCEPT ![c] = "line"]
          \/ there' = [there EXCEPT ![c] = "request"]
      <4>1. first[c] = "flying" /\ second[c] = "unsent" /\ UNCHANGED second
        BY <2>4 DEF ReceiveFirst, CommentInv, CallTypeOK, Exclusive
      <4>2. CASE first' = [first EXCEPT ![c] = "created"]
        BY <4>1, <4>2 DEF OnceThere, CommentInv, CallTypeOK
      <4>3. CASE first' = [first EXCEPT ![c] = "rejected"]
        BY <4>1, <4>3 DEF OnceThere, CommentInv, CallTypeOK
      <4>4. CASE first' = [first EXCEPT ![c] = "refused"]
        BY <4>1, <4>4 DEF OnceThere, CommentInv, CallTypeOK
      <4> QED BY <2>4, <4>2, <4>3, <4>4 DEF ReceiveFirst
    <3> QED BY <3>1, <3>2 DEF Once!Appear, Once!Next, Once!vars
  <2>5. ASSUME NEW c \in Calls, ReceiveSecond(c) PROVE [Once!Next]_(Once!vars)
    <3>1. there[c] = "none" /\ caller[c] \in {"waiting", "failed"} /\ UNCHANGED caller
      BY <2>5 DEF ReceiveSecond, OnceThere, CommentInv, CallTypeOK, Exclusive, Informed
    <3>2. there' = there \/ there' = [there EXCEPT ![c] = "request"]
      BY <2>5 DEF ReceiveSecond, OnceThere, CommentInv, CallTypeOK, Exclusive
    <3> QED BY <3>1, <3>2 DEF Once!Appear, Once!Next, Once!vars
  <2>6. CASE UNCHANGED callVars
    BY <2>6 DEF callVars, Once!vars, OnceThere
  <2> QED BY <2>1, <2>2, <2>3, <2>4, <2>5, <2>6 DEF CallNext, Caller, GitLab
<1> QED BY <1>1, <1>2, CommentInvHolds, PTL DEF CallSafe, ImplementsCommentOnce,
                                                Once!Spec
=============================================================================
