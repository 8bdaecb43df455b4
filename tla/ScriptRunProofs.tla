--------------------------- MODULE ScriptRunProofs ---------------------------
(***************************************************************************)
(* Theorems about ScriptRun, for every number of findings.  The inductive  *)
(* invariant adds to the types: what the verdict and the rows are at each  *)
(* step (RowsFollow), what the exit code says (ScriptFollows), how the     *)
(* findings divide into recorded, shown, set aside and still to be placed  *)
(* (BooksFollow), what was said last (WordFollows), and that a directory   *)
(* in use is registered, and young if the cleanup has overlooked it        *)
(* (DirFollows).                                                           *)
(***************************************************************************)
EXTENDS ScriptRun, TLAPS

\* No outcome yet, and before anything was read of the result.
Smooth == {"accepted", "registered", "checking", "preparing"} \cup Working
Unread == Smooth \ {"recording", "placing", "combining"}

RowsFollow ==
  /\ at \in Smooth => verdict = "none"
  /\ at \in {"settling", "closing", "over"} => verdict \in Ended
  /\ at = "telling" => verdict = "failed"
  /\ task \in Ended => task = verdict /\ at \in {"closing", "telling", "over", "dead"}
  /\ request \in Ended => request = verdict /\ at \in {"telling", "over", "dead"}
  /\ at \in Smooth \ {"accepted", "registered"} => task = "running"
  /\ at \in Smooth \ {"accepted"} => request = "running"
  /\ ~broken =>
       /\ at = "settling" => task = "running" /\ request = "running"
       /\ at = "closing" => task = verdict /\ request = "running"
       /\ at \in {"telling", "over"} => task = verdict /\ request = verdict

ScriptFollows ==
  /\ at \in {"accepted", "registered", "checking", "preparing"} => status # "passed"
  /\ status = "passed" => proc = "zero"
  /\ at \in {"recording", "placing", "combining"} => status = "passed"

BooksFollow ==
  /\ at \in Unread =>
       stored = 0 /\ records = 0 /\ posted = 0 /\ found = 0 /\ aside = 0 /\ shown = 0
  /\ at = "recording" =>
       stored + left = found /\ records = 0 /\ posted = 0 /\ aside = 0 /\ shown = 0
  /\ at = "placing" =>
       /\ stored = found /\ shown + aside + left = found
       /\ records = shown /\ posted = shown
  /\ at = "combining" =>
       stored = found /\ shown + aside = found /\ records = shown /\ posted = shown
  /\ verdict = "completed" =>
       stored = found /\ shown = found /\ records = posted /\ records >= 1
  /\ request = "completed" => counts = [findings |-> found, comments |-> records]

WordFollows ==
  /\ at # "over" => word # "failure"
  /\ at = "placing" /\ shown > 0 => word = "result"
  /\ verdict = "completed" => word = "result" /\ proc = "zero"
  /\ at = "over" /\ ~lost => (word = "failure" <=> verdict = "failed")

DirFollows ==
  /\ stale => dir # "absent"
  /\ at \in {"accepted", "registered", "checking", "preparing"} => dir = "absent"
  /\ at \in Working => active /\ dir = "present" /\ (pass = "may" => ~stale)

IInv == TypeOK /\ RowsFollow /\ ScriptFollows /\ BooksFollow /\ WordFollows /\ DirFollows
-----------------------------------------------------------------------------
\* The initial state satisfies the inductive invariant.
LEMMA InitIInv == Init => IInv
<1> SUFFICES ASSUME Init PROVE IInv
  OBVIOUS
<1> USE DEF Init, Zero, Steps, Working, Ended, Processes, Results, Statuses
<1>1. TypeOK
  BY DEF TypeOK, ControlOK, ScriptOK, FlagsOK, CountsOK
<1>2. RowsFollow /\ ScriptFollows /\ BooksFollow
  BY DEF RowsFollow, ScriptFollows, BooksFollow, Smooth, Unread
<1>3. WordFollows /\ DirFollows
  BY DEF WordFollows, DirFollows
<1> QED BY <1>1, <1>2, <1>3 DEF IInv

\* Every step keeps the types of the control state.
LEMMA ControlStep == ASSUME ControlOK, [Next]_vars PROVE ControlOK'
<1> USE ScriptRunAssumption
<1> USE DEF ControlOK, Steps, Working, Ended, Go, Fail, Break, Abandon,
            BreakOff, Done, rows, comments, script, reading, disk
<1>1. CASE OpenRequest BY <1>1 DEF OpenRequest
<1>2. CASE OpenTask BY <1>2 DEF OpenTask
<1>3. CASE Check BY <1>3 DEF Check
<1>4. CASE Prepare BY <1>4 DEF Prepare
<1>5. CASE Exited BY <1>5 DEF Exited
<1>6. CASE TimesOut BY <1>6 DEF TimesOut, Terminated
<1>7. CASE TooLarge BY <1>7 DEF TooLarge, Terminated, Oversized
<1>8. CASE Judge BY <1>8 DEF Judge, SourceRemoved, Oversized
<1>9. CASE CheckResult BY <1>9 DEF CheckResult
<1>10. CASE ReadResult BY <1>10 DEF ReadResult
<1>11. CASE RecordFinding BY <1>11 DEF RecordFinding
<1>12. CASE Place BY <1>12 DEF Place, Publish
<1>13. CASE Placed BY <1>13 DEF Placed
<1>14. CASE Combine BY <1>14 DEF Combine, Publish
<1>15. CASE Settle BY <1>15 DEF Settle
<1>16. CASE CloseRequest BY <1>16 DEF CloseRequest
<1>17. CASE Tell BY <1>17 DEF Tell
<1>18. CASE Write BY <1>18 DEF Write, Alive
<1>19. CASE LeaveBehind BY <1>19 DEF LeaveBehind
<1>20. CASE Exit BY <1>20 DEF Exit
<1>21. CASE TakeSnapshot BY <1>21 DEF TakeSnapshot
<1>22. CASE Sweep BY <1>22 DEF Sweep, Removed
<1>23. CASE Age BY <1>23 DEF Age
<1>24. CASE Die BY <1>24 DEF Die
<1>25. CASE RefuseTask BY <1>25 DEF RefuseTask
<1>26. CASE UNCHANGED vars BY <1>26 DEF vars
<1> QED
  BY <1>1, <1>2, <1>3, <1>4, <1>5, <1>6, <1>7, <1>8, <1>9, <1>10, <1>11,
     <1>12, <1>13, <1>14, <1>15, <1>16, <1>17, <1>18, <1>19, <1>20, <1>21,
     <1>22, <1>23, <1>24, <1>25, <1>26 DEF Next, Runner, Script, Cleanup

\* Every step keeps the types of what concerns the script and its result.
LEMMA ScriptStep == ASSUME ControlOK, ScriptOK, [Next]_vars PROVE ScriptOK'
<1> USE ScriptRunAssumption
<1> USE DEF ControlOK, ScriptOK, Processes, Results, Statuses, Go, Fail, Break,
            Abandon, BreakOff, Done, rows, comments, script, reading, disk
<1>1. CASE OpenRequest BY <1>1 DEF OpenRequest
<1>2. CASE OpenTask BY <1>2 DEF OpenTask
<1>3. CASE Check BY <1>3 DEF Check
<1>4. CASE Prepare BY <1>4 DEF Prepare
<1>5. CASE Exited BY <1>5 DEF Exited
<1>6. CASE TimesOut BY <1>6 DEF TimesOut, Terminated
<1>7. CASE TooLarge BY <1>7 DEF TooLarge, Terminated, Oversized
<1>8. CASE Judge BY <1>8 DEF Judge, SourceRemoved, Oversized
<1>9. CASE CheckResult BY <1>9 DEF CheckResult
<1>10. CASE ReadResult BY <1>10 DEF ReadResult
<1>11. CASE RecordFinding BY <1>11 DEF RecordFinding
<1>12. CASE Place BY <1>12 DEF Place, Publish
<1>13. CASE Placed BY <1>13 DEF Placed
<1>14. CASE Combine BY <1>14 DEF Combine, Publish
<1>15. CASE Settle BY <1>15 DEF Settle
<1>16. CASE CloseRequest BY <1>16 DEF CloseRequest
<1>17. CASE Tell BY <1>17 DEF Tell
<1>18. CASE Write BY <1>18 DEF Write, Alive
<1>19. CASE LeaveBehind BY <1>19 DEF LeaveBehind
<1>20. CASE Exit BY <1>20 DEF Exit
<1>21. CASE TakeSnapshot BY <1>21 DEF TakeSnapshot
<1>22. CASE Sweep BY <1>22 DEF Sweep, Removed
<1>23. CASE Age BY <1>23 DEF Age
<1>24. CASE Die BY <1>24 DEF Die
<1>25. CASE RefuseTask BY <1>25 DEF RefuseTask
<1>26. CASE UNCHANGED vars BY <1>26 DEF vars
<1> QED
  BY <1>1, <1>2, <1>3, <1>4, <1>5, <1>6, <1>7, <1>8, <1>9, <1>10, <1>11,
     <1>12, <1>13, <1>14, <1>15, <1>16, <1>17, <1>18, <1>19, <1>20, <1>21,
     <1>22, <1>23, <1>24, <1>25, <1>26 DEF Next, Runner, Script, Cleanup

\* Every step keeps the types of the flags.
LEMMA FlagsStep == ASSUME FlagsOK, [Next]_vars PROVE FlagsOK'
<1> USE ScriptRunAssumption
<1> USE DEF FlagsOK, Go, Fail, Break, Abandon, BreakOff, Done, rows, comments,
            script, reading, disk
<1>1. CASE OpenRequest BY <1>1 DEF OpenRequest
<1>2. CASE OpenTask BY <1>2 DEF OpenTask
<1>3. CASE Check BY <1>3 DEF Check
<1>4. CASE Prepare BY <1>4 DEF Prepare
<1>5. CASE Exited BY <1>5 DEF Exited
<1>6. CASE TimesOut BY <1>6 DEF TimesOut, Terminated
<1>7. CASE TooLarge BY <1>7 DEF TooLarge, Terminated, Oversized
<1>8. CASE Judge BY <1>8 DEF Judge, SourceRemoved, Oversized
<1>9. CASE CheckResult BY <1>9 DEF CheckResult
<1>10. CASE ReadResult BY <1>10 DEF ReadResult
<1>11. CASE RecordFinding BY <1>11 DEF RecordFinding
<1>12. CASE Place BY <1>12 DEF Place, Publish
<1>13. CASE Placed BY <1>13 DEF Placed
<1>14. CASE Combine BY <1>14 DEF Combine, Publish
<1>15. CASE Settle BY <1>15 DEF Settle
<1>16. CASE CloseRequest BY <1>16 DEF CloseRequest
<1>17. CASE Tell BY <1>17 DEF Tell
<1>18. CASE Write BY <1>18 DEF Write, Alive
<1>19. CASE LeaveBehind BY <1>19 DEF LeaveBehind
<1>20. CASE Exit BY <1>20 DEF Exit
<1>21. CASE TakeSnapshot BY <1>21 DEF TakeSnapshot
<1>22. CASE Sweep BY <1>22 DEF Sweep, Removed
<1>23. CASE Age BY <1>23 DEF Age
<1>24. CASE Die BY <1>24 DEF Die
<1>25. CASE RefuseTask BY <1>25 DEF RefuseTask
<1>26. CASE UNCHANGED vars BY <1>26 DEF vars
<1> QED
  BY <1>1, <1>2, <1>3, <1>4, <1>5, <1>6, <1>7, <1>8, <1>9, <1>10, <1>11,
     <1>12, <1>13, <1>14, <1>15, <1>16, <1>17, <1>18, <1>19, <1>20, <1>21,
     <1>22, <1>23, <1>24, <1>25, <1>26 DEF Next, Runner, Script, Cleanup

\* Every step keeps the counts natural numbers.
LEMMA CountsStep == ASSUME CountsOK, [Next]_vars PROVE CountsOK'
<1> USE ScriptRunAssumption
<1> USE DEF CountsOK, Zero, Go, Fail, Break, Abandon, BreakOff, Done, rows,
            comments, script, reading, disk
<1>1. CASE OpenRequest BY <1>1 DEF OpenRequest
<1>2. CASE OpenTask BY <1>2 DEF OpenTask
<1>3. CASE Check BY <1>3 DEF Check
<1>4. CASE Prepare BY <1>4 DEF Prepare
<1>5. CASE Exited BY <1>5 DEF Exited
<1>6. CASE TimesOut BY <1>6 DEF TimesOut, Terminated
<1>7. CASE TooLarge BY <1>7 DEF TooLarge, Terminated, Oversized
<1>8. CASE Judge BY <1>8 DEF Judge, SourceRemoved, Oversized
<1>9. CASE CheckResult BY <1>9 DEF CheckResult
<1>10. CASE ReadResult BY <1>10 DEF ReadResult
<1>11. CASE RecordFinding BY <1>11 DEF RecordFinding
<1>12. CASE Place BY <1>12 DEF Place, Publish
<1>13. CASE Placed BY <1>13 DEF Placed
<1>14. CASE Combine BY <1>14 DEF Combine, Publish
<1>15. CASE Settle BY <1>15 DEF Settle
<1>16. CASE CloseRequest BY <1>16 DEF CloseRequest
<1>17. CASE Tell BY <1>17 DEF Tell
<1>18. CASE Write BY <1>18 DEF Write, Alive
<1>19. CASE LeaveBehind BY <1>19 DEF LeaveBehind
<1>20. CASE Exit BY <1>20 DEF Exit
<1>21. CASE TakeSnapshot BY <1>21 DEF TakeSnapshot
<1>22. CASE Sweep BY <1>22 DEF Sweep, Removed
<1>23. CASE Age BY <1>23 DEF Age
<1>24. CASE Die BY <1>24 DEF Die
<1>25. CASE RefuseTask BY <1>25 DEF RefuseTask
<1>26. CASE UNCHANGED vars BY <1>26 DEF vars
<1> QED
  BY <1>1, <1>2, <1>3, <1>4, <1>5, <1>6, <1>7, <1>8, <1>9, <1>10, <1>11,
     <1>12, <1>13, <1>14, <1>15, <1>16, <1>17, <1>18, <1>19, <1>20, <1>21,
     <1>22, <1>23, <1>24, <1>25, <1>26 DEF Next, Runner, Script, Cleanup

\* Both rows are ended by the verdict, which is found once.
LEMMA RowsStep == ASSUME ControlOK, RowsFollow, [Next]_vars PROVE RowsFollow'
<1> USE ScriptRunAssumption
<1> USE DEF ControlOK, RowsFollow, Smooth, Working, Ended, Go, Fail, Break,
            Abandon, BreakOff, Done, rows, comments, script, reading, disk
<1>1. CASE OpenRequest BY <1>1 DEF OpenRequest
<1>2. CASE OpenTask BY <1>2 DEF OpenTask
<1>3. CASE Check BY <1>3 DEF Check
<1>4. CASE Prepare BY <1>4 DEF Prepare
<1>5. CASE Exited BY <1>5 DEF Exited
<1>6. CASE TimesOut BY <1>6 DEF TimesOut, Terminated
<1>7. CASE TooLarge BY <1>7 DEF TooLarge, Terminated, Oversized
<1>8. CASE Judge BY <1>8 DEF Judge, SourceRemoved, Oversized
<1>9. CASE CheckResult BY <1>9 DEF CheckResult
<1>10. CASE ReadResult BY <1>10 DEF ReadResult
<1>11. CASE RecordFinding BY <1>11 DEF RecordFinding
<1>12. CASE Place BY <1>12 DEF Place, Publish
<1>13. CASE Placed BY <1>13 DEF Placed
<1>14. CASE Combine BY <1>14 DEF Combine, Publish
<1>15. CASE Settle BY <1>15 DEF Settle
<1>16. CASE CloseRequest BY <1>16 DEF CloseRequest
<1>17. CASE Tell BY <1>17 DEF Tell
<1>18. CASE Write BY <1>18 DEF Write, Alive
<1>19. CASE LeaveBehind BY <1>19 DEF LeaveBehind
<1>20. CASE Exit BY <1>20 DEF Exit
<1>21. CASE TakeSnapshot BY <1>21 DEF TakeSnapshot
<1>22. CASE Sweep BY <1>22 DEF Sweep, Removed
<1>23. CASE Age BY <1>23 DEF Age
<1>24. CASE Die BY <1>24 DEF Die
<1>25. CASE RefuseTask BY <1>25 DEF RefuseTask
<1>26. CASE UNCHANGED vars BY <1>26 DEF vars
<1> QED
  BY <1>1, <1>2, <1>3, <1>4, <1>5, <1>6, <1>7, <1>8, <1>9, <1>10, <1>11,
     <1>12, <1>13, <1>14, <1>15, <1>16, <1>17, <1>18, <1>19, <1>20, <1>21,
     <1>22, <1>23, <1>24, <1>25, <1>26 DEF Next, Runner, Script, Cleanup

\* What is published is the result of a script that ended with zero.
LEMMA ScriptFollowsStep ==
  ASSUME ControlOK, ScriptOK, ScriptFollows, [Next]_vars
  PROVE ScriptFollows'
<1> USE ScriptRunAssumption
<1> USE DEF ControlOK, ScriptOK, ScriptFollows, Processes, Working, Go, Fail,
            Break, Abandon, BreakOff, Done, rows, comments, script, reading,
            disk
<1>1. CASE OpenRequest BY <1>1 DEF OpenRequest
<1>2. CASE OpenTask BY <1>2 DEF OpenTask
<1>3. CASE Check BY <1>3 DEF Check
<1>4. CASE Prepare BY <1>4 DEF Prepare
<1>5. CASE Exited BY <1>5 DEF Exited
<1>6. CASE TimesOut BY <1>6 DEF TimesOut, Terminated
<1>7. CASE TooLarge BY <1>7 DEF TooLarge, Terminated, Oversized
<1>8. CASE Judge BY <1>8 DEF Judge, SourceRemoved, Oversized
<1>9. CASE CheckResult BY <1>9 DEF CheckResult
<1>10. CASE ReadResult BY <1>10 DEF ReadResult
<1>11. CASE RecordFinding BY <1>11 DEF RecordFinding
<1>12. CASE Place BY <1>12 DEF Place, Publish
<1>13. CASE Placed BY <1>13 DEF Placed
<1>14. CASE Combine BY <1>14 DEF Combine, Publish
<1>15. CASE Settle BY <1>15 DEF Settle
<1>16. CASE CloseRequest BY <1>16 DEF CloseRequest
<1>17. CASE Tell BY <1>17 DEF Tell
<1>18. CASE Write BY <1>18 DEF Write, Alive
<1>19. CASE LeaveBehind BY <1>19 DEF LeaveBehind
<1>20. CASE Exit BY <1>20 DEF Exit
<1>21. CASE TakeSnapshot BY <1>21 DEF TakeSnapshot
<1>22. CASE Sweep BY <1>22 DEF Sweep, Removed
<1>23. CASE Age BY <1>23 DEF Age
<1>24. CASE Die BY <1>24 DEF Die
<1>25. CASE RefuseTask BY <1>25 DEF RefuseTask
<1>26. CASE UNCHANGED vars BY <1>26 DEF vars
<1> QED
  BY <1>1, <1>2, <1>3, <1>4, <1>5, <1>6, <1>7, <1>8, <1>9, <1>10, <1>11,
     <1>12, <1>13, <1>14, <1>15, <1>16, <1>17, <1>18, <1>19, <1>20, <1>21,
     <1>22, <1>23, <1>24, <1>25, <1>26 DEF Next, Runner, Script, Cleanup

\* No finding is lost on its way from the result to its row and its comment.
LEMMA BooksStep ==
  ASSUME ControlOK, CountsOK, RowsFollow, BooksFollow, [Next]_vars
  PROVE BooksFollow'
<1> USE ScriptRunAssumption
<1> USE DEF ControlOK, CountsOK, RowsFollow, BooksFollow, Smooth, Unread,
            Working, Ended, Go, Fail, Break, Abandon, BreakOff, Done, rows,
            comments, script, reading, disk
<1>1. CASE OpenRequest BY <1>1 DEF OpenRequest
<1>2. CASE OpenTask BY <1>2 DEF OpenTask
<1>3. CASE Check BY <1>3 DEF Check
<1>4. CASE Prepare BY <1>4 DEF Prepare
<1>5. CASE Exited BY <1>5 DEF Exited
<1>6. CASE TimesOut BY <1>6 DEF TimesOut, Terminated
<1>7. CASE TooLarge BY <1>7 DEF TooLarge, Terminated, Oversized
<1>8. CASE Judge BY <1>8 DEF Judge, SourceRemoved, Oversized
<1>9. CASE CheckResult BY <1>9 DEF CheckResult
<1>10. CASE ReadResult BY <1>10 DEF ReadResult
<1>11. CASE RecordFinding BY <1>11 DEF RecordFinding
<1>12. CASE Place BY <1>12 DEF Place, Publish
<1>13. CASE Placed BY <1>13 DEF Placed
<1>14. CASE Combine BY <1>14 DEF Combine, Publish
<1>15. CASE Settle BY <1>15 DEF Settle
<1>16. CASE CloseRequest BY <1>16 DEF CloseRequest
<1>17. CASE Tell BY <1>17 DEF Tell
<1>18. CASE Write BY <1>18 DEF Write, Alive
<1>19. CASE LeaveBehind BY <1>19 DEF LeaveBehind
<1>20. CASE Exit BY <1>20 DEF Exit
<1>21. CASE TakeSnapshot BY <1>21 DEF TakeSnapshot
<1>22. CASE Sweep BY <1>22 DEF Sweep, Removed
<1>23. CASE Age BY <1>23 DEF Age
<1>24. CASE Die BY <1>24 DEF Die
<1>25. CASE RefuseTask BY <1>25 DEF RefuseTask
<1>26. CASE UNCHANGED vars BY <1>26 DEF vars
<1> QED
  BY <1>1, <1>2, <1>3, <1>4, <1>5, <1>6, <1>7, <1>8, <1>9, <1>10, <1>11,
     <1>12, <1>13, <1>14, <1>15, <1>16, <1>17, <1>18, <1>19, <1>20, <1>21,
     <1>22, <1>23, <1>24, <1>25, <1>26 DEF Next, Runner, Script, Cleanup

\* The last word follows the verdict.
LEMMA WordStep ==
  ASSUME ControlOK, ScriptOK, CountsOK, RowsFollow, ScriptFollows, BooksFollow,
         WordFollows, [Next]_vars
  PROVE WordFollows'
<1> USE ScriptRunAssumption
<1> USE DEF ControlOK, ScriptOK, CountsOK, RowsFollow, ScriptFollows,
            BooksFollow, WordFollows, Smooth, Unread, Working, Ended, Processes,
            Go, Fail, Break, Abandon, BreakOff, Done, rows, comments, script,
            reading, disk
<1>1. CASE OpenRequest BY <1>1 DEF OpenRequest
<1>2. CASE OpenTask BY <1>2 DEF OpenTask
<1>3. CASE Check BY <1>3 DEF Check
<1>4. CASE Prepare BY <1>4 DEF Prepare
<1>5. CASE Exited BY <1>5 DEF Exited
<1>6. CASE TimesOut BY <1>6 DEF TimesOut, Terminated
<1>7. CASE TooLarge BY <1>7 DEF TooLarge, Terminated, Oversized
<1>8. CASE Judge BY <1>8 DEF Judge, SourceRemoved, Oversized
<1>9. CASE CheckResult BY <1>9 DEF CheckResult
<1>10. CASE ReadResult BY <1>10 DEF ReadResult
<1>11. CASE RecordFinding BY <1>11 DEF RecordFinding
<1>12. CASE Place BY <1>12 DEF Place, Publish
<1>13. CASE Placed BY <1>13 DEF Placed
<1>14. CASE Combine BY <1>14 DEF Combine, Publish
<1>15. CASE Settle BY <1>15 DEF Settle
<1>16. CASE CloseRequest BY <1>16 DEF CloseRequest
<1>17. CASE Tell BY <1>17 DEF Tell
<1>18. CASE Write BY <1>18 DEF Write, Alive
<1>19. CASE LeaveBehind BY <1>19 DEF LeaveBehind
<1>20. CASE Exit BY <1>20 DEF Exit
<1>21. CASE TakeSnapshot BY <1>21 DEF TakeSnapshot
<1>22. CASE Sweep BY <1>22 DEF Sweep, Removed
<1>23. CASE Age BY <1>23 DEF Age
<1>24. CASE Die BY <1>24 DEF Die
<1>25. CASE RefuseTask BY <1>25 DEF RefuseTask
<1>26. CASE UNCHANGED vars BY <1>26 DEF vars
<1> QED
  BY <1>1, <1>2, <1>3, <1>4, <1>5, <1>6, <1>7, <1>8, <1>9, <1>10, <1>11,
     <1>12, <1>13, <1>14, <1>15, <1>16, <1>17, <1>18, <1>19, <1>20, <1>21,
     <1>22, <1>23, <1>24, <1>25, <1>26 DEF Next, Runner, Script, Cleanup

\* The directory in use is registered, and no snapshot from before threatens it.
LEMMA DirStep == ASSUME ControlOK, DirFollows, [Next]_vars PROVE DirFollows'
<1> USE ScriptRunAssumption
<1> USE DEF ControlOK, DirFollows, Working, Go, Fail, Break, Abandon, BreakOff,
            Done, rows, comments, script, reading, disk
<1>1. CASE OpenRequest BY <1>1 DEF OpenRequest
<1>2. CASE OpenTask BY <1>2 DEF OpenTask
<1>3. CASE Check BY <1>3 DEF Check
<1>4. CASE Prepare BY <1>4 DEF Prepare
<1>5. CASE Exited BY <1>5 DEF Exited
<1>6. CASE TimesOut BY <1>6 DEF TimesOut, Terminated
<1>7. CASE TooLarge BY <1>7 DEF TooLarge, Terminated, Oversized
<1>8. CASE Judge
  <2>1. active /\ dir = "present" /\ (pass = "may" => ~stale)
    BY <1>8 DEF Judge, SourceRemoved, Oversized
  <2>2. UNCHANGED <<dir, pass>>
    BY <1>8 DEF Judge, SourceRemoved, Oversized
  <2>3. stale' => stale
    BY <1>8 DEF Judge, SourceRemoved, Oversized
  <2>4. \/ at' = "checking_result" /\ UNCHANGED active
        \/ at' = "settling"
    BY <1>8 DEF Judge, SourceRemoved, Oversized
  <2> QED BY <2>1, <2>2, <2>3, <2>4
<1>9. CASE CheckResult BY <1>9 DEF CheckResult
<1>10. CASE ReadResult BY <1>10 DEF ReadResult
<1>11. CASE RecordFinding BY <1>11 DEF RecordFinding
<1>12. CASE Place
  <2>1. active /\ dir = "present" /\ at = "placing" /\ UNCHANGED <<dir, stale, pass>>
    BY <1>12 DEF Place
  <2>2. CASE at' = "settling"
    BY <2>1, <2>2
  <2>3. CASE at' = "placing" /\ UNCHANGED active
    BY <2>1, <2>3
  <2> QED BY <1>12, <2>2, <2>3 DEF Place, Publish
<1>13. CASE Placed BY <1>13 DEF Placed
<1>14. CASE Combine BY <1>14 DEF Combine, Publish
<1>15. CASE Settle BY <1>15 DEF Settle
<1>16. CASE CloseRequest BY <1>16 DEF CloseRequest
<1>17. CASE Tell BY <1>17 DEF Tell
<1>18. CASE Write BY <1>18 DEF Write, Alive
<1>19. CASE LeaveBehind BY <1>19 DEF LeaveBehind
<1>20. CASE Exit BY <1>20 DEF Exit
<1>21. CASE TakeSnapshot BY <1>21 DEF TakeSnapshot
<1>22. CASE Sweep BY <1>22 DEF Sweep, Removed
<1>23. CASE Age BY <1>23 DEF Age
<1>24. CASE Die BY <1>24 DEF Die
<1>25. CASE RefuseTask BY <1>25 DEF RefuseTask
<1>26. CASE UNCHANGED vars BY <1>26 DEF vars
<1> QED
  BY <1>1, <1>2, <1>3, <1>4, <1>5, <1>6, <1>7, <1>8, <1>9, <1>10, <1>11,
     <1>12, <1>13, <1>14, <1>15, <1>16, <1>17, <1>18, <1>19, <1>20, <1>21,
     <1>22, <1>23, <1>24, <1>25, <1>26 DEF Next, Runner, Script, Cleanup
-----------------------------------------------------------------------------
\* The inductive invariant holds.
LEMMA Inductive == Safe => []IInv
<1>1. Init => IInv
  BY InitIInv
<1>2. IInv /\ [Next]_vars => IInv'
  <2> SUFFICES ASSUME IInv, [Next]_vars PROVE IInv'
    OBVIOUS
  <2>1. /\ ControlOK /\ ScriptOK /\ FlagsOK /\ CountsOK /\ RowsFollow
        /\ ScriptFollows /\ BooksFollow /\ WordFollows /\ DirFollows
    BY DEF IInv, TypeOK
  <2>2. ControlOK' BY <2>1, ControlStep
  <2>3. ScriptOK' BY <2>1, ScriptStep
  <2>4. CountsOK' BY <2>1, CountsStep
  <2>5. RowsFollow' BY <2>1, RowsStep
  <2>6. ScriptFollows' BY <2>1, ScriptFollowsStep
  <2>7. BooksFollow' BY <2>1, BooksStep
  <2>8. WordFollows' BY <2>1, WordStep
  <2>9. DirFollows' BY <2>1, DirStep
  <2>10. FlagsOK' BY <2>1, FlagsStep
  <2> QED BY <2>2, <2>3, <2>4, <2>5, <2>6, <2>7, <2>8, <2>9, <2>10 DEF IInv, TypeOK
<1> QED BY <1>1, <1>2, PTL DEF Safe

(* However many updates of the rows fail, the two never end differently,   *)
(* and when none failed both have ended once the task is over.             *)
THEOREM ScriptRowsAgree == Safe => [](TypeOK /\ RowsAgree)
<1>1. IInv => TypeOK /\ RowsAgree
  <2> SUFFICES ASSUME IInv PROVE RowsAgree
    BY DEF IInv
  <2>1. {request, task} \subseteq Ended => request = task
    BY DEF IInv, RowsFollow
  <2>2. at = "over" /\ ~broken => {request, task} \subseteq Ended
    BY DEF IInv, RowsFollow
  <2> QED BY <2>1, <2>2 DEF RowsAgree
<1> QED BY <1>1, Inductive, PTL

(* A request said to be completed counts what is on record and on GitLab.  *)
THEOREM ScriptResultIsWhole == Safe => []CompletedTellsAll
<1>1. IInv => CompletedTellsAll
  BY DEF IInv, RowsFollow, BooksFollow, CompletedTellsAll, Ended
<1> QED BY <1>1, Inductive, PTL

(* Of a request said to be completed every finding was shown, once.        *)
THEOREM ScriptFindingsShown == Safe => []FindingsShown
<1>1. IInv => FindingsShown
  BY DEF IInv, RowsFollow, BooksFollow, FindingsShown, Ended
<1> QED BY <1>1, Inductive, PTL

(* The requester's last word is the outcome of the run.                    *)
THEOREM ScriptTruthful == Safe => []Truthful
<1>1. IInv => Truthful
  BY DEF IInv, WordFollows, Truthful
<1> QED BY <1>1, Inductive, PTL

(* The cleanup never removes a directory in use, whenever it looked and    *)
(* however long the script runs.                                           *)
THEOREM ScriptDirKept == Safe => []DirKept
<1>1. IInv => DirKept
  BY DEF IInv, DirFollows, DirKept
<1> QED BY <1>1, Inductive, PTL
=============================================================================
