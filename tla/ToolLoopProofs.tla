--------------------------- MODULE ToolLoopProofs ---------------------------
(***************************************************************************)
(* Theorems about ToolLoop, for any limits, any set of lookups and any     *)
(* answers.  The inductive invariant adds to the types: when a request     *)
(* offers the tools (Offers), that tools which are open have budget left   *)
(* (Open), how a round that is being served stands against the budgets     *)
(* (Serving), where the follow-up requests come from (Requests), and what  *)
(* the conversation holds at each combination of recoveries (Chat).        *)
(***************************************************************************)
EXTENDS ToolLoop, FiniteSetTheorems, TLAPS

Offers == offered <=> mode = "tools" /\ source /\ ~finalizing

Open ==
  step \in {"first", "reading", "sending"} /\ ~finalizing =>
    /\ CallsLeft /\ RoundsLeft /\ (limit.bytes # 0 => bytes < limit.bytes)
    /\ rounds <= calls /\ ~noticed

Serving ==
  /\ rounds <= calls + 1
  /\ limit.calls # 0 => rounds <= limit.calls
  /\ noticed => ~CallsLeft
  /\ step = "tools" =>
       /\ ~finalizing /\ source /\ mode = "tools"
       /\ rounds <= calls \/ pending > 0 \/ repeated \/ refused \/ ~CallsLeft

Requests ==
  /\ followUps + One(step = "tools")
       = rounds + One(diffOnly) + One(malformed) + One(unavailable)
  /\ ~source => rounds = 0
  /\ source => ~unavailable
  /\ verdict # "exhausted"

Chat ==
  /\ EvidenceCarried /\ InstructionsStand
  /\ diffOnly \/ malformed => finalizing
  /\ step = "first" => ~finalizing /\ rounds = 0
  /\ mode = "json" => ~diffOnly /\ rounds = 0

Cache == IsFiniteSet(cache) /\ EachLookupOnce

IInv == TypeOK /\ BudgetsKept /\ Offers /\ Open /\ Serving /\ Requests /\ Chat /\ Cache
-----------------------------------------------------------------------------
\* What the limits of a conversation are.
LEMMA LimitType ==
  ControlOK => /\ limit.calls \in Nat /\ limit.rounds \in Nat
               /\ limit.bytes \in Nat /\ limit.each \in Nat
BY ToolLoopAssumption DEF ControlOK

\* The attempts at a request.
LEMMA Tries ==
  1 \in 1..Attempts /\ \A n \in 1..Attempts : n < Attempts => n + 1 \in 1..Attempts
BY ToolLoopAssumption

\* A result that fits is not longer than what is left of all.
LEMMA ResultFits ==
  ASSUME ControlOK, CountsOK, BytesFit, NEW n \in 1..ResultLimit
  PROVE  n \in Nat /\ (limit.bytes # 0 => bytes + n <= limit.bytes)
BY LimitType, ToolLoopAssumption DEF CountsOK, BytesFit, ResultLimit

\* The initial state satisfies the inductive invariant.
LEMMA InitIInv == Init => IInv
<1> SUFFICES ASSUME Init PROVE IInv
  OBVIOUS
<1> USE ToolLoopAssumption DEF Init
<1>1. ControlOK
  <2>1. limit \in Limits /\ source \in BOOLEAN /\ offered \in BOOLEAN
    BY Zenon
  <2>2. mode \in {"tools", "json"} /\ step \in Steps /\ verdict \in Verdicts
    BY DEF Steps, Verdicts
  <2> QED BY <2>1, <2>2, Tries DEF ControlOK
<1>2. CountsOK
  <2>1. pending \in 0..MaxAsked /\ cache \subseteq Lookups
    OBVIOUS
  <2> QED BY <2>1 DEF CountsOK
<1>3. BudgetsKept /\ Offers /\ Open /\ Serving
  BY <1>1, LimitType
  DEF BudgetsKept, Offers, Open, Serving, CallsLeft, RoundsLeft
<1>4. Requests /\ Chat
  BY DEF Requests, Chat, EvidenceCarried, InstructionsStand, One
<1>5. Cache
  BY FS_EmptySet DEF Cache, EachLookupOnce
<1> QED BY <1>1, <1>2, <1>3, <1>4, <1>5 DEF IInv, TypeOK

\* Every step keeps the types of the control state.
LEMMA ControlStep ==
  ASSUME ControlOK, [Next]_vars PROVE ControlOK'
<1> USE Tries
<1> USE DEF ControlOK, Steps, Verdicts, Instructions, config, request, budget,
            round, recovery, chat
<1>1. CASE FirstAnswered BY <1>1 DEF FirstAnswered
<1>2. CASE FirstRetried BY <1>2 DEF FirstRetried
<1>3. CASE ToolsRejected BY <1>3 DEF ToolsRejected
<1>4. CASE Unreadable BY <1>4 DEF Unreadable, End
<1>5. CASE Submitted BY <1>5 DEF Submitted, End
<1>6. CASE Malformed BY <1>6 DEF Malformed, Send
<1>7. CASE AskedAfterClose BY <1>7 DEF AskedAfterClose, Send, End
<1>8. CASE AskedWithoutSource BY <1>8 DEF AskedWithoutSource, Send, End
<1>9. CASE Asked BY <1>9 DEF Asked, End
<1>10. CASE Repeated BY <1>10 DEF Repeated, Take
<1>11. CASE RoundServed
  <2>1. finalizing' \in BOOLEAN /\ offered' \in BOOLEAN
    BY <1>11, Zenon DEF RoundServed, Send, Spent
  <2> QED BY <2>1, <1>11 DEF RoundServed, Send
<1>12. ASSUME NEW k \in Lookups, LookedUp(k) PROVE ControlOK'
  BY <1>12 DEF LookedUp, Take
<1>13. ASSUME NEW k \in Lookups, Refused(k) PROVE ControlOK'
  BY <1>13 DEF Refused, Take
<1>14. CASE Answered BY <1>14 DEF Answered
<1>15. CASE Retried BY <1>15 DEF Retried
<1>16. CASE TimedOut
  <2>1. TimeoutInstruction \in Instructions
    BY DEF TimeoutInstruction
  <2> QED BY <2>1, <1>16, ZenonT(40) DEF TimedOut, Compacted
<1>17. CASE GaveUp BY <1>17 DEF GaveUp, End
<1>18. CASE DeadlineStrikes BY <1>18 DEF DeadlineStrikes, End
<1>19. CASE UNCHANGED vars BY <1>19 DEF vars
<1> QED
  BY <1>1, <1>2, <1>3, <1>4, <1>5, <1>6, <1>7, <1>8, <1>9, <1>10, <1>11, <1>12,
     <1>13, <1>14, <1>15, <1>16, <1>17, <1>18, <1>19 DEF Next

\* Every step keeps the counts natural numbers, the calls in hand bounded.
LEMMA CountsStep ==
  ASSUME ControlOK, CountsOK, [Next]_vars PROVE CountsOK'
<1> USE ToolLoopAssumption
<1> USE DEF CountsOK, config, request, budget, round, recovery, chat
<1>1. CASE FirstAnswered BY <1>1 DEF FirstAnswered
<1>2. CASE FirstRetried BY <1>2 DEF FirstRetried
<1>3. CASE ToolsRejected BY <1>3 DEF ToolsRejected
<1>4. CASE Unreadable BY <1>4 DEF Unreadable, End
<1>5. CASE Submitted BY <1>5 DEF Submitted, End
<1>6. CASE Malformed BY <1>6 DEF Malformed, Send
<1>7. CASE AskedAfterClose
  <2>1. /\ UNCHANGED <<config, budget, round, mode>>
        /\ \/ End(IF malformed THEN "unreadable" ELSE "error")
              /\ UNCHANGED <<request, recovery, chat>>
           \/ /\ Send(TRUE) /\ ~malformed /\ ~diffOnly /\ diffOnly'
              /\ evidence' = "none" /\ told' = {"diff_only"}
              /\ UNCHANGED <<malformed, unavailable>>
        /\ step = "reading" /\ mode = "tools" /\ finalizing
    BY <1>7 DEF AskedAfterClose, Send
  <2>2. CASE Send(TRUE)
    BY <2>1, <2>2 DEF Send, End
  <2>3. CASE UNCHANGED <<request, recovery, chat>> /\ step' = "over"
                /\ verdict' \in {"unreadable", "error"}
    BY <2>1, <2>3
  <2> QED BY <2>1, <2>2, <2>3 DEF End
<1>8. CASE AskedWithoutSource BY <1>8 DEF AskedWithoutSource, Send, End
<1>9. CASE Asked
  <2>1. /\ step = "reading" /\ mode = "tools" /\ ~finalizing /\ source
        /\ rounds' = rounds + 1
        /\ UNCHANGED <<config, request, calls, bytes, cache, recovery, told, noticed>>
    BY <1>9 DEF Asked
  <2>2. CASE step' = "over" /\ UNCHANGED <<round, evidence>> /\ ~CallsLeft /\ noticed
    BY <2>1, <2>2
  <2>3. CASE /\ step' = "tools" /\ pending' \in 1..MaxAsked
             /\ ~refused' /\ ~repeated' /\ evidence' = "results"
    <3>1. refused' \in BOOLEAN /\ repeated' \in BOOLEAN
      BY <1>9, <2>3 DEF Asked
    <3> QED BY <2>1, <2>3, <3>1
  <2> QED BY <1>9, <2>2, <2>3 DEF Asked, End
<1>10. CASE Repeated BY <1>10 DEF Repeated, Take
<1>11. CASE RoundServed BY <1>11 DEF RoundServed, Send
<1>12. ASSUME NEW k \in Lookups, LookedUp(k) PROVE CountsOK'
  <2>1. PICK n \in 1..ResultLimit : bytes' = bytes + n
    BY <1>12 DEF LookedUp
  <2>2. n \in Nat
    BY <2>1, <1>12, ResultFits DEF LookedUp
  <2> QED BY <2>1, <2>2, <1>12 DEF LookedUp, Take
<1>13. ASSUME NEW k \in Lookups, Refused(k) PROVE CountsOK'
  <2>1. pending' \in 0..MaxAsked /\ UNCHANGED <<budget, followUps, repeated>>
    BY <1>13 DEF Refused, Take
  <2>2. noticed' \in BOOLEAN /\ refused' \in BOOLEAN
    BY <1>13 DEF Refused
  <2> QED BY <2>1, <2>2
<1>14. CASE Answered BY <1>14 DEF Answered
<1>15. CASE Retried BY <1>15 DEF Retried
<1>16. CASE TimedOut BY <1>16 DEF TimedOut, TimeoutInstruction, Compacted
<1>17. CASE GaveUp BY <1>17 DEF GaveUp, End
<1>18. CASE DeadlineStrikes BY <1>18 DEF DeadlineStrikes, End
<1>19. CASE UNCHANGED vars BY <1>19 DEF vars
<1> QED
  BY <1>1, <1>2, <1>3, <1>4, <1>5, <1>6, <1>7, <1>8, <1>9, <1>10, <1>11, <1>12,
     <1>13, <1>14, <1>15, <1>16, <1>17, <1>18, <1>19 DEF Next

\* Every step keeps the budgets: a round starts, and a call is made, only with
\* something left.
LEMMA BudgetsStep ==
  ASSUME ControlOK, CountsOK, BudgetsKept, Open, [Next]_vars PROVE BudgetsKept'
<1> USE ToolLoopAssumption, LimitType
<1> USE DEF CountsOK, BudgetsKept, Open, CallsLeft, RoundsLeft, config,
            request, budget, round, recovery, chat
<1>1. CASE FirstAnswered BY <1>1 DEF FirstAnswered
<1>2. CASE FirstRetried BY <1>2 DEF FirstRetried
<1>3. CASE ToolsRejected BY <1>3 DEF ToolsRejected
<1>4. CASE Unreadable BY <1>4 DEF Unreadable, End
<1>5. CASE Submitted BY <1>5 DEF Submitted, End
<1>6. CASE Malformed BY <1>6 DEF Malformed, Send
<1>7. CASE AskedAfterClose BY <1>7 DEF AskedAfterClose, Send, End
<1>8. CASE AskedWithoutSource BY <1>8 DEF AskedWithoutSource, Send, End
<1>9. CASE Asked BY <1>9 DEF Asked, End
<1>10. CASE Repeated BY <1>10 DEF Repeated, Take
<1>11. CASE RoundServed BY <1>11 DEF RoundServed, Send
<1>12. ASSUME NEW k \in Lookups, LookedUp(k) PROVE BudgetsKept'
  <2>1. PICK n \in 1..ResultLimit : bytes' = bytes + n
    BY <1>12 DEF LookedUp
  <2>2. limit.bytes # 0 => bytes + n <= limit.bytes
    BY <2>1, <1>12, ResultFits DEF LookedUp
  <2> QED BY <2>1, <2>2, <1>12 DEF LookedUp, Take
<1>13. ASSUME NEW k \in Lookups, Refused(k) PROVE BudgetsKept'
  BY <1>13 DEF Refused, Take
<1>14. CASE Answered BY <1>14 DEF Answered
<1>15. CASE Retried BY <1>15 DEF Retried
<1>16. CASE TimedOut BY <1>16 DEF TimedOut, TimeoutInstruction, Compacted
<1>17. CASE GaveUp BY <1>17 DEF GaveUp, End
<1>18. CASE DeadlineStrikes BY <1>18 DEF DeadlineStrikes, End
<1>19. CASE UNCHANGED vars BY <1>19 DEF vars
<1> QED
  BY <1>1, <1>2, <1>3, <1>4, <1>5, <1>6, <1>7, <1>8, <1>9, <1>10, <1>11, <1>12,
     <1>13, <1>14, <1>15, <1>16, <1>17, <1>18, <1>19 DEF Next

\* Every request offers the tools exactly while they are open.
LEMMA OffersStep ==
  ASSUME ControlOK, Offers, Chat, Serving, [Next]_vars PROVE Offers'
<1> USE ToolLoopAssumption
<1> USE DEF ControlOK, Offers, Chat, Serving, config, request, budget, round,
            recovery, chat
<1>1. CASE FirstAnswered BY <1>1 DEF FirstAnswered
<1>2. CASE FirstRetried BY <1>2 DEF FirstRetried
<1>3. CASE ToolsRejected BY <1>3 DEF ToolsRejected
<1>4. CASE Unreadable BY <1>4 DEF Unreadable, End
<1>5. CASE Submitted BY <1>5 DEF Submitted, End
<1>6. CASE Malformed BY <1>6 DEF Malformed, Send
<1>7. CASE AskedAfterClose BY <1>7 DEF AskedAfterClose, Send, End
<1>8. CASE AskedWithoutSource BY <1>8 DEF AskedWithoutSource, Send, End
<1>9. CASE Asked BY <1>9 DEF Asked, End
<1>10. CASE Repeated BY <1>10 DEF Repeated, Take
<1>11. CASE RoundServed BY <1>11 DEF RoundServed, Send
<1>12. ASSUME NEW k \in Lookups, LookedUp(k) PROVE Offers'
  BY <1>12 DEF LookedUp, Take
<1>13. ASSUME NEW k \in Lookups, Refused(k) PROVE Offers'
  BY <1>13 DEF Refused, Take
<1>14. CASE Answered BY <1>14 DEF Answered
<1>15. CASE Retried BY <1>15 DEF Retried
<1>16. CASE TimedOut BY <1>16 DEF TimedOut, TimeoutInstruction, Compacted
<1>17. CASE GaveUp BY <1>17 DEF GaveUp, End
<1>18. CASE DeadlineStrikes BY <1>18 DEF DeadlineStrikes, End
<1>19. CASE UNCHANGED vars BY <1>19 DEF vars
<1> QED
  BY <1>1, <1>2, <1>3, <1>4, <1>5, <1>6, <1>7, <1>8, <1>9, <1>10, <1>11, <1>12,
     <1>13, <1>14, <1>15, <1>16, <1>17, <1>18, <1>19 DEF Next

\* Every step that leaves the tools open leaves something of each budget.
LEMMA OpenStep ==
  ASSUME ControlOK, CountsOK, Open, Serving, [Next]_vars PROVE Open'
<1> USE ToolLoopAssumption, LimitType
<1> USE DEF CountsOK, Open, Serving, CallsLeft, RoundsLeft, config, request,
            budget, round, recovery, chat
<1>1. CASE FirstAnswered BY <1>1 DEF FirstAnswered
<1>2. CASE FirstRetried BY <1>2 DEF FirstRetried
<1>3. CASE ToolsRejected BY <1>3 DEF ToolsRejected
<1>4. CASE Unreadable BY <1>4 DEF Unreadable, End
<1>5. CASE Submitted BY <1>5 DEF Submitted, End
<1>6. CASE Malformed BY <1>6 DEF Malformed, Send
<1>7. CASE AskedAfterClose BY <1>7 DEF AskedAfterClose, Send, End
<1>8. CASE AskedWithoutSource BY <1>8 DEF AskedWithoutSource, Send, End
<1>9. CASE Asked BY <1>9 DEF Asked, End
<1>10. CASE Repeated BY <1>10 DEF Repeated, Take
<1>11. CASE RoundServed BY <1>11 DEF RoundServed, Send, Spent
<1>12. ASSUME NEW k \in Lookups, LookedUp(k) PROVE Open'
  BY <1>12 DEF LookedUp, Take
<1>13. ASSUME NEW k \in Lookups, Refused(k) PROVE Open'
  BY <1>13 DEF Refused, Take
<1>14. CASE Answered BY <1>14 DEF Answered
<1>15. CASE Retried BY <1>15 DEF Retried
<1>16. CASE TimedOut BY <1>16 DEF TimedOut, TimeoutInstruction, Compacted
<1>17. CASE GaveUp BY <1>17 DEF GaveUp, End
<1>18. CASE DeadlineStrikes BY <1>18 DEF DeadlineStrikes, End
<1>19. CASE UNCHANGED vars BY <1>19 DEF vars
<1> QED
  BY <1>1, <1>2, <1>3, <1>4, <1>5, <1>6, <1>7, <1>8, <1>9, <1>10, <1>11, <1>12,
     <1>13, <1>14, <1>15, <1>16, <1>17, <1>18, <1>19 DEF Next

\* Every step of a round brings something new or closes the tools.
LEMMA ServingStep ==
  ASSUME ControlOK, CountsOK, Open, Serving, [Next]_vars PROVE Serving'
<1> USE ToolLoopAssumption, LimitType
<1> USE DEF ControlOK, CountsOK, Open, Serving, CallsLeft, RoundsLeft, config,
            request, budget, round, recovery, chat
<1>1. CASE FirstAnswered BY <1>1 DEF FirstAnswered
<1>2. CASE FirstRetried BY <1>2 DEF FirstRetried
<1>3. CASE ToolsRejected BY <1>3 DEF ToolsRejected
<1>4. CASE Unreadable BY <1>4 DEF Unreadable, End
<1>5. CASE Submitted BY <1>5 DEF Submitted, End
<1>6. CASE Malformed BY <1>6 DEF Malformed, Send
<1>7. CASE AskedAfterClose BY <1>7 DEF AskedAfterClose, Send, End
<1>8. CASE AskedWithoutSource BY <1>8 DEF AskedWithoutSource, Send, End
<1>9. CASE Asked BY <1>9 DEF Asked, End
<1>10. CASE Repeated BY <1>10 DEF Repeated, Take
<1>11. CASE RoundServed BY <1>11 DEF RoundServed, Send
<1>12. ASSUME NEW k \in Lookups, LookedUp(k) PROVE Serving'
  BY <1>12 DEF LookedUp, Take
<1>13. ASSUME NEW k \in Lookups, Refused(k) PROVE Serving'
  BY <1>13 DEF Refused, Take
<1>14. CASE Answered BY <1>14 DEF Answered
<1>15. CASE Retried BY <1>15 DEF Retried
<1>16. CASE TimedOut BY <1>16 DEF TimedOut, TimeoutInstruction, Compacted
<1>17. CASE GaveUp BY <1>17 DEF GaveUp, End
<1>18. CASE DeadlineStrikes BY <1>18 DEF DeadlineStrikes, End
<1>19. CASE UNCHANGED vars BY <1>19 DEF vars
<1> QED
  BY <1>1, <1>2, <1>3, <1>4, <1>5, <1>6, <1>7, <1>8, <1>9, <1>10, <1>11, <1>12,
     <1>13, <1>14, <1>15, <1>16, <1>17, <1>18, <1>19 DEF Next

\* Every follow-up request is owed to a round of tools or to a recovery.
LEMMA RequestsStep ==
  ASSUME ControlOK, CountsOK, Open, Serving, Requests, [Next]_vars PROVE Requests'
<1> USE ToolLoopAssumption
<1> USE DEF ControlOK, CountsOK, Open, Serving, Requests, One, config, request,
            budget, round, recovery, chat
<1>1. CASE FirstAnswered BY <1>1 DEF FirstAnswered
<1>2. CASE FirstRetried BY <1>2 DEF FirstRetried
<1>3. CASE ToolsRejected BY <1>3 DEF ToolsRejected
<1>4. CASE Unreadable BY <1>4 DEF Unreadable, End
<1>5. CASE Submitted BY <1>5 DEF Submitted, End
<1>6. CASE Malformed BY <1>6 DEF Malformed, Send
<1>7. CASE AskedAfterClose
  <2>1. /\ UNCHANGED <<config, budget, round, mode>>
        /\ \/ End(IF malformed THEN "unreadable" ELSE "error")
              /\ UNCHANGED <<request, recovery, chat>>
           \/ /\ Send(TRUE) /\ ~malformed /\ ~diffOnly /\ diffOnly'
              /\ evidence' = "none" /\ told' = {"diff_only"}
              /\ UNCHANGED <<malformed, unavailable>>
        /\ step = "reading" /\ mode = "tools" /\ finalizing
    BY <1>7 DEF AskedAfterClose, Send
  <2>2. CASE Send(TRUE)
    BY <2>1, <2>2 DEF Send, End
  <2>3. CASE UNCHANGED <<request, recovery, chat>> /\ step' = "over"
                /\ verdict' \in {"unreadable", "error"}
    BY <2>1, <2>3
  <2> QED BY <2>1, <2>2, <2>3 DEF End
<1>8. CASE AskedWithoutSource BY <1>8 DEF AskedWithoutSource, Send, End
<1>9. CASE Asked BY <1>9 DEF Asked, End
<1>10. CASE Repeated BY <1>10 DEF Repeated, Take
<1>11. CASE RoundServed BY <1>11 DEF RoundServed, Send
<1>12. ASSUME NEW k \in Lookups, LookedUp(k) PROVE Requests'
  BY <1>12 DEF LookedUp, Take
<1>13. ASSUME NEW k \in Lookups, Refused(k) PROVE Requests'
  BY <1>13 DEF Refused, Take
<1>14. CASE Answered BY <1>14 DEF Answered
<1>15. CASE Retried BY <1>15 DEF Retried
<1>16. CASE TimedOut BY <1>16 DEF TimedOut, TimeoutInstruction, Compacted
<1>17. CASE GaveUp BY <1>17 DEF GaveUp, End
<1>18. CASE DeadlineStrikes BY <1>18 DEF DeadlineStrikes, End
<1>19. CASE UNCHANGED vars BY <1>19 DEF vars
<1> QED
  BY <1>1, <1>2, <1>3, <1>4, <1>5, <1>6, <1>7, <1>8, <1>9, <1>10, <1>11, <1>12,
     <1>13, <1>14, <1>15, <1>16, <1>17, <1>18, <1>19 DEF Next

\* Every step keeps the conversation in line with the recoveries used.
LEMMA ChatStep ==
  ASSUME ControlOK, CountsOK, Open, Serving, Chat, [Next]_vars PROVE Chat'
<1> USE ToolLoopAssumption
<1> USE DEF ControlOK, CountsOK, Instructions, Open, Serving, Chat,
            EvidenceCarried, InstructionsStand, config, request, budget, round,
            recovery, chat
<1>1. CASE FirstAnswered BY <1>1 DEF FirstAnswered
<1>2. CASE FirstRetried BY <1>2 DEF FirstRetried
<1>3. CASE ToolsRejected BY <1>3 DEF ToolsRejected
<1>4. CASE Unreadable BY <1>4 DEF Unreadable, End
<1>5. CASE Submitted BY <1>5 DEF Submitted, End
<1>6. CASE Malformed BY <1>6 DEF Malformed, Send
<1>7. CASE AskedAfterClose
  <2>1. /\ UNCHANGED <<config, budget, round, mode>>
        /\ \/ End(IF malformed THEN "unreadable" ELSE "error")
              /\ UNCHANGED <<request, recovery, chat>>
           \/ /\ Send(TRUE) /\ ~malformed /\ ~diffOnly /\ diffOnly'
              /\ evidence' = "none" /\ told' = {"diff_only"}
              /\ UNCHANGED <<malformed, unavailable>>
        /\ step = "reading" /\ mode = "tools" /\ finalizing
    BY <1>7 DEF AskedAfterClose, Send
  <2>2. CASE Send(TRUE)
    BY <2>1, <2>2 DEF Send, End
  <2>3. CASE UNCHANGED <<request, recovery, chat>> /\ step' = "over"
                /\ verdict' \in {"unreadable", "error"}
    BY <2>1, <2>3
  <2> QED BY <2>1, <2>2, <2>3 DEF End
<1>8. CASE AskedWithoutSource BY <1>8 DEF AskedWithoutSource, Send, End
<1>9. CASE Asked
  <2>1. /\ step = "reading" /\ mode = "tools" /\ ~finalizing /\ source
        /\ rounds' = rounds + 1
        /\ UNCHANGED <<config, request, calls, bytes, cache, recovery, told, noticed>>
    BY <1>9 DEF Asked
  <2>2. CASE step' = "over" /\ UNCHANGED <<round, evidence>> /\ ~CallsLeft /\ noticed
    BY <2>1, <2>2
  <2>3. CASE /\ step' = "tools" /\ pending' \in 1..MaxAsked
             /\ ~refused' /\ ~repeated' /\ evidence' = "results"
    <3>1. refused' \in BOOLEAN /\ repeated' \in BOOLEAN
      BY <1>9, <2>3 DEF Asked
    <3> QED BY <2>1, <2>3, <3>1
  <2> QED BY <1>9, <2>2, <2>3 DEF Asked, End
<1>10. CASE Repeated BY <1>10 DEF Repeated, Take
<1>11. CASE RoundServed BY <1>11 DEF RoundServed, Send
<1>12. ASSUME NEW k \in Lookups, LookedUp(k) PROVE Chat'
  BY <1>12 DEF LookedUp, Take
<1>13. ASSUME NEW k \in Lookups, Refused(k) PROVE Chat'
  BY <1>13 DEF Refused, Take
<1>14. CASE Answered BY <1>14 DEF Answered
<1>15. CASE Retried BY <1>15 DEF Retried
<1>16. CASE TimedOut
  <2>1. /\ TimeoutInstruction \in Instructions \ {"unavailable"}
        /\ malformed =>
             TimeoutInstruction \in {"malformed", "malformed_diff_only", "json"}
        /\ diffOnly => TimeoutInstruction \in {"diff_only", "malformed_diff_only"}
    BY DEF TimeoutInstruction
  <2>2. evidence' # "none" <=> evidence # "none"
    BY <1>16 DEF TimedOut, Compacted
  <2>3. /\ told' = {TimeoutInstruction} /\ finalizing' /\ step' = "sending"
        /\ UNCHANGED <<mode, diffOnly, malformed, rounds>>
    BY <1>16 DEF TimedOut
  <2> QED BY <2>1, <2>2, <2>3
<1>17. CASE GaveUp BY <1>17 DEF GaveUp, End
<1>18. CASE DeadlineStrikes BY <1>18 DEF DeadlineStrikes, End
<1>19. CASE UNCHANGED vars BY <1>19 DEF vars
<1> QED
  BY <1>1, <1>2, <1>3, <1>4, <1>5, <1>6, <1>7, <1>8, <1>9, <1>10, <1>11, <1>12,
     <1>13, <1>14, <1>15, <1>16, <1>17, <1>18, <1>19 DEF Next

\* Every step keeps one lookup in the cache for each call.
LEMMA CacheStep ==
  ASSUME Cache, [Next]_vars PROVE Cache'
<1> USE ToolLoopAssumption
<1> USE DEF Cache, EachLookupOnce, config, request, budget, round, recovery,
            chat
<1>1. CASE FirstAnswered BY <1>1 DEF FirstAnswered
<1>2. CASE FirstRetried BY <1>2 DEF FirstRetried
<1>3. CASE ToolsRejected BY <1>3 DEF ToolsRejected
<1>4. CASE Unreadable BY <1>4 DEF Unreadable, End
<1>5. CASE Submitted BY <1>5 DEF Submitted, End
<1>6. CASE Malformed BY <1>6 DEF Malformed, Send
<1>7. CASE AskedAfterClose BY <1>7 DEF AskedAfterClose, Send, End
<1>8. CASE AskedWithoutSource BY <1>8 DEF AskedWithoutSource, Send, End
<1>9. CASE Asked BY <1>9 DEF Asked, End
<1>10. CASE Repeated BY <1>10 DEF Repeated, Take
<1>11. CASE RoundServed BY <1>11 DEF RoundServed, Send
<1>12. ASSUME NEW k \in Lookups, LookedUp(k) PROVE Cache'
  <2>1. k \notin cache /\ cache' = cache \cup {k} /\ calls' = calls + 1
    BY <1>12 DEF LookedUp
  <2> QED BY <2>1, FS_AddElement
<1>13. ASSUME NEW k \in Lookups, Refused(k) PROVE Cache'
  BY <1>13 DEF Refused, Take
<1>14. CASE Answered BY <1>14 DEF Answered
<1>15. CASE Retried BY <1>15 DEF Retried
<1>16. CASE TimedOut BY <1>16 DEF TimedOut, TimeoutInstruction, Compacted
<1>17. CASE GaveUp BY <1>17 DEF GaveUp, End
<1>18. CASE DeadlineStrikes BY <1>18 DEF DeadlineStrikes, End
<1>19. CASE UNCHANGED vars BY <1>19 DEF vars
<1> QED
  BY <1>1, <1>2, <1>3, <1>4, <1>5, <1>6, <1>7, <1>8, <1>9, <1>10, <1>11, <1>12,
     <1>13, <1>14, <1>15, <1>16, <1>17, <1>18, <1>19 DEF Next
-----------------------------------------------------------------------------
\* The inductive invariant holds.
LEMMA Inductive == Spec => []IInv
<1>1. IInv /\ [Next]_vars => IInv'
  <2> SUFFICES ASSUME IInv, [Next]_vars PROVE IInv'
    OBVIOUS
  <2>1. ControlOK /\ CountsOK /\ BudgetsKept /\ Offers /\ Open /\ Serving
        /\ Requests /\ Chat /\ Cache
    BY DEF IInv, TypeOK
  <2>2. ControlOK' BY <2>1, ControlStep
  <2>3. CountsOK' BY <2>1, CountsStep
  <2>4. BudgetsKept' BY <2>1, BudgetsStep
  <2>5. Offers' BY <2>1, OffersStep
  <2>6. Open' BY <2>1, OpenStep
  <2>7. Serving' BY <2>1, ServingStep
  <2>8. Requests' BY <2>1, RequestsStep
  <2>9. Chat' BY <2>1, ChatStep
  <2>10. Cache' BY <2>1, CacheStep
  <2> QED
    BY <2>2, <2>3, <2>4, <2>5, <2>6, <2>7, <2>8, <2>9, <2>10 DEF IInv, TypeOK
<1> QED BY <1>1, InitIInv, PTL DEF Spec

(* Whatever the model asks for, a conversation stays within each of its    *)
(* budgets and executes no lookup twice.                                   *)
THEOREM ConversationWithinBudgets == Spec => [](TypeOK /\ BudgetsKept /\ EachLookupOnce)
<1>1. IInv => TypeOK /\ BudgetsKept /\ EachLookupOnce
  BY DEF IInv, Cache
<1> QED BY <1>1, Inductive, PTL

(* The loop is bounded: by the lookups it makes and by max_tool_calls.     *)
THEOREM ConversationBounded == Spec => []FollowUpsBounded
<1>1. IInv => FollowUpsBounded
  <2> SUFFICES ASSUME IInv PROVE FollowUpsBounded
    OBVIOUS
  <2>1. /\ rounds \in Nat /\ calls \in Nat /\ followUps \in Nat
        /\ limit.calls \in Nat /\ source \in BOOLEAN
    BY LimitType DEF IInv, TypeOK, ControlOK, CountsOK
  <2>2. /\ rounds <= calls + 1
        /\ limit.calls # 0 => rounds <= limit.calls
    BY DEF IInv, Serving
  <2>3. followUps <= rounds + One(diffOnly) + One(malformed) + One(unavailable)
    BY <2>1 DEF IInv, Requests, One
  <2>4. CASE source
    <3>1. followUps <= rounds + 2
      BY <2>1, <2>3, <2>4 DEF IInv, Requests, One
    <3> QED BY <2>1, <2>2, <2>4, <3>1 DEF FollowUpsBounded
  <2>5. CASE ~source
    <3>1. rounds = 0
      BY <2>5 DEF IInv, Requests
    <3> QED BY <2>1, <2>3, <2>5, <3>1 DEF FollowUpsBounded, One
  <2> QED BY <2>1, <2>4, <2>5
<1> QED BY <1>1, Inductive, PTL

(* The round that spends a budget is the last one the model is offered,    *)
(* so the branch for a model that insists is never taken.                  *)
THEOREM ToolsClose == Spec => []ToolsCloseWhenSpent
<1>1. IInv => ToolsCloseWhenSpent
  BY DEF IInv, Open, Requests, ToolsCloseWhenSpent
<1> QED BY <1>1, Inductive, PTL

(* There is evidence in the conversation exactly if a round of look-ups    *)
(* was made, whatever timed out or was tried again since, but for the      *)
(* diff-only recovery, which drops it.                                     *)
THEOREM EvidenceKept == Spec => []EvidenceCarried
<1>1. IInv => EvidenceCarried
  BY DEF IInv, Chat
<1> QED BY <1>1, Inductive, PTL

(* Nor does one leave the model without an instruction that still holds,   *)
(* or with one that does not.                                              *)
THEOREM InstructionsKept == Spec => []InstructionsStand
<1>1. IInv => InstructionsStand
  BY DEF IInv, Chat
<1> QED BY <1>1, Inductive, PTL

(* Only an answer to a request that offered the tools makes the runner     *)
(* execute one.                                                            *)
THEOREM OnlyOffered == Spec => OnlyOfferedToolsRun
<1>1. IInv /\ [Next]_vars => [calls' > calls => offered]_vars
  <2> SUFFICES ASSUME IInv, [Next]_vars, ~offered PROVE ~(calls' > calls)
    OBVIOUS
  <2>1. calls \in Nat /\ step # "tools"
    BY DEF IInv, TypeOK, CountsOK, Offers, Serving
  <2>2. calls' = calls
    BY <2>1 DEF Next, FirstAnswered, FirstRetried, ToolsRejected, Unreadable, Submitted,
                Malformed, AskedAfterClose, AskedWithoutSource, Asked, Repeated,
                RoundServed, LookedUp, Refused, Take, Answered, Retried, TimedOut,
                GaveUp, DeadlineStrikes, budget, vars
  <2> QED BY <2>1, <2>2
<1> QED BY <1>1, Inductive, PTL DEF Spec, OnlyOfferedToolsRun
=============================================================================
