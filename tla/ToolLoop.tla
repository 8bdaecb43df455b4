------------------------------ MODULE ToolLoop ------------------------------
(***************************************************************************)
(* One conversation with the model: the first request, the context tools   *)
(* the model asks for and the runner executes, the budgets that end that,  *)
(* the recoveries (a malformed answer, a timeout, a call after the end of  *)
(* the tools) and the final findings or the error.  One conversation is    *)
(* held per batch of the diff.  A single task runs it; what is not under   *)
(* its control is what the model answers, how the HTTP calls end and when  *)
(* the deadline of the review strikes.                                     *)
(***************************************************************************)
EXTENDS Naturals, FiniteSets

CONSTANTS Limits,     \* what rules.toml may say; 0 stands for no limit
          Lookups,    \* tool calls with their arguments
          Attempts,   \* AI_HTTP_ATTEMPTS
          MinResult,  \* MIN_CONTEXT_TOOL_RESULT_BYTES
          MaxAsked    \* bound: tool calls in one answer

ASSUME ToolLoopAssumption ==
  /\ Limits \subseteq [calls : Nat, rounds : Nat, bytes : Nat, each : Nat]
  /\ Attempts \in Nat \ {0} /\ MinResult \in Nat \ {0} /\ MaxAsked \in Nat \ {0}

VARIABLES
  limit,      \* the configuration of this review
  source,     \* whether the repository is at hand
  mode,       \* findings as a tool call, or as JSON content
  step,       \* what the task is doing
  attempt,    \* of the request under way
  offered,    \* whether that request offers the context tools
  pending,    \* calls of the answer in hand not yet executed
  rounds, calls, bytes,   \* of context tools, so far
  cache,      \* lookups executed
  noticed,    \* a call was refused for want of calls ...
  refused,    \* ... of bytes, in this round
  repeated,   \* a lookup of this round was in the cache
  finalizing, diffOnly, malformed, unavailable,  \* recoveries used
  evidence,   \* what tool results the conversation holds
  told,       \* the instructions it holds
  followUps,  \* requests after the first
  verdict     \* how it ended

config == <<limit, source>>
request == <<mode, attempt, offered, followUps>>
budget == <<rounds, calls, bytes, cache>>
round == <<pending, noticed, refused, repeated>>
recovery == <<finalizing, diffOnly, malformed, unavailable>>
chat == <<evidence, told>>
vars == <<config, request, step, budget, round, recovery, chat, verdict>>

Steps == {"first", "reading", "tools", "sending", "over"}
Verdicts == {"none", "findings", "timeout", "error", "unreadable", "exhausted"}
Instructions == {"finalize", "diff_only", "malformed", "malformed_diff_only",
                 "json", "unavailable"}

\* Faulty variant: a limit of one call too many.
CallsLeftOffByOne == limit.calls = 0 \/ calls <= limit.calls
CallsLeft == limit.calls = 0 \/ calls < limit.calls
BytesFit == limit.bytes = 0 \/ bytes + MinResult <= limit.bytes
RoundsLeft == limit.rounds = 0 \/ rounds < limit.rounds

\* Faulty variant: the bytes already spent are not taken off.
ResultLimitAlone == IF limit.each = 0 THEN 1 ELSE limit.each

\* How long a result may be: the limit of one, within what is left of all.
ResultLimit ==
  LET each == IF limit.each = 0 THEN 1 ELSE limit.each
  IN  IF limit.bytes # 0 /\ limit.bytes - bytes < each
      THEN limit.bytes - bytes ELSE each

Init ==
  /\ limit \in Limits /\ source \in BOOLEAN
  /\ mode = "tools" /\ step = "first" /\ attempt = 1 /\ offered = source
  /\ pending = 0 /\ rounds = 0 /\ calls = 0 /\ bytes = 0 /\ cache = {}
  /\ noticed = FALSE /\ refused = FALSE /\ repeated = FALSE
  /\ finalizing = FALSE /\ diffOnly = FALSE
  /\ malformed = FALSE /\ unavailable = FALSE
  /\ evidence = "none" /\ told = {} /\ followUps = 0 /\ verdict = "none"

End(v) == step' = "over" /\ verdict' = v

-----------------------------------------------------------------------------
(* The first request of run_ai_review_single.                              *)

FirstAnswered ==
  /\ step = "first"
  /\ step' = "reading"
  /\ UNCHANGED <<config, request, budget, round, recovery, chat, verdict>>

FirstRetried ==
  /\ step = "first" /\ attempt < Attempts
  /\ attempt' = attempt + 1
  /\ UNCHANGED <<config, mode, offered, followUps, step, budget, round, recovery,
                 chat, verdict>>

\* The endpoint does not know tool calls: start again with JSON content.
ToolsRejected ==
  /\ step = "first" /\ mode = "tools"
  /\ mode' = "json" /\ attempt' = 1 /\ offered' = FALSE
  /\ UNCHANGED <<config, followUps, step, budget, round, recovery, chat, verdict>>

-----------------------------------------------------------------------------
(* The loop of complete_ai_review_response.                                *)

\* The next request, without the context tools once they are closed.
Send(closed) ==
  /\ step' = "sending"
  /\ attempt' = 1
  /\ finalizing' = closed
  /\ offered' = (mode = "tools" /\ source /\ ~closed)
  /\ followUps' = followUps + 1
  /\ UNCHANGED <<mode, verdict>>

Unreadable ==
  /\ step = "reading"
  /\ End("unreadable")
  /\ UNCHANGED <<config, request, budget, round, recovery, chat>>

Submitted ==
  /\ step = "reading"
  /\ End("findings")
  /\ UNCHANGED <<config, request, budget, round, recovery, chat>>

\* Faulty variant: every malformed answer is tried again.
MalformedAgain ==
  /\ step = "reading"
  /\ Send(TRUE)
  /\ malformed' = TRUE
  /\ told' = told \cup {"malformed"}
  /\ UNCHANGED <<config, budget, round, diffOnly, unavailable, evidence>>

\* A malformed final answer is asked for once more.
Malformed ==
  /\ step = "reading" /\ ~malformed
  /\ Send(TRUE)
  /\ malformed' = TRUE
  /\ told' = told \cup {"malformed"}
  /\ UNCHANGED <<config, budget, round, diffOnly, unavailable, evidence>>

\* The model asks for tools that are closed: its tool history is dropped, once.
AskedAfterClose ==
  /\ step = "reading" /\ mode = "tools" /\ finalizing
  /\ \/ /\ malformed \/ diffOnly
        /\ End(IF malformed THEN "unreadable" ELSE "error")
        /\ UNCHANGED <<request, recovery, chat>>
     \/ /\ ~malformed /\ ~diffOnly
        /\ Send(TRUE)
        /\ diffOnly' = TRUE
        /\ evidence' = "none" /\ told' = {"diff_only"}
        /\ UNCHANGED <<malformed, unavailable>>
  /\ UNCHANGED <<config, budget, round>>

\* The model asks for tools it was never offered: it is told so, once.
AskedWithoutSource ==
  /\ step = "reading" /\ mode = "tools" /\ ~finalizing /\ ~source
  /\ \/ /\ unavailable
        /\ End("unreadable")
        /\ UNCHANGED <<request, recovery, chat>>
     \/ /\ ~unavailable
        /\ Send(FALSE)
        /\ unavailable' = TRUE
        /\ told' = told \cup {"unavailable"}
        /\ UNCHANGED <<diffOnly, malformed, evidence>>
  /\ UNCHANGED <<config, budget, round>>

\* A round of context tools, unless the model insists after a refusal.
Asked ==
  /\ step = "reading" /\ mode = "tools" /\ ~finalizing /\ source
  /\ rounds' = rounds + 1
  /\ IF ~CallsLeft /\ noticed
     THEN End("exhausted") /\ UNCHANGED <<round, evidence>>
     ELSE /\ step' = "tools" /\ pending' \in 1..MaxAsked
          /\ refused' = FALSE /\ repeated' = FALSE
          /\ evidence' = "results"
          /\ UNCHANGED <<noticed, verdict>>
  /\ UNCHANGED <<config, request, calls, bytes, cache, recovery, told>>

Take == step = "tools" /\ pending > 0 /\ pending' = pending - 1

\* The lookup was made before: the model is referred to its result.
Repeated ==
  /\ Take
  /\ cache # {}
  /\ repeated' = TRUE
  /\ UNCHANGED <<config, request, step, budget, noticed, refused, recovery, chat,
                 verdict>>

\* The tool is called; its result is cut to the limit.
LookedUp(k) ==
  /\ Take /\ k \notin cache /\ CallsLeft /\ BytesFit
  /\ calls' = calls + 1
  /\ \E n \in 1..ResultLimit : bytes' = bytes + n
  /\ cache' = cache \cup {k}
  /\ UNCHANGED <<config, request, step, rounds, noticed, refused, repeated,
                 recovery, chat, verdict>>

\* A lookup not made before is refused, for want of calls or of bytes.
Refused(k) ==
  /\ Take /\ k \notin cache
  /\ \/ /\ ~CallsLeft
        /\ noticed' = TRUE /\ UNCHANGED refused
     \/ /\ CallsLeft /\ ~BytesFit
        /\ refused' = TRUE /\ UNCHANGED noticed
  /\ UNCHANGED <<config, request, step, budget, repeated, recovery, chat, verdict>>

\* Faulty variant: a repeated lookup does not close the tools.
SpentUnlessRepeated ==
  \/ ~CallsLeft \/ ~RoundsLeft \/ refused
  \/ limit.bytes # 0 /\ bytes >= limit.bytes

Spent ==
  \/ ~CallsLeft \/ ~RoundsLeft \/ repeated \/ refused
  \/ limit.bytes # 0 /\ bytes >= limit.bytes

\* All calls of the answer are served: the results go back to the model, and
\* with them, when a budget is spent, the request to come to an end.
RoundServed ==
  /\ step = "tools" /\ pending = 0
  /\ Send(Spent)
  /\ told' = IF Spent THEN told \cup {"finalize"} ELSE told
  /\ UNCHANGED <<config, budget, round, diffOnly, malformed, unavailable, evidence>>

-----------------------------------------------------------------------------
(* A follow-up request and its retries.                                    *)

Answered ==
  /\ step = "sending"
  /\ step' = "reading"
  /\ UNCHANGED <<config, request, budget, round, recovery, chat, verdict>>

\* An error worth a retry, other than a timeout.
Retried ==
  /\ step = "sending" /\ attempt < Attempts
  /\ attempt' = attempt + 1
  /\ UNCHANGED <<config, mode, offered, followUps, step, budget, round, recovery,
                 chat, verdict>>

\* Faulty variant: a timeout after a malformed answer forgets the diff only.
TimeoutInstructionShort ==
  IF mode = "json" THEN "json"
  ELSE IF malformed THEN "malformed"
  ELSE IF diffOnly THEN "diff_only" ELSE "finalize"

TimeoutInstruction ==
  CASE mode = "json" -> "json"
    [] mode = "tools" /\ malformed /\ diffOnly -> "malformed_diff_only"
    [] mode = "tools" /\ malformed /\ ~diffOnly -> "malformed"
    [] mode = "tools" /\ ~malformed /\ diffOnly -> "diff_only"
    [] mode = "tools" /\ ~malformed /\ ~diffOnly -> "finalize"

\* Faulty variant: the summary of an earlier timeout is dropped with the rest.
CompactedAnew == IF evidence = "results" THEN "summary" ELSE "none"

\* Tool results become a summary; an earlier summary is kept.
Compacted == IF evidence = "none" THEN "none" ELSE "summary"

\* The request times out: the conversation is cut back to its beginning, the
\* evidence and one instruction; no tool is offered any more.
TimedOut ==
  /\ step = "sending" /\ attempt < Attempts
  /\ attempt' = attempt + 1
  /\ finalizing' = TRUE /\ offered' = FALSE
  /\ evidence' = Compacted /\ told' = {TimeoutInstruction}
  /\ UNCHANGED <<config, mode, followUps, step, budget, round, diffOnly, malformed,
                 unavailable, verdict>>

\* A request fails for good, at the first or the last attempt.
GaveUp ==
  /\ step \in {"first", "sending"}
  /\ End("error") \/ (attempt = Attempts /\ End("timeout"))
  /\ UNCHANGED <<config, request, budget, round, recovery, chat>>

\* timeout_seconds are over: the whole conversation is dropped where it waits.
DeadlineStrikes ==
  /\ step \in {"first", "sending"}
  /\ End("timeout")
  /\ UNCHANGED <<config, request, budget, round, recovery, chat>>

Next ==
  \/ FirstAnswered \/ FirstRetried \/ ToolsRejected
  \/ Unreadable \/ Submitted \/ Malformed
  \/ AskedAfterClose \/ AskedWithoutSource \/ Asked
  \/ Repeated \/ RoundServed
  \/ \E k \in Lookups : LookedUp(k) \/ Refused(k)
  \/ Answered \/ Retried \/ TimedOut \/ GaveUp \/ DeadlineStrikes

Spec == Init /\ [][Next]_vars

-----------------------------------------------------------------------------
(* Correctness.                                                            *)

ControlOK ==
  /\ limit \in Limits /\ source \in BOOLEAN
  /\ mode \in {"tools", "json"} /\ step \in Steps
  /\ attempt \in 1..Attempts /\ offered \in BOOLEAN
  /\ finalizing \in BOOLEAN /\ diffOnly \in BOOLEAN
  /\ malformed \in BOOLEAN /\ unavailable \in BOOLEAN
  /\ evidence \in {"none", "results", "summary"} /\ told \subseteq Instructions
  /\ verdict \in Verdicts

CountsOK ==
  /\ pending \in 0..MaxAsked
  /\ rounds \in Nat /\ calls \in Nat /\ bytes \in Nat /\ followUps \in Nat
  /\ cache \subseteq Lookups
  /\ noticed \in BOOLEAN /\ refused \in BOOLEAN /\ repeated \in BOOLEAN

\* The state of a conversation is well-formed (the locals of
\* complete_ai_review_response).
TypeOK == ControlOK /\ CountsOK

\* A conversation never runs more tools, rounds of tools or bytes of results
\* than rules.toml grants it, though one answer may ask for many calls and a
\* refusal by one budget still leaves the others to be spent.
BudgetsKept ==
  /\ limit.calls # 0 => calls <= limit.calls
  /\ limit.rounds # 0 => rounds <= limit.rounds
  /\ limit.bytes # 0 => bytes <= limit.bytes

\* No lookup is executed twice in a conversation, whatever the model repeats:
\* tool_cache holds one key for each call counted.
EachLookupOnce == calls = Cardinality(cache)

One(b) == IF b THEN 1 ELSE 0

\* The loop, which has no bound of its own, ends: every round but the last one
\* executes a lookup not made before, and each recovery happens once.  So the
\* requests sent are bounded by the lookups, and by max_tool_calls if there is
\* one, whatever the model answers.
FollowUpsBounded ==
  followUps <= IF ~source THEN 3
               ELSE (IF limit.calls = 0 THEN calls + 1 ELSE limit.calls) + 2

\* The tools close with the round that spends a budget: the next request that
\* is free to ask for tools has calls, rounds and bytes left, follows a round
\* that brought something new, and was refused nothing.  So the model is never
\* told "exhausted", the branch of the loop for a model that insists.
ToolsCloseWhenSpent ==
  /\ step \in {"reading", "sending"} /\ ~finalizing =>
        /\ CallsLeft /\ RoundsLeft /\ (limit.bytes # 0 => bytes < limit.bytes)
        /\ rounds <= calls /\ ~noticed
  /\ verdict # "exhausted"

\* What the tools returned stays with the conversation, whole or as a summary,
\* through every timeout and retry, until the diff-only recovery drops it
\* (compact_or_preserve_tool_evidence).
EvidenceCarried == evidence # "none" <=> rounds > 0 /\ ~diffOnly

\* The conversation never loses what the model must still be told: to correct
\* a malformed answer, to use the diff only, to come to an end.  Before the end
\* is asked for it holds no such instruction (the messages are truncated to
\* their beginning at each timeout and rebuilt from the flags).
InstructionsStand ==
  /\ malformed => told \cap {"malformed", "malformed_diff_only", "json"} # {}
  /\ diffOnly => told \cap {"diff_only", "malformed_diff_only"} # {}
  /\ finalizing <=> told \ {"unavailable"} # {}

\* A lookup is executed only for an answer to a request that offered the
\* context tools, also when a timeout closed them between two attempts.
OnlyOfferedToolsRun == [][calls' > calls => offered]_vars
=============================================================================
