------------------------------ MODULE Discussion ------------------------------
(***************************************************************************)
(* GitLabClient::create_discussion.  The caller waits, for a limited time, *)
(* for a blocking worker that posts the discussion and, if GitLab rejects  *)
(* its position, posts it again without one.  The worker is not stopped    *)
(* when the caller gives up, nor is a request that is on its way when the  *)
(* worker does.  GitLab receives a request once, at any time or never.     *)
(***************************************************************************)
CONSTANTS
  Calls,
  Positioned    \* the calls whose discussion has a position

ASSUME DiscussionAssumption == Positioned \subseteq Calls

VARIABLES
  caller,    \* waiting, or what create_discussion returned
  worker,    \* where the worker stands
  first,     \* the first request, as GitLab has it
  second     \* the one without the position

callVars == <<caller, worker, first, second>>

Positions == {"inline", "merge_request", "merge_request_fallback"}
Requests == {"unsent", "flying", "created", "rejected", "refused"}
Returned == {"created", "fell_back", "error"}

\* Type invariant.
CallTypeOK ==
  /\ caller \in [Calls -> {"waiting", "failed"} \cup Positions]
  /\ worker \in [Calls -> {"starting", "posting", "falling_back"} \cup Returned]
  /\ first \in [Calls -> Requests]
  /\ second \in [Calls -> Requests]

CallInit ==
  /\ caller = [c \in Calls |-> "waiting"]
  /\ worker = [c \in Calls |-> "starting"]
  /\ first = [c \in Calls |-> "unsent"]
  /\ second = [c \in Calls |-> "unsent"]

-----------------------------------------------------------------------------
(* GitLab.                                                                 *)

\* 400 for a request with a position counts as its rejection, any other
\* status outside 2xx as a refusal.
ReceiveFirst(c) ==
  /\ first[c] = "flying"
  /\ \/ first' = [first EXCEPT ![c] = "created"]
     \/ c \in Positioned /\ first' = [first EXCEPT ![c] = "rejected"]
     \/ first' = [first EXCEPT ![c] = "refused"]
  /\ UNCHANGED <<caller, worker, second>>

ReceiveSecond(c) ==
  /\ second[c] = "flying"
  /\ \E reply \in {"created", "refused"} : second' = [second EXCEPT ![c] = reply]
  /\ UNCHANGED <<caller, worker, first>>

-----------------------------------------------------------------------------
(* The worker, which may start when nobody waits for it any more.          *)

Post(c) ==
  /\ worker[c] = "starting"
  /\ worker' = [worker EXCEPT ![c] = "posting"]
  /\ first' = [first EXCEPT ![c] = "flying"]
  /\ UNCHANGED <<caller, second>>

\* Faulty variant: whatever goes wrong with the position, try without it.
TryUnplacedAnyhow(c) ==
  /\ worker[c] = "posting" /\ c \in Positioned /\ first[c] # "created"
  /\ worker' = [worker EXCEPT ![c] = "falling_back"]
  /\ second' = [second EXCEPT ![c] = "flying"]
  /\ UNCHANGED <<caller, first>>

TryUnplaced(c) ==
  /\ worker[c] = "posting" /\ first[c] = "rejected"
  /\ worker' = [worker EXCEPT ![c] = "falling_back"]
  /\ second' = [second EXCEPT ![c] = "flying"]
  /\ UNCHANGED <<caller, first>>

ReadReply(c) ==
  /\ \/ /\ worker[c] = "posting" /\ first[c] = "created"
        /\ worker' = [worker EXCEPT ![c] = "created"]
     \/ /\ worker[c] = "falling_back" /\ second[c] = "created"
        /\ worker' = [worker EXCEPT ![c] = "fell_back"]
  /\ UNCHANGED <<caller, first, second>>

\* The request timed out, the connection broke, the reply was a refusal or
\* could not be read.
GiveUp(c) ==
  /\ worker[c] \in {"posting", "falling_back"}
  /\ worker' = [worker EXCEPT ![c] = "error"]
  /\ UNCHANGED <<caller, first, second>>

-----------------------------------------------------------------------------
(* The caller.                                                             *)

\* Faulty variant: the position is what deserialisation makes of it.
PositionByDefault(c) == IF worker[c] = "created" THEN "inline" ELSE "merge_request"

Position(c) ==
  IF c \notin Positioned THEN "merge_request"
  ELSE IF worker[c] = "fell_back" THEN "merge_request_fallback" ELSE "inline"

Return(c) ==
  /\ caller[c] = "waiting" /\ worker[c] \in Returned
  /\ caller' = [caller EXCEPT ![c] =
                  IF worker[c] = "error" THEN "failed" ELSE Position(c)]
  /\ UNCHANGED <<worker, first, second>>

\* Faulty variant: the time is up only once the worker has started.
TimeOutStarted(c) ==
  /\ caller[c] = "waiting" /\ worker[c] # "starting"
  /\ caller' = [caller EXCEPT ![c] = "failed"]
  /\ UNCHANGED <<worker, first, second>>

\* The time is up, or the worker panicked.
TimeOut(c) ==
  /\ caller[c] = "waiting"
  /\ caller' = [caller EXCEPT ![c] = "failed"]
  /\ UNCHANGED <<worker, first, second>>

Caller(c) == Return(c) \/ TimeOut(c)
Worker(c) == Post(c) \/ TryUnplaced(c) \/ ReadReply(c) \/ GiveUp(c)
GitLab(c) == ReceiveFirst(c) \/ ReceiveSecond(c)

CallNext == \E c \in Calls : Caller(c) \/ Worker(c) \/ GitLab(c)

CallSafe == CallInit /\ [][CallNext]_callVars

\* The timer of the caller runs whatever happens to the worker; the worker
\* may wait for a thread, and GitLab for anything, as long as they like.
CallSpec == CallSafe /\ \A c \in Calls : WF_callVars(Caller(c))

-----------------------------------------------------------------------------
(* Properties.                                                             *)

\* No call makes two discussions, whichever request is late or whichever
\* reply is lost (client.rs: only a rejected position is tried again).
NeverTwice == \A c \in Calls : ~(first[c] = "created" /\ second[c] = "created")

\* The caller is told of a position only if the discussion is there.
OnceThere(c) ==
  IF first[c] = "created" THEN IF c \in Positioned THEN "line" ELSE "request"
  ELSE IF second[c] = "created" THEN "request" ELSE "none"

Once == INSTANCE CommentOnce
          WITH answer <- caller, comment <- [c \in Calls |-> OnceThere(c)]

\* Every call makes its comment at most once and in the place it tells, and
\* none after it has told of one (create_discussion and its blocking worker).
ImplementsCommentOnce == Once!Spec

\* Every call is answered, even if its worker never gets a thread (client.rs:
\* with_timeout_guard).
Answered == \A c \in Calls : caller[c] = "waiting" ~> caller[c] # "waiting"
=============================================================================
