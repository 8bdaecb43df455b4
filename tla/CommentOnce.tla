----------------------------- MODULE CommentOnce -----------------------------
(***************************************************************************)
(* What a call that makes a comment promises: at most one comment, on its  *)
(* line if it has one and GitLab takes it there, and an answer that is     *)
(* true.  A call that failed may still have its comment, even later.       *)
(***************************************************************************)
CONSTANTS
  Calls,
  Positioned    \* the calls for a comment on a line

VARIABLES
  answer,    \* what the caller was told
  comment    \* where the comment is

vars == <<answer, comment>>

Init ==
  /\ answer = [c \in Calls |-> "waiting"]
  /\ comment = [c \in Calls |-> "none"]

Appear(c) ==
  /\ comment[c] = "none" /\ answer[c] \in {"waiting", "failed"}
  /\ \/ c \in Positioned /\ comment' = [comment EXCEPT ![c] = "line"]
     \/ comment' = [comment EXCEPT ![c] = "request"]
  /\ UNCHANGED answer

\* What is told of a comment that is there.
Told(c) ==
  IF comment[c] = "line" THEN "inline"
  ELSE IF c \in Positioned THEN "merge_request_fallback" ELSE "merge_request"

Succeed(c) ==
  /\ answer[c] = "waiting" /\ comment[c] # "none"
  /\ answer' = [answer EXCEPT ![c] = Told(c)]
  /\ UNCHANGED comment

Fail(c) ==
  /\ answer[c] = "waiting"
  /\ answer' = [answer EXCEPT ![c] = "failed"]
  /\ UNCHANGED comment

Next == \E c \in Calls : Appear(c) \/ Succeed(c) \/ Fail(c)

Spec == Init /\ [][Next]_vars
=============================================================================
