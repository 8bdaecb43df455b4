----------------------------- MODULE MCDiscussion -----------------------------
(* A comment on a line and one on the merge request, under way together.   *)
EXTENDS Discussion

CONSTANTS onLine, onRequest

MCCalls == {onLine, onRequest}
MCPositioned == {onLine}
=============================================================================
