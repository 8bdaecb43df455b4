----------------------------- MODULE MCScriptRun -----------------------------
(* A script task with up to two findings: one that gets a comment of its   *)
(* own and one that does not is the least that tells the two apart.        *)
EXTENDS ScriptRun

MCMaxFindings == 2
=============================================================================
