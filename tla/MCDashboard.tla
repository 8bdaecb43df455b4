---------------------------- MODULE MCDashboard ----------------------------
(* Small instances of Dashboard: an AI run of two reviews and a run of a    *)
(* script task, of one merge request, of two, and of two projects.          *)
EXTENDS Dashboard

MCSelected == [ai |-> {"style", "security"}, script |-> {"lint"}]

Spot(p, m) == [project |-> p, mr |-> m]
MCPlacements ==
  {[ai |-> Spot(1, 1), script |-> s] : s \in {Spot(1, 1), Spot(1, 2), Spot(2, 1)}}

\* No database; one of a release without the added columns.
Legacy ==
  Of("review_requests", Created["review_requests"])
    \cup Of("review_task_runs", Created["review_task_runs"] \ ModeColumns)
    \cup Of("review_findings", {"row"})
    \cup Of("review_comment_records",
            Created["review_comment_records"] \ {"publish_position"})
MCOldSchemas == {{}, Legacy}

MCSymmetry == Permutations(Starters)
=============================================================================
