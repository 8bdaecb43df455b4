----------------------------- MODULE MCDispatch -----------------------------
EXTENDS Dispatch, TLC

\* A file that allows two reviews and one run of each task, and one that allows
\* one review (a configured 0 counts as 1) and two runs of each task.
MCRulesets ==
  {[ai |-> TRUE, maxReviews |-> 2, tasks |-> [t \in Tasks |-> 1]],
   [ai |-> TRUE, maxReviews |-> 0, tasks |-> [t \in Tasks |-> 2]]}

\* Two files, one of them with every task disabled.
MCFewRulesets ==
  {[ai |-> TRUE, maxReviews |-> 1, tasks |-> [t \in Tasks |-> 1]],
   [ai |-> TRUE, maxReviews |-> 2, tasks |-> [t \in Tasks |-> 0]]}

\* Deliveries, commits and tasks are interchangeable.
MCSymmetry ==
  Permutations(Deliveries) \cup Permutations(Keys) \cup Permutations(Tasks)
=============================================================================
