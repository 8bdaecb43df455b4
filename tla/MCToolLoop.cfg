SPECIFICATION Spec
CONSTANTS
  k1 = k1
  k2 = k2
  k3 = k3
  Lookups <- MCLookups
  Limits <- MCLimits
  Attempts = 2
  MinResult = 2
  MaxAsked = 3
SYMMETRY MCSymmetry
INVARIANTS
  BudgetsKept
  FollowUpsBounded
  ToolsCloseWhenSpent
  EvidenceCarried
  InstructionsStand
\* A conversation ends.
CHECK_DEADLOCK FALSE
