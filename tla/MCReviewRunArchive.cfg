SPECIFICATION Safe
CONSTANTS
  Reviews = {style, security}
  NoReview = NoReview
  MaxFindings = 1
  MaxQueued = 1
SYMMETRY MCSymmetry
INVARIANT ArchiveFailureFailsRun
CHECK_DEADLOCK FALSE
