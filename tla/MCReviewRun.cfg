SPECIFICATION Spec
CONSTANTS
  Reviews = {style, security}
  NoReview = NoReview
  MaxFindings = 2
  MaxQueued = 2
INVARIANTS BooksBalance NothingLeftOpen FailureHasCause
PROPERTIES ImplementsLedger EndIsShownLast RunEnds
CHECK_DEADLOCK FALSE
