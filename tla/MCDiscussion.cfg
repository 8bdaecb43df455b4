SPECIFICATION CallSpec
CONSTANTS
  onLine = onLine
  onRequest = onRequest
  Calls <- MCCalls
  Positioned <- MCPositioned
INVARIANT NeverTwice
PROPERTIES ImplementsCommentOnce Answered
CHECK_DEADLOCK FALSE
