SPECIFICATION HousekeepingSpec
CONSTANTS
  v = v
  Tasks <- MCTasks
  Reviews <- MCReviews
  MaxStarts = 2
  Sizes = {1, 2, 4}
  MaxBytes = 3
  Keeps = {0, 1, 3}
  MaxMessages = 4
  Archives <- MCArchives
  Limit <- MCLimit
  Calls <- MCCalls
  Results <- MCResults
  ListMax = 2
  SearchMax = 3
  FileMax = 2
  ReadMax = 7
  LineMax = 2
  Minimal = 2
  Wrapper = 4
INVARIANTS
  WorkKept
  LogUnbroken
  UnpackedWithinLimits
  AnswersHonest
PROPERTIES
  LeftoversGo
\* Messages, starts, an archive and calls come to an end.
CHECK_DEADLOCK FALSE
