SPECIFICATION Spec
CONSTANTS
  Cases <- MCCases
  PerPage = 2
INVARIANTS
  EveryLineOnce
  BatchesFit
  CoverageHonest
  FindingsOnAddedLines
  ListedOrTold
