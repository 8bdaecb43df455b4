SPECIFICATION Spec
CONSTANT MaxFindings <- MCMaxFindings
INVARIANTS
  RowsAgree
  CompletedTellsAll
  FindingsShown
  Truthful
  DirKept
PROPERTIES
  TaskEnds
