SPECIFICATION Spec
CONSTANTS
  Starters = {s1, s2}
  OldSchemas <- MCOldSchemas
  Runs = {"ai", "script"}
  Selected <- MCSelected
  Scripts = {"script"}
  Placements <- MCPlacements
  MaxFindings = 1
  ListLimit = 1
  RequestLimits = {1, 300}
SYMMETRY MCSymmetry
INVARIANTS CountsAgree PageWhole CoverageShownWhole MigrationHolds
PROPERTY ShownStatusSettles
CHECK_DEADLOCK FALSE
