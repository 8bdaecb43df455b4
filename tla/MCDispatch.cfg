SPECIFICATION Safe
CONSTANTS
  Deliveries = {d1, d2, d3}
  Keys = {k1, k2}
  Tasks = {t1}
  Rulesets <- MCRulesets
  NoRuleset = NoRuleset
  NoRun = NoRun
  ReviewPool = ReviewPool
SYMMETRY MCSymmetry
INVARIANTS RegistryExact LimitsHonoured
PROPERTIES RefusalJustified ImplementsSlotPool
