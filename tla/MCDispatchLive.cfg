SPECIFICATION Spec
CONSTANTS
  Deliveries = {d1, d2}
  Keys = {k1, k2}
  Tasks = {t1, t2}
  Rulesets <- MCFewRulesets
  NoRuleset = NoRuleset
  NoRun = NoRun
  ReviewPool = ReviewPool
PROPERTIES KeyFreed
