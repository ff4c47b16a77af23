SPECIFICATION Spec
CONSTANTS
  i1 = i1
  i2 = i2
  c1 = c1
  c2 = c2
  c3 = c3
  Items <- MCItems
  ChangeSets <- MCChangeSets
  ItemOf <- MCItemOf
  Needs <- MCNeeds
  Mentions <- MCMentions
  InStaging <- MCInStaging
  InTarget <- MCInTarget
  MaxRuns = 2
INVARIANTS TypeOK StagingClosed RequestHonoured
PROPERTY DeliversHotfixesOnly
CHECK_DEADLOCK FALSE
