SPECIFICATION Spec
CONSTANTS
  Items <- MCItems
  ChangeSets <- MCChangeSets
  ItemOf <- MCItemOf
  Needs <- MCNeeds
  Mentions <- MCMentions
  Begins <- MCBegins
  Accepted = {}
  Delivered = {"a1", "b1"}
  None = None
  MaxRuns = 2
  MaxFaults = 1
INVARIANTS AcceptedAreListed
CHECK_DEADLOCK FALSE
