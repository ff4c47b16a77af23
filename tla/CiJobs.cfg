SPECIFICATION FairSpec
CONSTANTS
  Items <- MCItems
  ChangeSets <- MCChangeSets
  ItemOf <- MCItemOf
  Needs <- MCNeeds
  Mentions <- MCMentions
  Begins <- MCBegins
  Accepted = {}
  Delivered = {"a1", "b1", "a2", "c1"}
  None = None
  MaxRuns = 2
  MaxFaults = 1
INVARIANTS TypeOK CompleteWorkItems NeverAcceptedTwice NoReentry ExitTellsAll
PROPERTIES JobEnds
CHECK_DEADLOCK FALSE
