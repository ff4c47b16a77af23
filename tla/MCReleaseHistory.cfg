SPECIFICATION Spec
CONSTANTS
  Sessions = {s1}
  Projects <- MCProjects
  Versions <- MCVersions
  EMPTY = "EMPTY"
  Null = Null
  Deployments <- MCDeployments
  Installed <- MCInstalled
  Populated <- MCPopulated
  Transactional = FALSE
INVARIANTS TypeOK ReleasesAreMonths NothingBeyondNext
PROPERTIES ProductionAdvancesByMonths WaitingJoinNext HistoryKept HotFixInCurrent
CHECK_DEADLOCK FALSE
