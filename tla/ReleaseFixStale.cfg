SPECIFICATION Spec
CONSTANTS
  Sessions = {s1, s2}
  Projects <- MCProjects
  Versions <- MCVersions
  EMPTY = "EMPTY"
  Null = Null
  Deployments <- MCDeployments
  Installed <- MCInstalled
  Populated <- UpToDate
  Transactional = TRUE
PROPERTIES ProductionAsPlanned
CHECK_DEADLOCK FALSE
