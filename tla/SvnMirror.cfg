SPECIFICATION Spec
CONSTANTS
  None = None
  Projects <- MCProjects
  Files <- MCFiles
  Similar <- MCSimilar
  HasGitignore <- MCHasGitignore
  MaxRevisions = 2
  MaxMade = 4
  MaxJobs = 2
INVARIANTS TypeOK RemoteIsHistory ConvertedStay ReportedNotCloned
PROPERTY ConversionKeepsRemote
CHECK_DEADLOCK FALSE
