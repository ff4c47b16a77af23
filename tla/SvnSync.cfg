SPECIFICATION Spec
CONSTANTS
  None = None
  Projects <- MCProjects
  Files <- MCFiles
  Similar <- MCSimilar
  HasGitignore <- InnerHasGitignore
  MaxRevisions = 2
  MaxMade = 4
  MaxJobs = 2
INVARIANT SyncedIsPushed
CHECK_DEADLOCK FALSE
