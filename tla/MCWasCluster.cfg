SPECIFICATION FairSpec
CONSTANTS
  None = None
  ProviderName = "ResourcesProviderForJNDI"
  Servers <- MCServers
  ServerList <- MCServerList
  Scope <- MCScope
  Names <- MCNames
  Values <- MCValues
  FoundIn <- MCSame
  PrefixOf <- MCSame
  Calls <- MCCalls
  Installed <- MCInstalled
  MaxRuns = 2
  MaxFaults = 0
INVARIANTS TypeOK SavedRunIsComplete NoDuplicate ReferencesResolve
  JvmValuesAsDeclared
PROPERTIES LibraryOnRepeatedPlay ImplementsDeclaredCell ConflictMeansProgress
CHECK_DEADLOCK FALSE
