SPECIFICATION Spec
CONSTANTS
  None = None
  ProviderName = "ResourcesProviderForJNDI"
  Servers <- MCServers
  ServerList <- MCServerList
  Scope <- MCScope
  Names <- MCNames
  Values <- MCValues
  FoundIn <- Beginnings
  PrefixOf <- Beginnings
  Calls <- MCCalls
  Installed <- MCInstalled
  MaxRuns = 2
  MaxFaults = 0
INVARIANTS SavedRunIsComplete
CHECK_DEADLOCK FALSE
