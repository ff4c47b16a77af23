SPECIFICATION Spec
CONSTANTS
  None = None
  ProviderName = "ResourcesProviderForJNDI"
  Servers <- MCServers
  ServerList <- MCServerList
  Scope <- MCScope
  Names <- MCNames
  Values <- MCValues
  FoundIn <- MCFoundIn
  PrefixOf <- MCPrefixOf
  Calls <- MCCalls
  Installed <- MCInstalled
  MaxRuns = 1
  MaxFaults = 1
INVARIANTS OnlySavedRuns
CHECK_DEADLOCK FALSE
