SPECIFICATION FairSpec
CONSTANTS
  Files <- MCFiles
  Generated <- MCGenerated
INVARIANTS TypeOK ImportedFirst
PROPERTIES ExchangesDescend SortEnds
CHECK_DEADLOCK FALSE
