SPECIFICATION FairSpec
CONSTANTS
  Graphs <- MCGraphs
  MaxNodes = 4
INVARIANTS RefusedIsCyclic SortNeverFails UpstreamFirst CanonicalOrder OnlyKnownBreaks
PROPERTIES EveryGraphEnds
CHECK_DEADLOCK FALSE
