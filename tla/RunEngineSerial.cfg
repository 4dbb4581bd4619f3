SPECIFICATION FairSpec
CONSTANTS
  N = 3
  Provider = {1, 3}
  Costly = {1, 3}
  Priced = {1, 3}
  Upstream <- Chain
  Answers <- Anything
  MaxAttempts = 2
  MaxDeliveries = 2
  MaxSubmits = 2
  MaxAborts = 1
  Slots = {t1}
  OperatorPolls = TRUE
INVARIANTS
  LedgerRowsUnique
  ChargedForSuccess
  ActiveJobIsAwaited
  SucceededRunIsComplete
PROPERTIES
  EndedRunIsFrozen
  HonoursCreditContract
  ActiveJobResolves
  RunEnds
CHECK_DEADLOCK FALSE
