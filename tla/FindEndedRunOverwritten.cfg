SPECIFICATION Spec
CONSTANTS
  N = 1
  Provider = {1}
  Costly = {1}
  Priced = {1}
  Upstream <- Chain
  Answers <- Documented
  MaxAttempts = 2
  MaxDeliveries = 2
  MaxSubmits = 2
  MaxAborts = 0
  Slots = {t1, t2}
  OperatorPolls = FALSE
PROPERTIES
  EndedRunIsFrozen
CHECK_DEADLOCK FALSE
