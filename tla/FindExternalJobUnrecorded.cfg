SPECIFICATION Spec
CONSTANTS
  N = 2
  Provider = {1, 2}
  Costly = {1, 2}
  Priced = {1, 2}
  Upstream <- Chain
  Answers <- Unanswered
  MaxAttempts = 2
  MaxDeliveries = 2
  MaxSubmits = 2
  MaxAborts = 0
  Slots = {t1}
  OperatorPolls = FALSE
INVARIANTS
  ExternalJobIsRecorded
CHECK_DEADLOCK FALSE
