SPECIFICATION Spec
CONSTANTS
  cheap = cheap
  dear = dear
  Runs = {r1, r2}
  Users = {u1}
  Drafts = {dear}
  Price <- Prices
  Count <- Counts
  Actuals = {0, 2}
  TopUps = {4}
  FreeModels = FALSE
  Budget = 9
  MaxActive = 2
  MaxActivePerUser = 2
  MaxJobs = 2
  DailyCap = 6
  DailyUserCap = 0
  MaxCredit = 4
  MaxDays = 1
  Slots = {t1, t2}
SYMMETRY Symmetry
INVARIANTS
  HoldsMatchLedger
  RecentRunIsReused
CHECK_DEADLOCK FALSE
