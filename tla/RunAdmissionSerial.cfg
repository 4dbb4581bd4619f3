SPECIFICATION Spec
CONSTANTS
  cheap = cheap
  dear = dear
  Runs = {r1, r2, r3}
  Users = {u1, u2}
  Drafts = {cheap}
  Price <- Prices
  Count <- Counts
  Actuals = {0, 2}
  TopUps = {3}
  FreeModels = FALSE
  Budget = 9
  MaxActive = 2
  MaxActivePerUser = 1
  MaxJobs = 2
  DailyCap = 4
  DailyUserCap = 2
  MaxCredit = 3
  MaxDays = 0
  Slots = {t1}
SYMMETRY Symmetry
INVARIANTS
  ActiveRunsWithinLimits
PROPERTIES
  HonoursAccount
CHECK_DEADLOCK FALSE
