SPECIFICATION Spec
CONSTANTS
  Users = {"ann", "Administrator"}
  SystemManagers = {"Administrator"}
  Poller = "Administrator"
  Billing = {"ann"}
  Runners = {"ann"}
  Project = "p"
  Scopes <- MCScopes
  Providers = {"wavespeed"}
  Models <- MCModels
  Pricings <- MCPricings
  RequirePricing = TRUE
  Drafts <- MCDrafts
  MaxAccounts = 2
  MaxChanges = 1
  Slots = {t1, t2}
INVARIANTS JobAccountInScope JobsAsPreflighted
PROPERTIES DisorderIsARace
CHECK_DEADLOCK FALSE
SYMMETRY Symmetry
