SPECIFICATION Spec
CONSTANTS
  Users = {"olga", "ann"}
  Owner = "olga"
  SystemManagers = {}
  Invited = {"ann"}
  Roles = {"OWNER", "VIEWER"}
  Members = {"m1", "m2"}
  Runs = {"r1"}
  Outputs <- MCOutputs
  Selections <- MCSelections
  Shares = {"s1", "s2"}
  RunStatuses = {"RUNNING", "CANCELLED", "SUCCEEDED"}
  Ended = {"CANCELLED", "SUCCEEDED"}
  Slots = {t1, t2}
INVARIANTS LinkShowsItsSelection
PROPERTIES SecondIsARace DisabledUntilAddedAgain NoSelfReinstatement ArchiveKeepsStatus
CHECK_DEADLOCK FALSE
SYMMETRY Symmetry
