SPECIFICATION Spec
CONSTANTS
  Contents = {plain, other, rough}
  Publishable = {plain, other}
  Names = {v1, v2, v3}
  Owner = owner
  Users = {owner, manager}
  Managers = {manager}
  Slots = {t1, t2}
SYMMETRY Symmetry
INVARIANTS
  StatusTellsOffer
  VersionsInOrder
PROPERTIES
  VersionsOnlyRetire
  OfferIsReviewed
  ReviewIsOfOneContent
CHECK_DEADLOCK FALSE
