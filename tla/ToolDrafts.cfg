SPECIFICATION Spec
CONSTANTS
  Texts <- MCTexts
  Targets <- MCTargets
  Unsafe <- MCUnsafe
  LegacyKind <- MCLegacyKind
  Beside <- MCBeside
  Numerals <- MCNumerals
  AssetType <- MCAssetType
  Versions = {"v1"}
  Catalogs <- MCCatalogs
  Submissions <- MCSubmissions
  Drawings <- MCDrawings
  Workflows = {"w1", "w2"}
  Runs = {"r1"}
  Limit = 1
  Slots = {t1, t2}
INVARIANTS DraftFollowsForm RunCanBeRepeated
PROPERTIES UpdatedBeforeAnyRun CleanupSparesUsedDrafts
CHECK_DEADLOCK FALSE
SYMMETRY Symmetry
