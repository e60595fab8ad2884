SPECIFICATION Spec
CONSTANTS
  Unset = Unset
  None = None
  a = a
  b = b
  v = v
  w = w
  k1 = k1
  k2 = k2
  Values = {v, w}
  Names = {a, b}
  Keys = {k1, k2}
  ShowSecrets = FALSE
  Ids = {1, 2, 3}
  Kinds = {"role", "user", "settings_profile", "row_policy", "masking_policy", "database", "named_collection"}
  MaxChanges = 1
  MaxDrift = 2
  MaxFaults = 1
  Configurations <- MCConfigurations
CHECK_DEADLOCK FALSE
INVARIANTS
  TypeOK
  SuccessMeansApplied
  SurePlanApplies
  DriftSeen
PROPERTIES
  OnlyOwnEntity
  DroppedMeansGone
