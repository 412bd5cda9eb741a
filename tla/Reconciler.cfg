SPECIFICATION Spec
CONSTANTS
  Apps = {a, b}
  InitiallyEnabled = {a}
  AssetApps = {a}
  SecretApps = {b}
  Clients = {c1, c2}
  Kinds = {"enable", "disable", "delete"}
  MaxCommits = 3
  MaxDisturbances = 1
INVARIANTS
  PlanAgrees
PROPERTY AssetsKept
SYMMETRY AnyClient
CHECK_DEADLOCK FALSE
