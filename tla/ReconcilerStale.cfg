SPECIFICATION Spec
CONSTANTS
  Apps = {a, b}
  InitiallyEnabled = {a}
  AssetApps = {a}
  SecretApps = {b}
  Clients = {c1}
  Kinds = {"enable"}
  MaxCommits = 3
  MaxDisturbances = 1
INVARIANTS
  ReadyIsHosted
CHECK_DEADLOCK FALSE
