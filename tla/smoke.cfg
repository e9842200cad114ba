SPECIFICATION Spec
CONSTANTS
  None = None
  Corrupt = Corrupt
  Foreign = Foreign
  caValidity = 4
  serverValidity = 3
  RenewalThreshold = 1
  backdate = 0
  MaxTime = 4
  Proc = {p1}
  Entry = {"ProvisionWithKeyStore", "ProvisionSmoke", "CleanupSmoke"}
  Exclusive = {"ProvisionWithKeyStore", "ProvisionSmoke", "CleanupSmoke"}
  Faults = {"file", "openKey", "sign", "trust", "deleteKey", "crash", "stat", "setBack"}
  MaxCalls = 4
  MaxFaults = 2
INVARIANTS
  HandlesOwned
  FreshOnReturn
PROPERTIES
  CleanupVerdict
