SPECIFICATION RecoverySpec
CONSTANTS
  None = None
  Corrupt = Corrupt
  Foreign = Foreign
  caValidity = 2
  serverValidity = 1
  RenewalThreshold = 0
  backdate = 0
  MaxTime = 2
  Proc = {p1, p2}
  Operator = p1
  FreeCalls = 2
  MaxFaultsInCompany = 1
  MaxTimeInCompany = 1
  Entry = {"ProvisionMachine", "CleanupMachine", "CleanupMachineBySHA256", "ReloadMachine"}
  Exclusive = {"ProvisionMachine", "CleanupMachine", "CleanupMachineBySHA256"}
  Faults = {"file", "openKey", "sign", "trust", "deleteKey", "stat", "crash", "loseCA", "loseServer", "loseCAKey", "loseServerKey", "corruptCA", "corruptServer", "swapCA", "swapServer", "dropAnchor", "addForeign", "setBack"}
  MaxCalls = 11
  MaxFaults = 2
PROPERTIES
  OperatorSucceeds
CHECK_DEADLOCK FALSE
