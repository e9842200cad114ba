SPECIFICATION Spec
CONSTANTS
  None = None
  Corrupt = Corrupt
  Foreign = Foreign
  caValidity = 4
  serverValidity = 3
  RenewalThreshold = 1
  backdate = 0
  MaxTime = 4
  Proc = {p1}
  Entry = {"ProvisionMachine", "ReloadMachine", "LoadServingMaterial", "CleanupMachine", "CleanupMachineBySHA256"}
  Exclusive = {"ProvisionMachine", "CleanupMachine", "CleanupMachineBySHA256"}
  Faults = {"file", "openKey", "sign", "trust", "deleteKey", "crash", "loseCA", "loseServer", "loseCAKey", "loseServerKey", "corruptCA", "corruptServer", "swapCA", "swapServer", "dropAnchor", "addForeign", "setBack"}
  MaxCalls = 4
  MaxFaults = 2
INVARIANTS
  TypeInv
  HandlesOwned
  MaterialCoherent
PROPERTIES
  CAIdentityPreserved
  NoReplacementKey
  ProvisionCompletes
  CleanupVerdict
