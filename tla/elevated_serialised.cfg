SPECIFICATION Spec
CONSTANTS
  None = None
  Corrupt = Corrupt
  Foreign = Foreign
  caValidity = 4
  serverValidity = 3
  RenewalThreshold = 1
  backdate = 0
  MaxTime = 4
  Proc = {p1, p2}
  Entry = {"ProvisionMachine", "ReloadMachine", "LoadServingMaterial", "CleanupMachine"}
  Exclusive = {"ProvisionMachine", "CleanupMachine"}
  Faults = {"file", "openKey", "sign", "trust", "deleteKey", "crash", "setBack"}
  MaxCalls = 4
  MaxFaults = 1
SYMMETRY Symmetry
INVARIANTS
  SerialInv
  MaterialCoherent
PROPERTIES
  CAIdentityPreserved
  AnchorHasCertificate
  CleanupVerdict
