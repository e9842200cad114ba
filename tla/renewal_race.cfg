SPECIFICATION Spec
CONSTANTS
  None = None
  Corrupt = Corrupt
  Foreign = Foreign
  caValidity = 4
  serverValidity = 3
  RenewalThreshold = 1
  backdate = 0
  MaxTime = 4
  Proc = {p1, p2}
  Entry = {"ProvisionMachine", "ReloadMachine", "LoadServingMaterial"}
  Exclusive = {"ProvisionMachine"}
  Faults = {"file", "openKey", "sign", "trust", "deleteKey", "crash"}
  MaxCalls = 5
  MaxFaults = 1
SYMMETRY Symmetry
INVARIANTS
  DiskCoherent
  NoOrphanAnchor
  FreshOnReturn
PROPERTIES
  ProvisionCompletes
