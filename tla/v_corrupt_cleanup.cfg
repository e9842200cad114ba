SPECIFICATION Spec
CONSTANTS
  None = None
  Corrupt = Corrupt
  Foreign = Foreign
  caValidity = 4
  serverValidity = 3
  RenewalThreshold = 1
  backdate = 0
  MaxTime = 4
  Proc = {p1}
  Entry = {"ProvisionMachine", "CleanupMachine"}
  Exclusive = {"ProvisionMachine", "CleanupMachine"}
  Faults = {"corruptCA"}
  MaxCalls = 2
  MaxFaults = 1
PROPERTIES
  CleanupLeavesNoAnchor
