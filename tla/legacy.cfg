SPECIFICATION LiveSpec
CONSTANTS
  None = None
  Corrupt = Corrupt
  caValidity = 3
  serverValidity = 2
  RenewalThreshold = 1
  backdate = 0
  p1 = p1
  p2 = p2
  Proc <- MCProc
  Situation <- MCSituation
INVARIANTS
  TypeOK
  LegacyMaterialCoherent
  TornOnlyByRenewal
PROPERTIES
  CAPreserved
  AnchorsPersisted
  Recovers
