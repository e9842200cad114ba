SPECIFICATION Spec
CONSTANTS
  Writer = {w1, w2}
  Reader = {r1}
  Value = {v1, v2}
  Nothing = Nothing
  Faults = {"call", "crash", "power", "unlink"}
  MaxFiles = 3
  MaxFaults = 2
SYMMETRY Symmetry
INVARIANTS
  TypeOK
  TempIsPrivate
  TargetWhole
PROPERTIES
  NoLitter
  ImplementsAtomicFile
