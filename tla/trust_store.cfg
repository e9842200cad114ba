SPECIFICATION Spec
CONSTANTS
  Proc = {p1, p2}
  production = production
  smoke = smoke
  unnamed = unnamed
  Cert = {production, smoke, unnamed}
  EmptyDER = EmptyDER
  cn <- MCcn
  subject <- MCsubject
  lower <- MClower
  MaxFaults = 1
SYMMETRY Symmetry
INVARIANTS
  TypeOK
  ContextsOwned
PROPERTIES
  ImplementsTrustStore
