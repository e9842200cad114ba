SPECIFICATION TypedSpec
CONSTANTS
  Proc <- MCProc
  who <- MCwho
  TestName = {"t1", "t2"}
  OtherName = {"production"}
  NoName = "no name"
  Cert <- MCCert
  Unreadable = "unreadable"
  Similar <- MCSimilar
  Char <- MCChar
  Space <- MCSpace
  Wide <- MCWide
  hex <- MChex
  Size = 2
  MaxLen = 6
  MaxRuns = 3
  MaxFaults = 1
INVARIANTS
  TypeOK
  NoUnnamedKey
  ReadsTheFingerprint
PROPERTIES
  NamespaceOnly
  VerdictsEarned
CHECK_DEADLOCK FALSE
