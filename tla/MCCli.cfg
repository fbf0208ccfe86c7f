SPECIFICATION Spec
CONSTANTS
  Fingerprints <- MCFingerprints
  rank <- MCrank
  threshold = 3
  NoEntry = no_entry
  Rules = {"sql", "jwt", "field"}
  SourceFiles = {"a", "b"}
  RoutePaths = {"/s", "/in"}
  ModelNames = {"In", "Out", "Other"}
  Lines = {1, 2, 3, 4, 6, 7, 8, 9}
  Targets = {"app", "safe"}
  Exposed <- MCExposed
  Sources = {"src"}
  TreeOf <- MCTreeOf
  Suites = {"suite", "typo"}
  SuiteTarget <- MCSuiteTarget
  NoName = ""
  Files = {"r", "q"}
  NoFile = no_file
  Commands <- MCCommands
  Registers <- MCRegisters
  Broken = broken
  Torn = torn
  MaxCommands = 3
  MaxDay = 1
INVARIANTS
  Inv
  ExitExplained
  ShownBefore
  Attributed
CHECK_DEADLOCK FALSE
