SPECIFICATION Spec
CONSTANTS
  grave = grave
  minor = minor
  Fingerprints <- MCFingerprints
  rank <- MCRank
  threshold = 3
  NoEntry = no_entry
  Expiries = {1, 2}
  MaxDay = 2
  MaxPushes = 3
INVARIANTS
  IInv
  NoNewGrave
  NoFalseAlarm
  GreenCarriesOver
CHECK_DEADLOCK FALSE
