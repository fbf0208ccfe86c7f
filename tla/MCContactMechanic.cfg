SPECIFICATION ContactFair
CONSTANTS
  patient = patient
  wrong = wrong
  stray = stray
  greedy = greedy
  typo = typo
  Calls = {patient, wrong, stray, greedy, typo}
  ask <- MCAsk
  Threads = 2
  MaxRepeats = 2
INVARIANTS
  ContactInv
PROPERTY
  EveryCallEnds
CHECK_DEADLOCK FALSE
