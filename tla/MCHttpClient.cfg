SPECIFICATION FairSpec
CONSTANTS
  Hosts = {target, other}
  Private = {target}
  NoHost = none
  Allow = {target}
  Unsafe = FALSE
  Interval = 2
  Methods <- MCMethods
  Upper <- MCUpper
  NoRequest = no_request
  Boot = 1
  MaxNow = 8
  MaxSends = 4
INVARIANTS
  IInv
  DepartureRate
PROPERTY
  EveryCallReturns
CHECK_DEADLOCK TRUE
