\* Two clients, two requests per window of three instants, two windows.
SPECIFICATION Spec
CONSTANTS
  ip1 = ip1
  ip2 = ip2
  IPs = {ip1, ip2}
  limit = 2
  window = 3
  MaxTime = 6
  None = None
SYMMETRY Symmetry
INVARIANTS
  TypeOK
  TwiceTheLimit
  RefusalIsEarned
  RetryIsServed
CHECK_DEADLOCK FALSE
