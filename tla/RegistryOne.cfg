\* Every operator and every fault on one server, beside an agent that is not accepted.
SPECIFICATION FairSpec
CONSTANTS
  s1 = s1
  s2 = s2
  Servers = {s1, s2}
  Accepted = {s1}
  Managed = {s1}
  Operators = {"api", "panel"}
  Faults = {"lost", "db"}
  MaxLive = 1
  MaxUsages = 1
  None = None
INVARIANTS
  TypeOK
  
  StatusIsBacked
PROPERTIES
  SilentGoesOffline
  AgentComesOnline
  DeadGetsNothing
CHECK_DEADLOCK FALSE
