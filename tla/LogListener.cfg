\* The comment on the race in ListenDeploymentLogs.
SPECIFICATION Spec
CONSTANTS
  Last = 3
  v1 = v1
  p1 = p1
  job = job
  Viewers = {}
  Pages = {p1}
  Listeners = {job}
  Origin = "panel"
  MaxTries = 1
  Faults = {}
INVARIANTS
  ListenerHasAll
CHECK_DEADLOCK FALSE
