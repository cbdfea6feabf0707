\* A viewer and a job that may be tried twice, with every fault: what they have, and that streams end.
SPECIFICATION FairSpec
CONSTANTS
  Last = 3
  v1 = v1
  p1 = p1
  job = job
  Viewers = {v1}
  Pages = {}
  Listeners = {job}
  Origin = "panel"
  MaxTries = 2
  Faults = {"late", "leave", "timeout", "response"}
INVARIANTS
  TypeOK
  ViewerHasAll
  OneGap
  
PROPERTIES
  ViewerEnds
CHECK_DEADLOCK FALSE
