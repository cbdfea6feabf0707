\* Liveness of two deployments of one application, with failing writes of the verdict.
SPECIFICATION FairSpec
CONSTANTS
  d1 = d1
  d2 = d2
  a1 = a1
  None = None
  Deployments = {d1, d2}
  Applications = {a1}
  Readable = {d1}
  AppOf <- OneApp
  Origins = {"panel", "retry", "rollback"}
  Faults = {"db"}
  MaxTries = 3
  MaxQueue = 2
  MaxInFlight = 1
PROPERTIES
  QueueDrains
  DeployingEnds
CHECK_DEADLOCK FALSE
