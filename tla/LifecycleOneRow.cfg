\* One row, reused by rollbacks, with repeated POSTs: several jobs for one deployment.
SPECIFICATION Spec
CONSTANTS
  d1 = d1
  d2 = d2
  a1 = a1
  None = None
  Deployments = {d1}
  Applications = {a1}
  Readable = {d1}
  AppOf <- OneApp
  Origins = {"panel","api","webhook","selfheal","reuse"}
  Faults = {"crash","response","redis","callback"}
  MaxTries = 3
  MaxQueue = 1
  MaxInFlight = 1
INVARIANTS
  TypeOK
  RunningWasDeployed
  DeployingRowHasWorker
  ActiveRowHasOwner
  DeployingOwesVerdict
  NoDuplicateBuild
PROPERTIES
  
  ServiceIsKept
CHECK_DEADLOCK FALSE
