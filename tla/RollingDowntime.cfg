\* The comment on zero-downtime deployments, against the order of cleanup and route.
SPECIFICATION Spec
CONSTANTS
  MaxDeployments = 2
  MaxReplicas = 1
  Handlers = {}
  h1 = h1
  None = None
  Operations = {"deploy"}
  Faults = {}
PROPERTIES
  ZeroDowntime
CHECK_DEADLOCK FALSE
