\* Two replicas: deployments that fail half way, scaled in between.
SPECIFICATION Spec
CONSTANTS
  MaxDeployments = 2
  MaxReplicas = 2
  Handlers = {h1}
  h1 = h1
  None = None
  Operations = {"deploy", "scale"}
  Faults = {"create", "unready", "callback"}

  
PROPERTIES
  OldVersionIsKept
CHECK_DEADLOCK FALSE
