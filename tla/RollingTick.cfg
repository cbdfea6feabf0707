\* A deploying worker against the reconciling ticker, one replica; a user removes containers.
SPECIFICATION Spec
CONSTANTS
  MaxDeployments = 2
  MaxReplicas = 1
  Handlers = {h1}
  h1 = h1
  None = None
  Operations = {"deploy", "tick", "watch", "remove"}
  Faults = {}
INVARIANTS
  TypeOK
  
CHECK_DEADLOCK FALSE
