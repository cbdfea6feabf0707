\* A request of any kind against the worker; calls fail, contexts end, the process dies.
SPECIFICATION Spec
CONSTANTS
  MaxDeployments = 2
  MaxReplicas = 1
  Handlers = {h1}
  h1 = h1
  None = None
  Operations = {"hook", "stop", "stopOne", "restart", "delete"}
  Faults = {"agent", "db", "docker", "crash"}
INVARIANTS
  
  NoGhost

  
CHECK_DEADLOCK FALSE
