\* The ticker gets an active application back to its replicas.
SPECIFICATION FairSpec
CONSTANTS
  MaxDeployments = 2
  MaxReplicas = 1
  Handlers = {}
  h1 = h1
  None = None
  Operations = {"hook", "tick"}
  Faults = {"unready"}
PROPERTIES
  SickIsSwept
  SurplusIsRemoved
CHECK_DEADLOCK FALSE
