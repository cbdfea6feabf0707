\* A viewer against every loss: late or missing Echo, broken sockets and streams, skipped messages.
SPECIFICATION FairSpec
CONSTANTS
  Own <- OwnMessages
  Other <- OtherMessages
  Earlier <- OldLines
  Persisted <- LogLines
  Prefix <- FirstPart
  MaxAttempts = 1
  MaxCuts = 1
  Faults = {"socket", "stream", "refused", "early", "skip", "fetch"}
INVARIANTS
  TypeOK
  NothingHeld
  
  
  
PROPERTIES
  ViewerFinishes
CHECK_DEADLOCK FALSE
