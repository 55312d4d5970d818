SPECIFICATION FairLifecycle
CONSTANTS
  Workers = {w1}
  Messages <- TwoMessages
  BatchSize = 2
  MaxAttempts = 2
  Faults = {"publish", "database", "drain", "signal", "crash"}
  None = None
INVARIANTS
  ResourcesOutliveUsers
PROPERTIES
  StrandingHasCause
  BrokenReplicaExits
  EventsOutliveReplicas
