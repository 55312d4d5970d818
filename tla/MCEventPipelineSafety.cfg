SPECIFICATION PipelineSpec
CONSTANTS
  Workers = {w1}
  Messages <- TwoMessages
  BatchSize = 2
  MaxAttempts = 2
  Faults = {"publish", "late"}
  None = None
  Members = {c1, c2}
  ConsumerFaults = {"handler", "rebalance", "crash"}
  MaxFailures = 1
SYMMETRY Symmetry
INVARIANTS
  PublishedIsNotLost
  OffsetSkipsNothing
  OneTransactionPerEvent
PROPERTY EffectAtMostOnce
