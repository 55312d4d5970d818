SPECIFICATION FairPipelineSpec
CONSTANTS
  Workers = {w1}
  Messages <- TwoMessages
  BatchSize = 1
  MaxAttempts = 2
  Faults = {"publish", "late"}
  None = None
  Members = {c1, c2}
  ConsumerFaults = {"handler"}
  MaxFailures = 1
PROPERTY EffectExactlyOnce
