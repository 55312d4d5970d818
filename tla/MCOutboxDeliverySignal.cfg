SPECIFICATION FairSpec
CONSTANTS
  Workers = {w1}
  Messages <- TwoMessages
  BatchSize = 2
  MaxAttempts = 2
  Faults = {"signal"}
  None = None
PROPERTIES CommittedEventIsDelivered
