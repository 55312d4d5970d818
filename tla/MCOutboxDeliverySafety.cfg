SPECIFICATION Spec
CONSTANTS
  Workers = {w1, w2}
  Messages <- TwoMessages
  BatchSize = 2
  MaxAttempts = 2
  Faults = {"publish", "late", "database", "drain", "signal", "crash"}
  None = None
SYMMETRY Symmetry
INVARIANTS
  PublishedWasDelivered
  ClaimIsExclusive
  CopiesWithinAttempts
PROPERTY PublishedIsFinal
