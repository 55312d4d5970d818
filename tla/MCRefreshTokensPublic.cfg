SPECIFICATION Spec
CONSTANTS
  None = None
  Procs = {p1, p2}
  Tokens = {t1, t2, t3}
  MaxTime = 2
  IdleLifetime = 2
  SessionLifetime = 3
  FamilyLifetime = 3
  TokenLifetime = 3
  Confidential = FALSE
SYMMETRY Symmetry
INVARIANTS
  LockedFamilyIsCurrent
  SingleCurrentToken
  RotationChain
  ReuseRevokesAll
  TokenTimesWithinFamily
  CodeOpensOneSession
  EventsMatchRows
PROPERTIES
  FamilyIsAtomic
