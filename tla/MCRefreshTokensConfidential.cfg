SPECIFICATION FairSpec
CONSTANTS
  None = None
  Procs = {p1, p2}
  Tokens = {t1, t2}
  MaxTime = 2
  IdleLifetime = 2
  SessionLifetime = 3
  FamilyLifetime = 2
  TokenLifetime = 2
  Confidential = TRUE
INVARIANTS
  TokensWithinLifetimes
PROPERTIES
  SessionNeverRegresses
  RequestsFinish
