SPECIFICATION Spec
CONSTANTS
    Keys = {k1, k2}
    Callers = {c1, c2}
    TTL = 1
    RefreshTimeout = 1
    RefreshCooldown = 1
    MaxTime = 2
SYMMETRY Symmetry
INVARIANTS
    WithdrawnKeysExpire
    PublishedKeysResolve
    SuccessSilencesFailures
CHECK_DEADLOCK FALSE
