SPECIFICATION Spec
CONSTANTS
    t1 = t1
    c1 = c1
    c2 = c2
    p1 = p1
    p2 = p2
    s1 = s1
    None = None
    Contacts = {c1, c2}
    Members = {c2}
    Scopes = {s1}
    Txns = {t1}
    Requests = {p1, p2}
    ConsentMode = "remember"
    TxnLifetime = 1
    ChallengeLifetime = 1
    MaxAttempts = 2
    LockDuration = 1
    MaxTime = 1
SYMMETRY Symmetry
CHECK_DEADLOCK FALSE
INVARIANTS
    CodesAccountedFor
    AuthenticatedIdentityIsActive
    AutomaticConsentWasGiven
PROPERTIES
    StepsNeverRegress
    VerificationLostByCause
    LockSurvivesLaterAttempts
