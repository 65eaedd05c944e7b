CONSTANTS
    s1 = s1
    p1 = p1
    c1 = c1
    c2 = c2
    NoSession = NoSession
    Sessions = {s1}
    Ports = {p1}
    Calls = {c1, c2}
    Disturbances <- Cancellation
SPECIFICATION FairSpec
INVARIANT NoOrphan
PROPERTY CallReturns
PROPERTY DeathIsReported
PROPERTY ShutdownClears
