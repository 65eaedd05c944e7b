CONSTANTS
    s1 = s1
    s2 = s2
    p1 = p1
    p2 = p2
    c1 = c1
    c2 = c2
    NoSession = NoSession
    Sessions = {s1, s2}
    Ports = {p1, p2}
    Calls = {c1, c2}
    Disturbances <- Everything
SPECIFICATION Spec
SYMMETRY Interchangeable
INVARIANT TypeOK
INVARIANT LeaseExclusive
INVARIANT NoPortClash
INVARIANT LiveChildHoldsLease
INVARIANT VerdictIsReal
INVARIANT OkMeansGone
INVARIANT OrphansOnlyAfterShutdown
INVARIANT SweepMissesNothing
INVARIANT DirectoriesTracked
PROPERTY TerminalIsFinal
PROPERTY ImplementsPortLeases
