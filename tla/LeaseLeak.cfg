CONSTANTS
    s1 = s1
    p1 = p1
    c1 = c1
    NoSession = NoSession
    Sessions = {s1}
    Ports = {p1}
    Calls = {c1}
    Disturbances <- Nothing
SPECIFICATION Spec
INVARIANT StopReleasesPorts
