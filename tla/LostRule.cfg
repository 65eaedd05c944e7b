CONSTANTS
    r1 = r1
    r2 = r2
    f1 = f1
    Requests = {r1, r2}
    Families = {f1}
    Disturbances <- Overlapping
SPECIFICATION Spec
PROPERTY SetKeepsRules
CHECK_DEADLOCK FALSE
