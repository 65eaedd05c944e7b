CONSTANTS
    c1 = c1
    Calls = {c1}
    Capacity = 1
    MaxLines = 2
    LongLines = TRUE
SPECIFICATION FairSpec
PROPERTY ForcedStopReturns
