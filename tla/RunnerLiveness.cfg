CONSTANTS
    c1 = c1
    c2 = c2
    Calls = {c1, c2}
    Capacity = 1
    MaxLines = 1
    LongLines = FALSE
SPECIFICATION FairSpec
PROPERTY DeathIsNoticed
PROPERTY CallReturns
