CONSTANTS
    w1 = w1
    w2 = w2
    d = d
    port = port
    c1 = c1
    c2 = c2
    Sessions = {w1, w2, d}
    Ports = {port}
    Calls = {c1, c2}
    Mitmweb = {w1, w2}
    Saving = {w2}
    Port <- MCPort
    Passwords <- MCPasswords
    Matching <- MCMatching
    MaxFlows <- MCMaxFlows
    Asks <- MCAsks
SPECIFICATION Spec
INVARIANT TypeOK
INVARIANT AnswersFromOwnSession
INVARIANT PageIsWindow
PROPERTY CommandsReachOwnSession
PROPERTY CountIsOfAll
CHECK_DEADLOCK FALSE
