CONSTANTS
    r1 = r1
    r2 = r2
    r3 = r3
    r4 = r4
    f1 = f1
    f2 = f2
    Requests = {r1, r2, r3, r4}
    Families = {f1, f2}
    Disturbances <- InTurn
SPECIFICATION Spec
INVARIANT TypeOK
INVARIANT RuleIdNamesRule
INVARIANT RulesStayInSession
PROPERTY ImplementsRuleStore
PROPERTY ClearAnswersTruly
SYMMETRY Interchangeable
CHECK_DEADLOCK FALSE
