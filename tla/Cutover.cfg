SPECIFICATION Spec
CONSTANTS
    c1 = c1
    c2 = c2
    Callers = {c1, c2}
    Sessions = {"colleague"}
    Files = {2}
    Plans <- MCPlans
SYMMETRY Symmetry
CHECK_DEADLOCK FALSE
INVARIANT RecordTells
PROPERTY EachApprovalOnce
