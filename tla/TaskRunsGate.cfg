SPECIFICATION Spec
CONSTANTS
    t1 = t1
    r1 = r1
    r2 = r2
    t2 = t2
    Tasks <- TwoTasks
    Deps <- Chain
    RunIds = {r1, r2}
    Upset = {r1}
    MaxUpsets = 1
    Plans <- OneGate
    Requests <- Insist
INVARIANTS
    GatedRunsAreConfirmed
CHECK_DEADLOCK FALSE
