SPECIFICATION Spec
CONSTANTS
    MaxJobs = 1
    MaxSteps = 2
    MaxApprovals = 1
    Commands = {c1}
    NoCommand = NoCommand
    RunCap = 1
    Tasks = {t1,t2}
    StepBudget = 3
    Calls = {k1}
    MaxCalls = 1
    MaxKicks = 1
    MaxCrashes = 1
    TimeRunsOut = FALSE
    MaxRetries = 1
SYMMETRY Symmetries
INVARIANTS TypeOK LiveIsDriven LedgerLeadsCheckpoint
PROPERTIES CompletionIsEarned KeepsContract
