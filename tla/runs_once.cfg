SPECIFICATION Spec
CONSTANTS
    MaxJobs = 1
    MaxSteps = 1
    MaxApprovals = 1
    Commands = {c1}
    NoCommand = NoCommand
    RunCap = 2
    Tasks = {t1}
    StepBudget = 1
    Calls = {k1,k2}
    MaxCalls = 4
    MaxKicks = 1
    MaxCrashes = 0
    TimeRunsOut = FALSE
    MaxRetries = 0
INVARIANT RunsOnce
