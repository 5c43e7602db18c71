SPECIFICATION Spec
CONSTANTS
    MaxJobs = 1
    MaxSteps = 1
    MaxApprovals = 1
    Commands = {c1}
    NoCommand = NoCommand
    RunCap = 1
    Tasks = {t1}
    StepBudget = 1
    Calls = {k1}
    MaxCalls = 1
    MaxKicks = 1
    MaxCrashes = 0
    TimeRunsOut = FALSE
    MaxRetries = 0
INVARIANT DecisionWakesJob
