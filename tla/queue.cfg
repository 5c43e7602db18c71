SPECIFICATION FairSpec
CONSTANTS
    MaxJobs = 2
    MaxSteps = 1
    MaxApprovals = 0
    Commands = {c1}
    NoCommand = NoCommand
    RunCap = 1
    Tasks = {t1,t2}
    StepBudget = 1
    Calls = {k1}
    MaxCalls = 0
    MaxKicks = 1
    MaxCrashes = 1
    TimeRunsOut = FALSE
    MaxRetries = 1
INVARIANTS OneJobUnlessResumed
PROPERTIES JobsSettle
