SPECIFICATION Spec
CONSTANTS
    MaxJobs = 1
    MaxSteps = 2
    MaxApprovals = 2
    Commands = {c1,c2}
    NoCommand = NoCommand
    RunCap = 2
    Tasks = {t1}
    StepBudget = 1
    Calls = {k1,k2}
    MaxCalls = 2
    MaxKicks = 1
    MaxCrashes = 1
    TimeRunsOut = TRUE
    MaxRetries = 1
SYMMETRY Symmetries
INVARIANTS OnlyApprovedRuns DurableStepsStand
PROPERTIES DecisionsAreFinal RunsEnd
