SPECIFICATION PagesSpec
CONSTANTS
    MaxVersions = 3
    MaxCalls = 2
    MaxTexts = 2
    MaxRuns = 2
    MaxThreads = 2
    MaxActivity = 2
    PerRun = 1
    MaxWordings = 3
    Every = {e}
    OneShot = {o}
    MaxFires = 2
    MaxGestures = 2
    MaxPlan = 2
    StoryBudget = 2
    MaxRows = 6
    Days = 9
    Spans = {0, 1, 59, 60, 89, 90, 119, 120, 3599, 3600, 7199, 7200, 86399, 86400, 172800}
    Artifacts = {report, patch}
    MaxFetches = 2
    MaxBeats = 2
    ThreadsPerRun = 2
    MaxFaults = 1
INVARIANTS
    PagesTypeOK
    DraftIsInert
    ApprovedRuns
    PromptIsCurrent
    NothingUnread
    OneWording
    NoPileUp
    OneShotOnce
    
    TimesAreTold
    BeatsAreTold
PROPERTIES
    NothingLost
    SettledIsReflected
    DueIsServed
    DialogSettles
CHECK_DEADLOCK FALSE
