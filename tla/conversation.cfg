SPECIFICATION Spec
CONSTANTS
    Threads = {t1, t2}
    NoThread = none
    Words = {w1}
    Empty = empty
    MaxOpen = 2
    MaxEvents = 1
    MaxFiles = 1
    MaxPending = 1
    MaxListings = 1
    Required = TRUE
    MaxFailures = 2
    Kept = {t1}
    MaxGestures = 3
    MaxCrashes = 1
INVARIANTS
    TypeOK
    SelectionAgrees
    HistoryIsActive
    DraftMirrorsText
    PlainSentOnce
    AppNeedsSession
PROPERTIES
    DraftSurvivesSwitch
    EchoSettles
CHECK_DEADLOCK FALSE
