SPECIFICATION Spec
CONSTANTS
    Threads = {t1}
    NoThread = none
    Kept = {t1}
    Words = {w1}
    Empty = empty
    MaxOpen = 2
    MaxEvents = 0
    MaxListings = 1
    MaxFiles = 1
    MaxPending = 2
    Required = FALSE
    MaxFailures = 1
    MaxGestures = 4
    MaxCrashes = 0
INVARIANT SentOnce
CHECK_DEADLOCK FALSE
