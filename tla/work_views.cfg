SPECIFICATION Spec
CONSTANTS
    MaxJobs = 2
    MaxRows = 4
    Threads = {ta, tb}
    MaxLoads = 2
    MaxFaults = 1
    MaxGestures = 3
INVARIANTS
    TypeOK
    CloseWins
PROPERTIES
    PanelShowsOpened
    BenchConverges
    PanelFollows
    WaitingIsMarked
CHECK_DEADLOCK FALSE
