SPECIFICATION Spec
CONSTANTS
    MaxJobs = 1
    MaxRows = 5
    Threads = {ta}
    MaxLoads = 1
    MaxFaults = 0
    MaxGestures = 3
PROPERTY OpenJobSettles
CHECK_DEADLOCK FALSE
