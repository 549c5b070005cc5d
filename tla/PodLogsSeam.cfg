CONSTANTS
    podA = podA  podB = podB  main = main
    None = None
    Pods <- MCOnePod
    Containers <- MCOneContainer
    Sources <- MCOneSource
    DefaultContainer = main
    Queries <- MCNoQueries
    MAX_LINES = 3
    RETRY_FIRST_MS = 2  RETRY_MAX_MS = 30  RETRY_RESET_MS = 20  Second = 2
    MaxLog = 2  MaxArrived = 2  MaxClock = 14  MaxStarts = 1  MaxGets = 1
SPECIFICATION Spec
INVARIANTS SeamCovered
CHECK_DEADLOCK FALSE
