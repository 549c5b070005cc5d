CONSTANTS
    podA = podA  podB = podB  main = main
    None = None
    Pods <- MCPods
    Containers <- MCOneContainer
    Sources <- MCSources
    DefaultContainer = main
    Queries <- MCQueries
    MAX_LINES = 2
    RETRY_FIRST_MS = 1  RETRY_MAX_MS = 1  RETRY_RESET_MS = 1  Second = 1
    MaxLog = 3  MaxArrived = 4  MaxClock = 1  MaxStarts = 2  MaxGets = 2
SYMMETRY MCSymmetry
SPECIFICATION Spec
INVARIANTS TailIntact HitsShown RunningTruthful PickIsShown
PROPERTIES SelectionSticks
