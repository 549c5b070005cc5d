SPECIFICATION Spec
CONSTANTS
    Contexts = {c1, c2}
    None = None
    Prefs = {0, 2}
    MinInterval = 1
    Horizon = 2
    MaxGen = 5
    MaxPolls = 2
    NodesInterval = 2
    Objects = {o1, o2}
    MaxScopes = 4
    MaxSamples = 2
    TTL = 1
    ScrapeAge = 0
    Namespaces = {n1, n2}
INVARIANTS OneChain OverviewTruthful SeriesBelong AxesTogether
PROPERTIES Cadence KeepsPolling
