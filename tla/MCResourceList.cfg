CONSTANTS
    ctxA = ctxA  ctxB = ctxB  selA = selA  selB = selB
    pods = pods  nodes = nodes  web = web  app = app  teamA = teamA
    Bad = Bad  None = None  Away = Away
    Lists <- MCLists
    Namespaced <- MCNamespaced
    Filters <- MCFilters
    Selectors <- MCSelectors
    Spaces <- MCSpaces
    MaxEntries = 2
    NoVersion = NoVersion
    Contexts <- MCContexts
    Selections <- MCSelections
    MaxPages = 2
    MaxLoads = 3
SYMMETRY MCSymmetry
SPECIFICATION MCSpec
CONSTRAINT NotOverwritten
INVARIANTS RowsBelong OneLiveWatch BadgeTruthful UrlTruthful
PROPERTY OwnWritesHarmless
