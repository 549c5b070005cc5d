CONSTANTS
    ctxA = ctxA  ctxB = ctxB  selA = selA  selB = selB
    pods = pods  nodes = nodes  web = web  app = app  teamA = teamA
    Bad = Bad  None = None  Away = Away
    Lists <- MCLists
    Namespaced <- MCNamespaced
    Filters <- MCFilters
    Selectors <- MCSelectors
    Spaces <- MCSpaces
    MaxEntries = 2
    NoVersion = NoVersion
    Contexts <- MCContexts
    Selections <- MCOneSelection
    MaxPages = 2
    MaxLoads = 2
SPECIFICATION MCSpec
INVARIANT ClosedOnUnmount
