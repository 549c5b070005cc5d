CONSTANTS
    a = a  b = b  None = None
    Contexts <- MCContexts
    TTL = 1
    Horizon = 1
    MaxLogins = 2
    MaxRequests = 1
SYMMETRY MCSymmetry
SPECIFICATION Spec
INVARIANTS CachesDieWithSession DetailOfActive
PROPERTIES OwnCauseOnly
