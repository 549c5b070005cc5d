SPECIFICATION Spec
CONSTANTS
    pod = pod
    pod2 = pod2
    deployment = deployment
    cronjob = cronjob
    node = node
    Targets = {pod, pod2, deployment, cronjob, node}
    Kind <- MCKind
    None = None
    MaxLoads = 3
    MaxEdits = 2
    MaxSessions = 4
    MaxCards = 3
    Declarations <- MCDeclarations
    Debug <- MCDebug
    Data <- MCData
INVARIANT ReportedShown
