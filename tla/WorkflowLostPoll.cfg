SPECIFICATION FairSpec
CONSTANTS
    main = main
    onSuccess = onSuccess
    onFailure = onFailure
    a = a
    b = b
    c = c
    s = s
    f = f
    e1 = e1
    e2 = e2
    None = None
    Roots = {main}
    Tasks = {a}
    Executors = {e1}
    RootOf <- SoloRootOf
    Previous <- SoloPrevious
    Parent <- SoloParent
    RootType <- SoloType
    Holding = {}
    NoRun = {}
    NoWait = {}
    FaultKinds = {}
    MaxFaults = 0
PROPERTIES
    WaitIsDeclared
CHECK_DEADLOCK FALSE
