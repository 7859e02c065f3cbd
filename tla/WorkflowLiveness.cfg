SPECIFICATION FairSpec
CONSTANTS
    main = main
    onSuccess = onSuccess
    onFailure = onFailure
    a = a
    b = b
    c = c
    s = s
    f = f
    e1 = e1
    e2 = e2
    None = None
    Roots = {main, onFailure}
    Tasks = {a, b, f}
    Executors = {e1}
    RootOf <- ChainRootOf
    Previous <- ChainPrevious
    Parent <- ChainParent
    RootType <- ChainTypeAny
    Holding = {onFailure}
    NoRun = {}
    NoWait = {f}
    FaultKinds = {}
    MaxFaults = 0
INVARIANTS
    Attended
PROPERTIES
    PollsLostOnlyLate
    EverythingElseSettles
CHECK_DEADLOCK FALSE
