SPECIFICATION Spec
CONSTANTS
    main = main
    onSuccess = onSuccess
    onFailure = onFailure
    a = a
    b = b
    c = c
    s = s
    f = f
    e1 = e1
    e2 = e2
    None = None
    Roots = {main, onFailure}
    Tasks = {a, b, f}
    Executors = {e1}
    RootOf <- ChainRootOf
    Previous <- ChainPrevious
    Parent <- ChainParent
    RootType <- ChainType
    Holding = {onFailure}
    NoRun = {f}
    NoWait = {b}
    FaultKinds = {"worker_ready"}
    MaxFaults = 2
PROPERTIES
    ImplementsDag
CHECK_DEADLOCK FALSE
