SPECIFICATION Spec
CONSTANTS
    main = main
    onSuccess = onSuccess
    onFailure = onFailure
    a = a
    b = b
    c = c
    s = s
    f = f
    e1 = e1
    e2 = e2
    None = None
    Roots = {main, onSuccess, onFailure}
    Tasks = {a, b, c, s, f}
    Executors = {e1, e2}
    RootOf <- JoinRootOf
    Previous <- JoinPrevious
    Parent <- JoinParent
    RootType <- JoinType
    Holding = {onSuccess}
    NoRun = {}
    NoWait = {s, f}
    FaultKinds = {}
    MaxFaults = 0
INVARIANTS
    TypeOK
    PredecessorsDone
    QuiescentWhenCompleted
    SuccessfulMeansAll
    FailedMeansSome
    CallbacksFollowVerdict
PROPERTIES
    ImplementsDag
    RunsOnce
    HeldUntilCallbacksFinish
    VerdictIsFinal
SYMMETRY CoreSymmetry
CHECK_DEADLOCK FALSE
