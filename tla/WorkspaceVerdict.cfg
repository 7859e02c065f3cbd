SPECIFICATION Spec
CONSTANTS
    Resources <- MCResources
    KindOf <- MCKindOf
    Forms <- MutualGroups
    Copies = 2
INVARIANTS
    AllSuccessfulAlone
CHECK_DEADLOCK FALSE
