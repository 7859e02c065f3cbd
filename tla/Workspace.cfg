SPECIFICATION Spec
CONSTANTS
    Resources <- MCResources
    KindOf <- MCKindOf
    Forms <- MCForms
    Copies = 2
INVARIANTS
    ResourcesAreComposed
PROPERTIES
    VerdictIsSound
    StartsWhenDue
    WorkspaceSettles
CHECK_DEADLOCK FALSE
