SPECIFICATION Spec
CONSTANTS
    Instances = {1}
    Machines = {1}
    Greenlets = {1, 2}
    Scripts = {1}
    Stages = 2
    Retries = 1
    MaxCalls = 1
    None = None
INVARIANTS
    SuccessIsUploaded
PROPERTIES
    RowsGo
    DeletesWhenOver
CHECK_DEADLOCK FALSE
