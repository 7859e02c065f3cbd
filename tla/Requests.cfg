CONSTANTS
  Table <- MCTable
  Mapper <- MCMapper
  MaxTasks <- MCMaxTasks
SPECIFICATION Spec
INVARIANTS
  TasksAreKnown
  SuccessRunsAll
  RefusedLeavesNothing
PROPERTIES
  DeletedLast
  InputsAreReady
CHECK_DEADLOCK FALSE
