CONSTANTS
  Table <- MCTable
  MaxRows = 2
  Items = 2
SPECIFICATION Spec
INVARIANTS
  TasksEndDeclared
  FailuresHaveCause
PROPERTIES
  VerdictsStand
  CreationsAreRecorded
  SuccessesAreReal
  DeletionsAreDone
  TasksAreLogged
  PollsSettle
CHECK_DEADLOCK FALSE
