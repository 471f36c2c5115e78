SPECIFICATION Spec
CONSTANTS
  Requests <- MCRequests
  Builds <- AllBuilds
  Files <- MCFiles
  MaxEdits = 2
  HoldSize = 3
  SocketSize = 2
INVARIANTS TypeOK InPlace WholeIfKept
PROPERTIES EndsForCause Served
CHECK_DEADLOCK FALSE
