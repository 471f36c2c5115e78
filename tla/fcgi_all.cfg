SPECIFICATION Spec
CONSTANTS
  Jobs <- MCJobs
  Apps <- MCApps
  HeadLen = 2
  EnvSize = 2
  RecordSize = 2
  SocketSize = 2
INVARIANTS TypeOK RequestIsWhole NothingLost
PROPERTIES Served
CHECK_DEADLOCK FALSE
