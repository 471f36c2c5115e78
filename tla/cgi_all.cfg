SPECIFICATION Spec
CONSTANTS
  Jobs <- Jobs0
  Scripts <- MCScripts
  HeadLen = 2
  PipeSize = 2
  BufSize = 2
INVARIANTS TypeOK PageIsWhole BodyIsWhole OneAnswer
PROPERTIES Served
CHECK_DEADLOCK FALSE
