SPECIFICATION Spec
CHECK_DEADLOCK FALSE
CONSTANTS
  Requests <- MCRequests
  None = None
  LineMax = 48
  HdrMax = 39
  HeadersMax = 4
  ChunkLineMax = 6
  MaxBody = 6
  SizeMax = 999
  DefaultPort = 80
INVARIANTS TypeOK RequestAsWritten ReadAsSent
PROPERTY HeadersAsWritten
