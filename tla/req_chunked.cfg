SPECIFICATION Spec
CHECK_DEADLOCK FALSE
CONSTANTS
  Requests <- ChunkedRequests
  None = None
  LineMax = 48
  HdrMax = 39
  HeadersMax = 4
  ChunkLineMax = 6
  MaxBody = 20
  SizeMax = 999
  DefaultPort = 80
INVARIANT ChunksAsSent
