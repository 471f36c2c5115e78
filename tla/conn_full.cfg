SPECIFICATION Spec
CONSTANTS
  Requests <- MCRequests
  MaxRequests = 2
  Targets <- MCTargets
  CgiRuns <- MCAllRuns
  FcgiReplies <- MCAllReplies
  ErrorPages = {"text", "file", "outside"}
  Timeouts = {"read"}
  MaxRedirs = 2
  NoRequest = NoRequest
INVARIANTS TypeOK NeverInsideBody BodyIsOwn CloseIsLast
