SPECIFICATION Spec
CONSTANTS
  Requests <- MCServed
  MaxRequests = 3
  Targets = {"redirect", "rproxy", "fastcgi", "absent", "broken", "file", "cgi", "nph"}
  CgiRuns <- MCGoodRuns
  FcgiReplies <- MCGoodReplies
  ErrorPages = {"text"}
  Timeouts = {"read", "write"}
  MaxRedirs = 1
  NoRequest = NoRequest
INVARIANTS DelimitedWhenKept ErrorCloses CleanExit LogPaired
PROPERTIES ExchangeSpec ProcessEnds
