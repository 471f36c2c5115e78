SPECIFICATION Spec
CHECK_DEADLOCK FALSE
CONSTANTS
  Pids = {1, 2}
  Ips = {"ip1", "ip2"}
  Stranger = "stranger"
  None = None
  Urls = {"u1", "u2", "u3"}
  Texts = {"t1", "t2"}
  Shown <- MCShown
  MaxHits = 2
INVARIANTS TypeOK HitsAreTrue ComplainsForCause
