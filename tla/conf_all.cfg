SPECIFICATION Spec
CONSTANTS
  Flags <- MCFlags
  Extension <- MCExtension
  Starts <- MCStarts
  Lines <- AllLines
  MaxLines = 5
  Canonical <- MCCanonical
  Locked <- MCLocked
  Builtin <- MCBuiltin
  Defaults <- MCDefaults
  Old = Old
  Unset = Unset
  Requests <- MCRequests
INVARIANTS TypeOK SaidHolds FoundAsSaid AtomicReplace
PROPERTIES SeenFailureStops
CHECK_DEADLOCK FALSE
