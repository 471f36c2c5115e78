SPECIFICATION Spec
CONSTANTS
  Flags <- MCFlags
  Extension <- MCExtension
  Starts <- MCStarts
  Lines <- FewLines
  MaxLines = 2
  Canonical <- MCCanonical
  Locked <- MCLocked
  Builtin <- MCBuiltin
  Defaults <- MCDefaults
  Old = Old
  Unset = Unset
  Requests <- MCRequests
INVARIANTS ChildFailureFails
CHECK_DEADLOCK FALSE
