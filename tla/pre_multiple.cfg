SPECIFICATION Spec
CHECK_DEADLOCK FALSE
CONSTANTS
  Files <- MCFiles
  Dirs <- MCDirs
  Names <- MCNames
  Missing = "missing"
  Cd <- MCCd
  Entry <- MCEntry
  Listing <- MCListing
  Top = "top"
  Main = "r"
  Contents <- MCContents
  Stale = {"a", "c"}
INVARIANT MultipleExpands
