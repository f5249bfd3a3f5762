SPECIFICATION Spec
CONSTANTS
  OSDs = {1, 2}
  Cpus = {1, 2, 3}
  Nodes <- MCNodes
  AnyNode = AnyNode
  CpusOf <- MCCpusOf
  Profiles <- MCProfiles
  StrictProfiles = {"performance"}
  Want <- MCWant
  Unmanaged = "unmanaged"
  Sticky = TRUE
  MaxFaults = 2
  MaxMoves = 2
  MaxForeign = 1
  MaxStarts = 1
INVARIANTS
  TypeOK
  ClaimsJournaled
  HandoffTruthful
  DownIsRemembered
  ForgottenIsClean
\* A unit whose stop hook succeeded is gone.
CHECK_DEADLOCK FALSE
