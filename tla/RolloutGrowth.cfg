SPECIFICATION Spec
CONSTANTS
  a = a
  b = b
  c = c
  Nil = Nil
  LeadershipSettled = TRUE
  Units <- MCUnits2
  InitialUnits <- MCLate
  Rank <- MCRank2
  Configs = {"A", "U"}
  Unmanaged = {"U"}
  InitialConfig = "A"
  MaxChanges = 2
  MaxInputs = 1
  MaxCrashes = 0
  MaxElections = 0
  MaxDepartures = 1
  MaxFailures = 0
  MaxDisturbances = 2
INVARIANTS
  TurnOrder
  MarkerTruthful
  CompleteMeansApplied
\* All events are handled in the end: the system comes to rest.
CHECK_DEADLOCK FALSE
