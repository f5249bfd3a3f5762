SPECIFICATION FairSpec
CONSTANTS
  a = a
  b = b
  c = c
  Nil = Nil
  LeadershipSettled = TRUE
  Units <- MCUnits2
  InitialUnits <- MCUnits2
  Rank <- MCRank2
  Configs = {"A", "B"}
  Unmanaged = {}
  InitialConfig = "A"
  MaxChanges = 1
  MaxInputs = 0
  MaxCrashes = 0
  MaxElections = 0
  MaxDepartures = 0
  MaxFailures = 0
  MaxDisturbances = 1
PROPERTIES
  QueuedRequestsServed
\* All events are handled in the end: the system comes to rest.
CHECK_DEADLOCK FALSE
