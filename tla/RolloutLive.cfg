SPECIFICATION FairSpec
CONSTANTS
  a = a
  b = b
  c = c
  Nil = Nil
  LeadershipSettled = TRUE
  Units <- MCUnits2
  InitialUnits <- MCUnits2
  Rank <- MCRank2
  Configs = {"A", "B"}
  Unmanaged = {}
  InitialConfig = "A"
  MaxChanges = 1
  MaxInputs = 0
  MaxCrashes = 1
  MaxElections = 1
  MaxDepartures = 0
  MaxFailures = 0
  MaxDisturbances = 2
PROPERTIES
  GenerationsFinish
  FirstRolloutCompletes
\* All events are handled in the end: the system comes to rest.
CHECK_DEADLOCK FALSE
