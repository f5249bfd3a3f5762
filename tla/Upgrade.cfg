SPECIFICATION FairSpec
CONSTANTS
  Last = 3
  Service = "mon"
  Skew <- MCSkew
  MaxSkew = 1
  StartWait = 30
  Wait = 30
  Compat = 10
  MaxKick = 5
  KickInterval = 3
  GatherWait = 10
  MaxStep = 1
  MaxRoll = 4
  MaxDelay = 1
  MaxCrashes = 1
  MaxRetries = 1
  MaxMisreads = 1
INVARIANTS
  TypeOK
PROPERTIES
  TakesTurns
  HooksEnd
