SPECIFICATION FairSpec
CONSTANTS
  m1 = m1
  m2 = m2
  o1 = o1
  o2 = o2
  h1 = h1
  h2 = h2
  Monitors = {m1, m2}
  Rotators = {m1}
  OSDs = {o1, o2}
  Hosts = {h1}
  HostOf <- MCOneHost
  MaxRotations = 3
  MaxRefreshes = 1
  MaxSettings = 1
  MaxFaults = 1
INVARIANTS TypeOK KeysUsable
PROPERTIES RotationsFinish
CHECK_DEADLOCK FALSE
