SPECIFICATION Spec
CONSTANTS
  Units = {u1, u2}
  Endpoints = {nqn1}
  Hosts = {h1}
  Anyone = anyone
  Keys = {k1}
  KeyName = keyname
  NoKey = nokey
  Absent = absent
  None = None
  MaxActions = 3
  MaxDisturbances = 1
  MaxRenders = 1
INVARIANTS
  TypeOK
  ServedIsListed
  GuestsRecorded
PROPERTIES
  EndpointsComeBack
\* Operators may stop, and so does the system.
CHECK_DEADLOCK FALSE
