SPECIFICATION FairSpec
CONSTANTS
  Units = {u1, u2}
  Shares = {s1, s2}
  Clients = {c1, c2}
  Absent = Absent
  FirstId = 1000
  MaxActions = 3
  MaxMishaps = 1
  HandoverWaits = TRUE
INVARIANTS TypeOK Loadable AnnouncedIsServed
PROPERTIES CatalogueKept UnitsCatchUp
CHECK_DEADLOCK FALSE
