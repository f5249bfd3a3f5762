SPECIFICATION FairSpec
CONSTANTS
  m1 = m1
  m2 = m2
  gateway = gateway
  nova = nova
  images = images
  ns1 = ns1
  novaKey = novaKey
  p1 = p1
  p2 = p2
  gw1 = gw1
  gw2 = gw2
  nova1 = nova1
  None = None
  Mons <- MCMons
  Clients <- MCClients
  HookClients = {gateway}
  Services = {novaKey}
  Pools <- MCPools
  Groups = {images}
  Namespaces = {}
  Requests <- MCRequests
  RequestsOf <- MCRequestsOf
  FirstRequest <- MCFirst
  FirstLeader = m2
  Ops <- MCOps
  MayFail = {"read", "caps", "return"}
  JujuLeader = m1
  HasMirror = TRUE
  HandoverWaits = TRUE
  MaxChanges = 1
  MaxElections = 0
  MaxCrashes = 1
  MaxFailures = 1
  MaxUpgrades = 1
  MaxDisturbances = 1
PROPERTIES
  RequestsAnswered
\* Once all is answered the system comes to rest.
CHECK_DEADLOCK FALSE
