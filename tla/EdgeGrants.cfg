SPECIFICATION FairGrants
CONSTANTS
  c1 = c1
  c2 = c2
  ip1 = ip1
  ip2 = ip2
  router = router
  Conns = {c1, c2}
  Client <- MCClient
  Router = router
  IPs = {ip1, ip2, router}
  Domains <- MCDomains
  Policies <- MCPolicies
  Asker <- MCAsker
  Types = {"A", "AAAA"}
  Named = {ip1}
  NoAddress = NoAddress
  AuthTTL = 1
  PanelTTLs = {1}
  InactivityMs <- MCInactivity
  DefaultInactivity = 2
INVARIANT MappedAreAllowed
PROPERTIES GrantedToAsker AcceptGoesOn
