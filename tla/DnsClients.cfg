SPECIFICATION BesidesSpec
INVARIANTS FramedNeverRejected OneDeadlinePerQuery
PROPERTIES EveryQueryAnswered RevocationArrives UnusedForgotten
CONSTANTS
  Scripts <- MCScripts
  Header = 12
  MaxFrame = 4096
  TcpScripts <- MCTcpScripts
  ReadTime = 3
  local = local
  paid = paid
  new = new
  q1 = q1
  None = None
  Ids = {local, paid, new}
  ConfigClients <- MCConfig
  DefaultClient = None
  Queries = {q1}
  MaxEdits = 2
  IPs = {ip1, ip2}
  Domains = {d1, d2}
  AuthTTL = 1
  PanelTTLs = {1, 2}
  InactivityMs = 1
  DefaultInactivity = 2
CHECK_DEADLOCK FALSE
