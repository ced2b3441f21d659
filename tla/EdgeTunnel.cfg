SPECIFICATION FairTunnelSpec
CONSTANTS
  Lists = {0, 2}
  ConnectTotal = 1
  ConnectTimeout = 1
  HandshakeIdle = 2
  ResolveTimeout = 1
  MaxRetries = 2
  RetryPause = 1
  Hellos <- MCHellos
  Sends = 4
  Proof = 2
  Replies = 3
INVARIANTS SearchBounded FirstHandshakeUncut StreamsIntact FinishedResponseWhole SocketsReleased
PROPERTY HandleEnds
CHECK_DEADLOCK FALSE
