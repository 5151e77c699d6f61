SPECIFICATION FairSpec
CONSTANTS
  Sockets = {s1, s2, s3}
  Ips = {a}
  SessionIds = {x}
  None = None
  MaxConnectionsPerIp = 3
  MaxNewConnections = 2
  MaxGlobalSessions = 2
INVARIANTS TypeOK CountsExact SlotsLive StatusTruthful
PROPERTIES SilentPeersGo EmptySessionsGo
CHECK_DEADLOCK FALSE
