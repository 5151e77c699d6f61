SPECIFICATION Spec
CONSTANTS
  Sockets = {s1, s2, s3}
  Ips = {a}
  SessionIds = {x}
  None = None
  MaxConnectionsPerIp = 3
  MaxNewConnections = 2
  MaxGlobalSessions = 2
INVARIANT HostReachable
CHECK_DEADLOCK FALSE
