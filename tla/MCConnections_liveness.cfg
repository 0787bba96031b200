SPECIFICATION FairSpec
CONSTANTS
  c1 = c1
  c2 = c2
  c3 = c3
  s1 = s1
  s2 = s2
  s3 = s3
  i1 = i1
  i2 = i2
  None = None
  Client = {c1, c2}
  SessionId = {i1}
  Session = {s1, s2}
  AcceptTimer = 1
  PingInterval = 1
  PingsUntilDisconnect = 2
  UserLifetime = 1
  MaxSent = 1
PROPERTIES
  HandshakeEnds
  SilentDropped
  InvalidRemoved
  StopCloses
CHECK_DEADLOCK FALSE
