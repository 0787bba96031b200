SPECIFICATION Spec
CONSTANTS
  c1 = c1
  c2 = c2
  c3 = c3
  s1 = s1
  s2 = s2
  s3 = s3
  i1 = i1
  i2 = i2
  None = None
  Client = {c1, c2}
  SessionId = {i1}
  Session = {s1, s2}
  AcceptTimer = 1
  PingInterval = 0
  PingsUntilDisconnect = 2
  UserLifetime = 2
  MaxSent = 2
SYMMETRY Symmetry
INVARIANTS
  TypeOK
  MessagesKnown
  OneClient
PROPERTIES
  ImplementsLifecycle
CHECK_DEADLOCK FALSE
