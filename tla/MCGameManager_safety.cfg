SPECIFICATION Spec
CONSTANTS
  s1 = s1
  s2 = s2
  s3 = s3
  Session = {s1, s2, s3}
  Lobby = {1}
  NoLobby = NoLobby
  BotCounts = {0}
  UserLifetime = 2
  LobbyLifetime = 1
  MinPlayers = 2
  MaxPlayers = 2
SYMMETRY SessionSymmetry
INVARIANTS
  TypeOK
  MembershipAgrees
  OneOwner
  SeatsAgree
PROPERTIES
  SeatKept
CHECK_DEADLOCK FALSE
