SPECIFICATION FairSpec
CONSTANTS
  s1 = s1
  s2 = s2
  Session = {s1, s2}
  Lobby = {1}
  NoLobby = NoLobby
  BotCounts = {0, 2}
  UserLifetime = 2
  LobbyLifetime = 2
  MinPlayers = 3
  MaxPlayers = 3
PROPERTIES
  LostSessionEnds
  DesertedLobbyEnds
CHECK_DEADLOCK FALSE
