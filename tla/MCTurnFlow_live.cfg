SPECIFICATION FairSpec
CONSTANTS
  Games <- LiveGames
  MaxHp = 1
  None = None
PROPERTIES
  TurnsPass
  EveryoneIsOnTurn
