SPECIFICATION Spec
CONSTANTS
  Games <- SafetyGames
  MaxHp = 1
  None = None
INVARIANTS
  TypeOK
  EliminatedOnce
  
  VictoryNoticed
  DeadHoldNothing
  GhostsInTurn
