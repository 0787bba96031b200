CONSTANTS
  None = None
  Sheet <- CardSheet
  Deals <- ScenarioCardDeals
SPECIFICATION Spec
INVARIANTS
  EffectsAgree
  TurnLeavesNothing
