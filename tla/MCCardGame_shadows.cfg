CONSTANTS
  None = None
  Sheet <- CardSheet
  Deals <- ShadowDeals
SPECIFICATION Spec
INVARIANTS
  NothingDangling
  EngineSettles
