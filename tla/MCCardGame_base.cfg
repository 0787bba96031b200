CONSTANTS
  None = None
  Sheet <- CardSheet
  Deals <- BaseDeals
SPECIFICATION Spec
INVARIANTS
  TypeOK
  ViewsAgree
  HitPointsAgree
  EffectsAgree
