SPECIFICATION Spec
CONSTANTS
  Offers <- MCOffers
  MaxNames = 4
  MaxGone = 1
INVARIANTS
  BindsAdvertised
CHECK_DEADLOCK FALSE
