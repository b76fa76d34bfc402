SPECIFICATION Spec
CONSTANTS
  Offers <- MCOffers
  MaxNames = 4
  MaxGone = 1
INVARIANTS
  SurvivesRemoval
CHECK_DEADLOCK FALSE
