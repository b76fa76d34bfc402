SPECIFICATION FairSpec
CONSTANTS
  Offers <- MCOffers
  MaxNames = 4
  MaxGone = 1
INVARIANTS
  TypeOK
  FindsWhatIsThere
PROPERTIES
  CreateEnds
CHECK_DEADLOCK FALSE
