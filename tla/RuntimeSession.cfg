SPECIFICATION FairSpec
CONSTANTS
  MaxPieces = 3
  DrainMax = 2
  Constrained = TRUE
INVARIANTS
  DeliveryIsExact
PROPERTY
  ImplementsStream
