SPECIFICATION Spec
CONSTANTS
  Advertised <- AllMedia
  Supported <- ButTheSlowest
  MaxAddr = 2
  PhyAt = 1
  MaxHeld = 2
INVARIANTS
  EnableAgain
