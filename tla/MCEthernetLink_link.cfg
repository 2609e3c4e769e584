SPECIFICATION LiveSpec
CONSTANTS
  Advertised <- AllMedia
  Supported <- ButTheSlowest
  MaxAddr = 2
  PhyAt = 1
  MaxHeld = 2
INVARIANTS
  LinkNotStale
PROPERTIES
  RingsBuiltOnce
  LinkReported
