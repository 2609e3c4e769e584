SPECIFICATION Spec
CONSTANTS
  Readers = {r1, r2}
  Secondary = secondary
  Client = client
  Filter = filter
  Nobody = nobody
  MaxIn = 2
  MaxTime = 2
  CanTimeout = TRUE
  Spurious = TRUE
CHECK_DEADLOCK FALSE
SYMMETRY Interchangeable
INVARIANTS
  FilterNeverSpins
  RtcFresh
  SignalOnLiveSyncer
  FlagsHaveWork
