\* Without its display the system stops: MapGPU may fail.
CHECK_DEADLOCK FALSE
SPECIFICATION LiveSpec
CONSTANTS
  RingLength = 204
  Backlog = 8
  Width = 64
  Height = 48
  FbWords = 4096
INVARIANTS
  GpuInStep
  ImageKept
  BuffersAgree
  StopHolds
PROPERTIES
  ScreenRefreshed
