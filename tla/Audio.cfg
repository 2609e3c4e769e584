SPECIFICATION LiveSpec
CONSTANTS
  Part = 4
  MaxFrame = 3
INVARIANTS
  OneStampPerLap
  HeldToGrant
  ClipExact
  FrameInBuffer
PROPERTIES
  KeepsPlaying
