SPECIFICATION LiveSpec
CONSTANTS
  DescCount = 2
  Mbufs = {m1, m2, m3, m4}
  NoMbuf = NoMbuf
  MaxFrames = 4
CHECK_DEADLOCK FALSE
INVARIANTS
  RxMbufsConserved
  DmaIntoHeldBuffer
  RingClosed
  DeliveredInOrder
PROPERTIES
  FrameDelivered
