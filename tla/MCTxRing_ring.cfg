SPECIFICATION LiveSpec
CONSTANTS
  DescCount = 4
  MaxSegCount = 2
  Packets = {p1, p2, p3}
  NoPacket = NoPacket
  WildSlots <- LastSlot
INVARIANTS
  ChainsTile
  MbufsConserved
  DmaReadsHeldPacket
PROPERTIES
  HandedOffFrozen
  ImplementsFifo
  StallServiced
  MbufReturned
