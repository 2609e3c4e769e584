SPECIFICATION Spec
CONSTANTS
  DescCount = 4
  MaxSegCount = 2
  Packets = {p1, p2, p3}
  NoPacket = NoPacket
  WildSlots <- LastSlot
SYMMETRY Interchangeable
INVARIANTS
  LastDescriptorMarked
