------------------------------- MODULE PCIConfig -------------------------------
(***************************************************************************)
(* The configuration registers behind XenonPCI: one flat range of bytes,   *)
(* in which getConfigAddress gives every function of every bus a page, and *)
(* the accesses of 1, 2 and 4 bytes, least significant byte first.  Each   *)
(* access is made under _lock with interrupts disabled, so that it is one  *)
(* change of the memory.                                                   *)
(***************************************************************************)
EXTENDS Integers

Byte == 0 .. 255

\* firstBusNum, lastBusNum.
FirstBusNum == 0
LastBusNum  == 1

\* An IOPCIAddressSpace, and the offset of a register.
Space  == [busNum : FirstBusNum .. LastBusNum, deviceNum : 0 .. 31, functionNum : 0 .. 7]
Offset == Byte

\* Each field is shifted past the largest value of the one below it.
GetConfigAddress(space) ==
  (space.busNum * 256 + space.deviceNum * 8 + space.functionNum) * 4096

At(space, offset) == GetConfigAddress(space) + offset

\* The mapped range.
Memory == [Nat -> Byte]

-----------------------------------------------------------------------------
ConfigRead8(memory, space, offset) == memory[At(space, offset)]

ConfigRead16(memory, space, offset) ==
  memory[At(space, offset)] + 256 * memory[At(space, offset) + 1]

ConfigRead32(memory, space, offset) ==
  ConfigRead16(memory, space, offset)
    + 65536 * (memory[At(space, offset) + 2] + 256 * memory[At(space, offset) + 3])

ConfigWrite8(memory, space, offset, data) ==
  [memory EXCEPT ![At(space, offset)] = data]

ConfigWrite16(memory, space, offset, data) ==
  [memory EXCEPT ![At(space, offset)] = data % 256,
                 ![At(space, offset) + 1] = data \div 256]

ConfigWrite32(memory, space, offset, data) ==
  [memory EXCEPT ![At(space, offset)] = data % 256,
                 ![At(space, offset) + 1] = (data \div 256) % 256,
                 ![At(space, offset) + 2] = (data \div 65536) % 256,
                 ![At(space, offset) + 3] = (data \div 65536) \div 256]
=============================================================================
