------------------------------- MODULE RxRing -------------------------------
(***************************************************************************)
(* The receive descriptor ring of XenonEthernet (handleRxInterrupt of      *)
(* XenonEthernet_TransmitReceive.cpp, handleInterrupt of                   *)
(* XenonEthernet_HW.cpp), the network controller that fills its buffers,   *)
(* and the network stack that takes the received mbufs.                    *)
(*                                                                         *)
(* The driver runs on one workloop, one pc; the controller and the stack   *)
(* work between any two of its steps.  The content of an mbuf is the       *)
(* number of the frame in it, 0 for none, and its length follows from it.  *)
(* What the kernel makes of inputPacket(NULL) is outside the model: the    *)
(* driver stops there.                                                     *)
(*                                                                         *)
(* A controller that finds its next descriptor with the driver halts and   *)
(* raises RxHalt, which the driver unmasks, acknowledges and does nothing  *)
(* about.  Whether the controller looks at its descriptor again by itself  *)
(* the code does not tell: it may, and it may stay halted for ever, as     *)
(* src/README.md:84 has it (`receiving packets may stop working').         *)
(***************************************************************************)
EXTENDS Naturals, FiniteSets

CONSTANTS
  DescCount,   \* kXenonEthernetRxDescCount, 256 in the driver
  Mbufs,       \* all mbufs of the allocator
  NoMbuf,      \* NULL
  MaxFrames    \* bound: frames on the wire

Slots  == 0..(DescCount - 1)
NoSlot == DescCount            \* one past the ring: memory of someone else

ASSUME RingAssumption  == DescCount \in Nat \ {0} /\ MaxFrames \in Nat
ASSUME MbufAssumption  == NoMbuf \notin Mbufs /\ IsFiniteSet(Mbufs)

VARIABLES
  \* _rxDesc, shared with the controller: Owner flag, End bit, address
  owner, endMark, buf,
  rxPackets,    \* _rxPackets
  rxIndex,      \* _rxIndex
  allocated,    \* mbufs the allocator gave out
  inStack,      \* received mbufs that the stack has not freed
  content,      \* the frame in each mbuf
  pc,           \* where the workloop is in the driver
  packet, packetReceived,  \* handleRxInterrupt's
  scattered,    \* an mbuf was more than one segment: a descriptor was not set
  latched,      \* handleInterrupt's intStatus
  intStatus, nicPc, nicPos,  \* the controller
  arrived, delivered         \* frames it wrote, frames the stack was given

ringVars == <<owner, endMark, buf>>
memVars  == <<allocated, inStack, content>>
rxVars   == <<packet, packetReceived, scattered>>
nicVars  == <<nicPc, nicPos, arrived>>
driverVars == <<rxPackets, rxIndex, pc, rxVars, latched, delivered>>
vars == <<ringVars, driverVars, memVars, intStatus, nicVars>>

Causes == {"RxDone", "RxHalt", "TxDone"}

TypeOK ==
  /\ owner \in [Slots -> BOOLEAN] /\ endMark \in [Slots -> BOOLEAN]
  /\ buf \in [Slots -> Mbufs]
  /\ rxPackets \in [Slots -> Mbufs]
  /\ rxIndex \in Slots
  /\ allocated \subseteq Mbufs /\ inStack \subseteq Mbufs
  /\ content \in [Mbufs -> 0..MaxFrames]
  /\ pc \in {"idle", "ack", "test", "replace", "arm", "own", "input", "stopped"}
  /\ packet \in Mbufs \cup {NoMbuf} /\ packetReceived \in Mbufs \cup {NoMbuf}
  /\ scattered \in BOOLEAN
  /\ latched \subseteq Causes /\ intStatus \subseteq Causes
  /\ nicPc \in {"scan", "done", "raise", "halted"} /\ nicPos \in Slots \cup {NoSlot}
  /\ arrived \in 0..MaxFrames /\ delivered \in 0..MaxFrames

\* RX_COUNT_MASK is a power of two less one: masking is the remainder.
RX_NEXT(index) == (index + 1) % DescCount

\* initTransmitReceiveBuffers: an mbuf of its own in every descriptor.
Init ==
  /\ rxPackets \in [Slots -> Mbufs]
  /\ \A s, t \in Slots : rxPackets[s] = rxPackets[t] => s = t
  /\ buf = rxPackets
  /\ owner = [s \in Slots |-> TRUE]
  /\ endMark = [s \in Slots |-> s = DescCount - 1]
  /\ rxIndex = 0
  /\ allocated = {rxPackets[s] : s \in Slots}
  /\ inStack = {} /\ content = [m \in Mbufs |-> 0]
  /\ pc = "idle" /\ packet = NoMbuf /\ packetReceived = NoMbuf
  /\ scattered = FALSE
  /\ latched = {} /\ intStatus = {}
  /\ nicPc = "scan" /\ nicPos = 0
  /\ arrived = 0 /\ delivered = 0

-----------------------------------------------------------------------------
(* handleInterrupt                                                         *)

ReadStatus ==
  /\ pc = "idle" /\ intStatus # {}
  /\ latched' = intStatus
  /\ pc' = "ack"
  /\ UNCHANGED <<ringVars, rxPackets, rxIndex, rxVars, delivered, memVars,
                 intStatus, nicVars>>

\* Writing the status back clears exactly the bits that were read; RxHalt leads to
\* nothing else.
AckStatus ==
  /\ pc = "ack"
  /\ intStatus' = intStatus \ latched
  /\ latched' = {}
  /\ pc' = IF "RxDone" \in latched THEN "test" ELSE "idle"
  /\ UNCHANGED <<ringVars, rxPackets, rxIndex, rxVars, delivered, memVars, nicVars>>

-----------------------------------------------------------------------------
(* handleRxInterrupt                                                       *)

\* Mutant: the Owner flag is not tested.
FilledOrNot == TRUE
\* Mutant: one frame is handled per interrupt.
FilledFirst == ~owner[rxIndex] /\ packet = NoMbuf
Filled == ~owner[rxIndex]

\* The loop's test: the next descriptor is filled, or all are handled.
TestOwner ==
  /\ pc = "test"
  /\ pc' = IF Filled THEN "replace" ELSE "idle"
  /\ packet' = IF Filled THEN rxPackets[rxIndex] ELSE NoMbuf
  /\ packetReceived' = NoMbuf
  /\ UNCHANGED <<ringVars, rxPackets, rxIndex, scattered, latched, delivered, memVars,
                 intStatus, nicVars>>

\* Mutant: the replacement is not recorded.
Unrecorded(m) == rxPackets
Recorded(m) == [rxPackets EXCEPT ![rxIndex] = m]

\* replaceOrCopyPacket, a long frame: its mbuf goes to the stack and a fresh
\* one takes its place.
Replace ==
  /\ pc = "replace"
  /\ \E m \in Mbufs \ allocated :
       /\ allocated' = allocated \cup {m}
       /\ packet' = m
       /\ rxPackets' = Recorded(m)
  /\ packetReceived' = packet
  /\ pc' = "arm"
  /\ UNCHANGED <<ringVars, rxIndex, scattered, latched, delivered, inStack, content,
                 intStatus, nicVars>>

\* A short frame: it is copied, and its mbuf used again.
Copy ==
  /\ pc = "replace"
  /\ \E m \in Mbufs \ allocated :
       /\ allocated' = allocated \cup {m}
       /\ packetReceived' = m
       /\ content' = [content EXCEPT ![m] = content[packet]]
  /\ pc' = "arm"
  /\ UNCHANGED <<ringVars, rxPackets, rxIndex, packet, scattered, latched, delivered,
                 inStack, intStatus, nicVars>>

\* There is no mbuf: the frame is logged as lost, its mbuf used again.
NoneLeft ==
  /\ pc = "replace"
  /\ allocated = Mbufs
  /\ pc' = "arm"
  /\ UNCHANGED <<ringVars, rxPackets, rxIndex, rxVars, latched, delivered,
                 memVars, intStatus, nicVars>>

\* Mutant: the End mark is not restored.
LengthOnly == [endMark EXCEPT ![rxIndex] = FALSE]
LengthAndEnd == [endMark EXCEPT ![rxIndex] = (rxIndex = DescCount - 1)]

\* Mutant: the descriptor keeps the address of the received mbuf.
SameAddress == buf
Address == [buf EXCEPT ![rxIndex] = packet]

\* setRxDescriptorPacket: address and length; and the last descriptor's End.
Arm ==
  /\ pc = "arm"
  /\ buf' = Address
  /\ endMark' = LengthAndEnd
  /\ pc' = "own"
  /\ UNCHANGED <<owner, rxPackets, rxIndex, rxVars, latched, delivered, memVars,
                 intStatus, nicVars>>

\* setRxDescriptorPacket fails: the mbuf is freed, though _rxPackets keeps it,
\* and the descriptor keeps its old address.
ArmFailed ==
  /\ pc = "arm"
  /\ scattered' = TRUE
  /\ allocated' = allocated \ {packet}
  /\ packetReceived' = NoMbuf
  /\ endMark' = [endMark EXCEPT ![rxIndex] = (@ \/ rxIndex = DescCount - 1)]
  /\ pc' = "own"
  /\ UNCHANGED <<owner, buf, rxPackets, rxIndex, packet, latched, delivered,
                 inStack, content, intStatus, nicVars>>

\* The descriptor is the controller's again.
Own ==
  /\ pc = "own"
  /\ owner' = [owner EXCEPT ![rxIndex] = TRUE]
  /\ pc' = "input"
  /\ UNCHANGED <<endMark, buf, rxPackets, rxIndex, rxVars, latched, delivered,
                 memVars, intStatus, nicVars>>

\* inputPacket, and on to the next descriptor.
Input ==
  /\ pc = "input" /\ packetReceived # NoMbuf
  /\ inStack' = inStack \cup {packetReceived}
  /\ delivered' = content[packetReceived]
  /\ rxIndex' = RX_NEXT(rxIndex)
  /\ pc' = "test"
  /\ UNCHANGED <<ringVars, rxPackets, rxVars, latched, allocated, content,
                 intStatus, nicVars>>

\* inputPacket(NULL).
InputNull ==
  /\ pc = "input" /\ packetReceived = NoMbuf
  /\ pc' = "stopped"
  /\ UNCHANGED <<ringVars, rxPackets, rxIndex, rxVars, latched, delivered,
                 memVars, intStatus, nicVars>>

-----------------------------------------------------------------------------
(* The stack and the controller                                            *)

StackFree(m) ==
  /\ m \in inStack
  /\ inStack' = inStack \ {m}
  /\ allocated' = allocated \ {m}
  /\ UNCHANGED <<ringVars, driverVars, content, intStatus, nicVars>>

\* A frame is written to the buffer of the next descriptor.
NicReceive ==
  /\ nicPc = "scan" /\ nicPos \in Slots /\ owner[nicPos]
  /\ arrived < MaxFrames
  /\ arrived' = arrived + 1
  /\ content' = [content EXCEPT ![buf[nicPos]] = arrived + 1]
  /\ nicPc' = "done"
  /\ UNCHANGED <<ringVars, driverVars, allocated, inStack, intStatus, nicPos>>

\* The descriptor is the driver's.  After one with the End mark comes
\* descriptor 0, after any other the next in memory.
NicWriteBack ==
  /\ nicPc = "done"
  /\ owner' = [owner EXCEPT ![nicPos] = FALSE]
  /\ nicPos' = IF endMark[nicPos] THEN 0 ELSE nicPos + 1
  /\ nicPc' = "raise"
  /\ UNCHANGED <<endMark, buf, driverVars, memVars, intStatus, arrived>>

NicRaise ==
  /\ nicPc = "raise"
  /\ intStatus' = intStatus \cup {"RxDone"}
  /\ nicPc' = "scan"
  /\ UNCHANGED <<ringVars, driverVars, memVars, nicPos, arrived>>

\* A frame comes, and the next descriptor is the driver's: the frame is dropped.
NicHalt ==
  /\ nicPc = "scan" /\ nicPos \in Slots /\ ~owner[nicPos]
  /\ intStatus' = intStatus \cup {"RxHalt"}
  /\ nicPc' = "halted"
  /\ UNCHANGED <<ringVars, driverVars, memVars, nicPos, arrived>>

\* The controller looks again, and the descriptor is its own.
NicResume ==
  /\ nicPc = "halted" /\ owner[nicPos]
  /\ nicPc' = "scan"
  /\ UNCHANGED <<ringVars, driverVars, memVars, intStatus, nicPos, arrived>>

\* A cause that is not about reception.
NicOtherCause ==
  /\ intStatus' = intStatus \cup {"TxDone"}
  /\ UNCHANGED <<ringVars, driverVars, memVars, nicVars>>

-----------------------------------------------------------------------------
RxHandler ==
  \/ AckStatus
  \/ TestOwner
  \/ Replace
  \/ Copy
  \/ NoneLeft
  \/ Arm
  \/ ArmFailed
  \/ Own
  \/ Input
  \/ InputNull

Nic ==
  \/ NicReceive
  \/ NicWriteBack
  \/ NicRaise
  \/ NicHalt
  \/ NicResume
  \/ NicOtherCause

Next == ReadStatus \/ RxHandler \/ Nic \/ \E m \in Mbufs : StackFree(m)

Spec == Init /\ [][Next]_vars

\* The handler runs on once entered and is entered while a cause is up; the
\* controller finishes the frame it is at.  No frame has to come, a halted
\* controller never has to look again, and the stack has to free nothing.
LiveSpec ==
  /\ Spec
  /\ WF_vars(ReadStatus)
  /\ WF_vars(RxHandler)
  /\ WF_vars(NicWriteBack \/ NicRaise)

-----------------------------------------------------------------------------
(* Properties                                                              *)

InRing == {rxPackets[s] : s \in Slots}
InHand == IF pc \in {"arm", "own", "input"} THEN {packetReceived} \ {NoMbuf} ELSE {}

\* Every mbuf given out is in exactly one place: one slot of _rxPackets, the
\* hands of handleRxInterrupt, or the stack.  A failure of
\* setRxDescriptorPacket frees one that stays in the ring.
RxMbufsConserved ==
  ~scattered =>
    /\ allocated = InRing \cup InHand \cup inStack
    /\ InRing \cap InHand = {} /\ inStack \cap (InRing \cup InHand) = {}
    /\ \A s, t \in Slots : rxPackets[s] = rxPackets[t] => s = t

\* The controller only writes to an mbuf that the ring holds for that
\* descriptor: never to one that the stack has or that was freed.
DmaIntoHeldBuffer ==
  ~scattered => \A s \in Slots : owner[s] => buf[s] = rxPackets[s]

\* A descriptor the driver gives away carries the right End mark: the
\* controller neither leaves the ring nor goes back too early, although
\* setting the length erases the mark each time.
RingClosed == \A s \in Slots : owner[s] => (endMark[s] = (s = DescCount - 1))

\* The stack is given each frame once, in the order of arrival.
DeliveredInOrder ==
  pc = "input" /\ packetReceived # NoMbuf =>
    content[packetReceived] = delivered + 1

\* Every frame that the controller has written to a buffer reaches the stack, also
\* one whose RxDone the driver acknowledged before it looked, and a controller that
\* halted for want of a descriptor has it back: both unless memory runs out.  That
\* is the driver's part.  It is not that reception goes on: the frames that come
\* while the controller is halted are dropped, and nothing in handleInterrupt starts
\* it again if it does not do so by itself.
FrameDelivered ==
  /\ \A n \in 1..MaxFrames : arrived >= n ~> (delivered >= n \/ pc = "stopped")
  /\ nicPc = "halted" ~> (owner[nicPos] \/ pc = "stopped")
=============================================================================
