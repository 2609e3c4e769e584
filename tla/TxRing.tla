------------------------------- MODULE TxRing -------------------------------
(***************************************************************************)
(* The transmit descriptor ring of XenonEthernet                           *)
(* (XenonEthernet_TransmitReceive.cpp, handleInterrupt of                  *)
(* XenonEthernet_HW.cpp) and the network controller that walks it.         *)
(*                                                                         *)
(* The driver side runs behind one workloop gate: outputPacket() is called *)
(* by an IOGatedOutputQueue and handleInterrupt() by an event source of    *)
(* the same workloop, so one pc is enough for both, and the two never      *)
(* overlap.  The controller reads and writes the descriptors and its       *)
(* registers between any two steps of the driver.  A step of the driver is *)
(* a run of stores that the controller cannot tell apart.                  *)
(*                                                                         *)
(* A segment's address and length are abstracted to the pair <<packet,     *)
(* segment number>>, and packetLength to the number of descriptors the     *)
(* controller has to walk to collect that many bytes.                      *)
(***************************************************************************)
EXTENDS Integers, FiniteSets

CONSTANTS
  DescCount,   \* kXenonEthernetTxDescCount, 256 in the driver
  MaxSegCount, \* kXenonEthernetTxMaxSegCount, 8 in the driver
  Packets,     \* the mbufs the stack transmits
  NoPacket,    \* the NULL mbuf
  WildSlots    \* descriptors sendTxPacket's uninitialised pointer may hit

Slots  == 0..(DescCount - 1)
NoSlot == DescCount            \* one past the ring: memory of someone else

ASSUME RingAssumption ==
  /\ DescCount \in Nat
  /\ MaxSegCount \in Nat \ {0}
  /\ MaxSegCount < DescCount
ASSUME PacketAssumption == NoPacket \notin Packets
ASSUME WildAssumption   == WildSlots \subseteq Slots

VARIABLES
  \* _txDesc, in memory shared with the controller, field by field
  owner,       \* the Owner flag
  endMark,     \* the End bit of the length
  span,        \* packetLength
  seg,         \* address and length
  \* _txDescStates
  packetOf, segsOf,
  readIndex,   \* _txReadIndex
  writeIndex,  \* _txWriteIndex
  held,        \* the mbufs the stack handed over and has not got back
  stalled,     \* the output queue was told kIOReturnOutputStall
  pc,          \* where the workloop is in the driver
  \* sendTxPacket's packet, its segmentCount, and the segments filled so far
  txPacket, txSegs, txDone,
  latched,     \* handleInterrupt's intStatus
  \* The controller: interrupt status register, whether it will look at its
  \* current descriptor, and its walk of the ring
  intStatus, polled, nicPc, nicPos, nicFirst, nicLeft

ringVars  == <<owner, endMark, span, seg>>
stateVars == <<packetOf, segsOf>>
txVars    == <<txPacket, txSegs, txDone>>
nicVars   == <<nicPc, nicPos, nicFirst, nicLeft>>
driverVars == <<stateVars, readIndex, writeIndex, held, stalled, pc, txVars,
                latched>>
vars == <<ringVars, stateVars, readIndex, writeIndex, held, stalled, pc,
          txVars, latched, intStatus, polled, nicVars>>

\* TX_NEXT applied count times.  TX_COUNT_MASK is a power of two less one, so
\* that masking is the remainder.
Advance(index, count) == (index + count) % DescCount
TX_USED(read, write) == (write - read) % DescCount
TX_FREE(read, write) == DescCount - TX_USED(read, write) - 1

\* Mutant: the room is checked for one descriptor only.
RoomForOne == TX_FREE(readIndex, writeIndex) >= 1
\* The minimum of descriptors sendTxPacket asks for.
Room == TX_FREE(readIndex, writeIndex) >= MaxSegCount

SegCounts == 0..MaxSegCount
Segments  == Packets \X (1..MaxSegCount)
NoSegment == <<NoPacket, 0>>
Causes    == {"TxDone", "RxDone"}

TypeOK ==
  /\ owner \in [Slots -> BOOLEAN]
  /\ endMark \in [Slots -> BOOLEAN]
  /\ span \in [Slots -> SegCounts]
  /\ seg \in [Slots -> Segments \cup {NoSegment}]
  /\ packetOf \in [Slots -> Packets \cup {NoPacket}]
  /\ segsOf \in [Slots -> SegCounts]
  /\ readIndex \in Slots
  /\ writeIndex \in Slots
  /\ held \subseteq Packets
  /\ stalled \in BOOLEAN
  /\ pc \in {"idle", "output", "fill", "handoff", "poll", "ack", "drain"}
  /\ txPacket \in Packets \cup {NoPacket}
  /\ txSegs \in SegCounts
  /\ txDone \in SegCounts
  /\ latched \subseteq Causes
  /\ intStatus \subseteq Causes
  /\ polled \in BOOLEAN
  /\ nicPc \in {"scan", "walk", "raise"}
  /\ nicPos \in Slots \cup {NoSlot}
  /\ nicFirst \in Slots
  /\ nicLeft \in SegCounts

(***************************************************************************)
(* bzero of the ring, the End mark of its last descriptor, and the         *)
(* controller pointed at the first one with transmission enabled.          *)
(***************************************************************************)
Init ==
  /\ owner = [s \in Slots |-> FALSE]
  /\ endMark = [s \in Slots |-> s = DescCount - 1]
  /\ span = [s \in Slots |-> 0]
  /\ seg = [s \in Slots |-> NoSegment]
  /\ packetOf = [s \in Slots |-> NoPacket]
  /\ segsOf = [s \in Slots |-> 0]
  /\ readIndex = 0 /\ writeIndex = 0
  /\ held = {} /\ stalled = FALSE
  /\ pc = "idle" /\ txPacket = NoPacket /\ txSegs = 0 /\ txDone = 0
  /\ latched = {} /\ intStatus = {} /\ polled = FALSE
  /\ nicPc = "scan" /\ nicPos = 0 /\ nicFirst = 0 /\ nicLeft = 0

-----------------------------------------------------------------------------
(* The driver: outputPacket and sendTxPacket                               *)

\* sendTxPacket returns.
Return == pc' = "idle" /\ txPacket' = NoPacket /\ txSegs' = 0 /\ txDone' = 0

\* The output queue passes its next mbuf, unless it waits for service().
OutputPacket(p) ==
  /\ pc = "idle" /\ ~stalled
  /\ p \notin held
  /\ held' = held \cup {p}
  /\ txPacket' = p
  /\ pc' = "output"
  /\ UNCHANGED <<ringVars, stateVars, readIndex, writeIndex, stalled, txSegs,
                 txDone, latched, intStatus, polled, nicVars>>

\* Mutant: the driver keeps the mbuf too.
KeptToo == held
LeftWithQueue == held \ {txPacket}

\* kIOReturnOutputStall: the queue keeps the mbuf and stops.
OutputStall ==
  /\ pc = "output" /\ ~Room
  /\ stalled' = TRUE
  /\ held' = LeftWithQueue
  /\ Return
  /\ UNCHANGED <<ringVars, stateVars, readIndex, writeIndex, latched,
                 intStatus, polled, nicVars>>

\* kIOReturnOutputDropped: the cursor found no segments, the mbuf is freed.
OutputDropped ==
  /\ pc = "output" /\ Room
  /\ held' = held \ {txPacket}
  /\ Return
  /\ UNCHANGED <<ringVars, stateVars, readIndex, writeIndex, stalled, latched,
                 intStatus, polled, nicVars>>

\* The first descriptor is filled, not yet owned by the controller.  Writing
\* its length erases the End mark the slot may have.
FillFirst(segs) ==
  /\ pc = "output" /\ Room
  /\ owner' = [owner EXCEPT ![writeIndex] = FALSE]
  /\ endMark' = [endMark EXCEPT ![writeIndex] = FALSE]
  /\ seg' = [seg EXCEPT ![writeIndex] = <<txPacket, 1>>]
  /\ txSegs' = segs /\ txDone' = 1
  /\ pc' = "fill"
  /\ UNCHANGED <<span, stateVars, readIndex, writeIndex, held, stalled,
                 txPacket, latched, intStatus, polled, nicVars>>

\* One pass of the loop over the remaining segments.
FillNext ==
  LET index == Advance(writeIndex, txDone) IN
  /\ pc = "fill" /\ txDone < txSegs
  /\ owner' = [owner EXCEPT ![index] = TRUE]
  /\ endMark' = [endMark EXCEPT ![index] = FALSE]
  /\ span' = [span EXCEPT ![index] = 0]
  /\ seg' = [seg EXCEPT ![index] = <<txPacket, txDone + 1>>]
  /\ txDone' = txDone + 1
  /\ UNCHANGED <<stateVars, readIndex, writeIndex, held, stalled, pc, txPacket,
                 txSegs, latched, intStatus, polled, nicVars>>

\* The descriptors that line 182 may set the End mark on: none unless the
\* packet starts in the last slot; then the last descriptor of the loop, or,
\* when the loop did not run, whatever the uninitialised pointer hits.
EndMarks ==
  IF writeIndex # DescCount - 1 THEN {{}}
  ELSE IF txSegs > 1 THEN {{Advance(writeIndex, txSegs - 1)}}
  ELSE {{}} \cup {{s} : s \in WildSlots}

\* The bookkeeping between the loop and the hand-off.
Record ==
  /\ pc = "fill" /\ txDone = txSegs
  /\ packetOf' = [packetOf EXCEPT ![writeIndex] = txPacket]
  /\ segsOf' = [segsOf EXCEPT ![writeIndex] = txSegs]
  /\ span' = [span EXCEPT ![writeIndex] = txSegs]
  /\ \E marks \in EndMarks :
       endMark' = [s \in Slots |-> endMark[s] \/ s \in marks]
  /\ writeIndex' = Advance(writeIndex, txSegs)
  /\ pc' = "handoff"
  /\ UNCHANGED <<owner, seg, readIndex, held, stalled, txVars, latched,
                 intStatus, polled, nicVars>>

\* The slot descStart points to, once _txWriteIndex has moved past the packet.
DescStart == (writeIndex - txSegs) % DescCount

HandOff ==
  /\ pc = "handoff"
  /\ owner' = [owner EXCEPT ![DescStart] = TRUE]
  /\ pc' = "poll"
  /\ UNCHANGED <<endMark, span, seg, stateVars, readIndex, writeIndex, held,
                 stalled, txVars, latched, intStatus, polled, nicVars>>

\* Mutant: the doorbell is not rung.
Unrung == polled
Rung == TRUE

\* kXenonEthernetRegTxControlPoll, and kIOReturnOutputSuccess.
Poll ==
  /\ pc = "poll"
  /\ polled' = Rung
  /\ Return
  /\ UNCHANGED <<ringVars, stateVars, readIndex, writeIndex, held, stalled,
                 latched, intStatus, nicVars>>

-----------------------------------------------------------------------------
(* The driver: handleInterrupt and handleTxInterrupt                       *)

ReadStatus ==
  /\ pc = "idle" /\ intStatus # {}
  /\ latched' = intStatus
  /\ pc' = "ack"
  /\ UNCHANGED <<ringVars, stateVars, readIndex, writeIndex, held, stalled,
                 txVars, intStatus, polled, nicVars>>

\* Writing the status back clears exactly the bits that were read.
AckStatus ==
  /\ pc = "ack"
  /\ intStatus' = intStatus \ latched
  /\ latched' = {}
  /\ pc' = IF "TxDone" \in latched THEN "drain" ELSE "idle"
  /\ UNCHANGED <<ringVars, stateVars, readIndex, writeIndex, held, stalled,
                 txVars, polled, nicVars>>

\* The descriptors of the oldest packet.
HeadSlots == {Advance(readIndex, i) : i \in 0..(segsOf[readIndex] - 1)}

\* Mutant: the Owner flag is not tested.
SentOrNot == TRUE
Sent == ~owner[readIndex]

\* One pass of the while loop: the oldest packet is done and is freed.
FreeSent ==
  /\ pc = "drain" /\ readIndex # writeIndex
  /\ Sent
  /\ held' = held \ {packetOf[readIndex]}
  /\ packetOf' = [packetOf EXCEPT ![readIndex] = NoPacket]
  /\ segsOf' = [segsOf EXCEPT ![readIndex] = 0]
  /\ owner' = [s \in Slots |-> owner[s] /\ s \notin HeadSlots]
  /\ readIndex' = Advance(readIndex, segsOf[readIndex])
  /\ UNCHANGED <<endMark, span, seg, writeIndex, stalled, pc, txVars, latched,
                 intStatus, polled, nicVars>>

\* Mutant: the queue is not serviced.
StillStalled == stalled
Serviced == FALSE

\* The loop ends, and the output queue may run again.
Service ==
  /\ pc = "drain"
  /\ readIndex = writeIndex \/ owner[readIndex]
  /\ stalled' = Serviced
  /\ pc' = "idle"
  /\ UNCHANGED <<ringVars, stateVars, readIndex, writeIndex, held, txVars,
                 latched, intStatus, polled, nicVars>>

-----------------------------------------------------------------------------
(* The controller, as the register comments and the driver's use describe  *)
(* it.  It steps to descriptor 0 after one with the End mark, and to the   *)
(* next in memory after any other: NoSlot is memory beyond the ring.       *)

NicFetch ==
  /\ nicPc = "scan" /\ polled
  /\ nicPos \in Slots /\ owner[nicPos]
  /\ nicPc' = "walk"
  /\ nicFirst' = nicPos
  /\ nicLeft' = IF span[nicPos] = 0 THEN 1 ELSE span[nicPos]
  /\ UNCHANGED <<ringVars, driverVars, intStatus, polled, nicPos>>

NicReadSegment ==
  /\ nicPc = "walk" /\ nicLeft > 0 /\ nicPos \in Slots
  /\ nicLeft' = nicLeft - 1
  /\ nicPos' = IF endMark[nicPos] THEN 0 ELSE nicPos + 1
  /\ UNCHANGED <<ringVars, driverVars, intStatus, polled, nicPc, nicFirst>>

\* Only the first descriptor of a packet is given back.
NicWriteBack ==
  /\ nicPc = "walk" /\ nicLeft = 0
  /\ owner' = [owner EXCEPT ![nicFirst] = FALSE]
  /\ nicPc' = "raise"
  /\ UNCHANGED <<endMark, span, seg, driverVars, intStatus, polled, nicPos,
                 nicFirst, nicLeft>>

NicRaise ==
  /\ nicPc = "raise"
  /\ intStatus' = intStatus \cup {"TxDone"}
  /\ nicPc' = "scan" /\ nicFirst' = 0
  /\ UNCHANGED <<ringVars, driverVars, polled, nicPos, nicLeft>>

NicSleep ==
  /\ nicPc = "scan" /\ polled
  /\ nicPos \in Slots /\ ~owner[nicPos]
  /\ polled' = FALSE
  /\ UNCHANGED <<ringVars, driverVars, intStatus, nicVars>>

\* An interrupt cause that is not about transmission.
NicOtherCause ==
  /\ intStatus' = intStatus \cup {"RxDone"}
  /\ UNCHANGED <<ringVars, driverVars, polled, nicVars>>

-----------------------------------------------------------------------------
Driver ==
  \/ \E p \in Packets : OutputPacket(p)
  \/ OutputStall
  \/ OutputDropped
  \/ \E segs \in 1..MaxSegCount : FillFirst(segs)
  \/ FillNext
  \/ Record
  \/ HandOff
  \/ Poll
  \/ ReadStatus
  \/ AckStatus
  \/ FreeSent
  \/ Service

Nic ==
  \/ NicFetch
  \/ NicReadSegment
  \/ NicWriteBack
  \/ NicRaise
  \/ NicSleep
  \/ NicOtherCause

Next == Driver \/ Nic

Spec == Init /\ [][Next]_vars

(***************************************************************************)
(* Fairness.  Code that was entered runs on.  The interrupt event source   *)
(* of a workloop that found the gate taken gets it in the end although     *)
(* outputPacket may be called again and again: strong fairness.  The       *)
(* controller keeps working.  Nothing makes the stack send.                *)
(***************************************************************************)
Running ==
  \/ OutputStall
  \/ OutputDropped
  \/ \E segs \in 1..MaxSegCount : FillFirst(segs)
  \/ FillNext
  \/ Record
  \/ HandOff
  \/ Poll
  \/ AckStatus
  \/ FreeSent
  \/ Service

NicRunning == NicFetch \/ NicReadSegment \/ NicWriteBack \/ NicRaise

LiveSpec == Spec /\ WF_vars(Running) /\ SF_vars(ReadStatus) /\ WF_vars(NicRunning)

-----------------------------------------------------------------------------
(* Properties                                                              *)

Used == TX_USED(readIndex, writeIndex)
Offset(s) == TX_USED(readIndex, s)
InUse(s) == Offset(s) < Used

\* The slots between the read and the write index are tiled by the segment
\* counts sendTxPacket recorded, one count at the first slot of each packet,
\* and no other slot has one.  handleTxInterrupt's walk relies on it: it
\* advances by these counts, so a zero or a misplaced one would make its while
\* loop spin forever or step over the write index.
ChainsTile ==
  /\ readIndex # writeIndex => segsOf[readIndex] > 0
  /\ \A s \in Slots : segsOf[s] > 0 =>
       /\ Offset(s) + segsOf[s] <= Used
       /\ Offset(s) + segsOf[s] < Used => segsOf[Advance(s, segsOf[s])] > 0
       /\ \A i \in 1..(segsOf[s] - 1) : segsOf[Advance(s, i)] = 0

\* Every mbuf the stack handed over is in exactly one place, in the hands of
\* sendTxPacket or in one slot of _txDescStates, on every path, the stall and
\* the drop included: none is leaked and none can be freed twice.
InHand == IF pc \in {"output", "fill"} THEN {txPacket} ELSE {}
InRing == {packetOf[s] : s \in Slots} \ {NoPacket}
MbufsConserved ==
  /\ held = InHand \cup InRing
  /\ InHand \cap InRing = {}
  /\ \A s, t \in Slots :
       packetOf[s] = packetOf[t] => s = t \/ packetOf[s] = NoPacket

\* The controller reads the segments of one recorded packet, in order, and the
\* driver still holds that packet's memory: never a half filled chain, never a
\* freed mbuf.
DmaReadsHeldPacket ==
  nicPc = "walk" /\ nicLeft > 0 /\ nicPos \in Slots =>
    /\ packetOf[nicFirst] \in held
    /\ seg[nicPos] = <<packetOf[nicFirst], segsOf[nicFirst] - nicLeft + 1>>

\* From the hand-off on, no step changes the segments, the packet length or
\* the End marks of a packet's descriptors until the controller gave the
\* first of them back ("the driver must not change it").
HandedOffFrozen ==
  [][\A s \in Slots : segsOf[s] > 0 /\ owner[s] =>
       \A i \in 0..(segsOf[s] - 1) :
         LET d == Advance(s, i) IN
         /\ seg'[d] = seg[d]
         /\ span'[d] = span[d]
         /\ endMark'[d] = endMark[d]]_vars

\* A stalled output queue is serviced in the end, unless the controller has
\* left the ring.
StallServiced == stalled ~> (~stalled \/ nicPos = NoSlot)

\* The driver gives every mbuf back in the end, unless the controller has left
\* the ring.
MbufReturned ==
  \A p \in Packets : p \in held ~> (p \notin held \/ nicPos = NoSlot)

(***************************************************************************)
(* The ring as a bounded FIFO: the packets in the ring, ordered by their   *)
(* distance from the read index; those with a cleared Owner flag were      *)
(* sent.  The packet of a hand-off under way is in, and not sent.          *)
(***************************************************************************)
HandingOff(s) == pc = "handoff" /\ s = DescStart

OrderInRing ==
  {pair \in InRing \X InRing :
     \E s, t \in Slots : /\ packetOf[s] = pair[1] /\ packetOf[t] = pair[2]
                         /\ Offset(s) < Offset(t)}
SentOfRing ==
  {p \in InRing :
     \E s \in Slots : packetOf[s] = p /\ ~owner[s] /\ ~HandingOff(s)}

Fifo == INSTANCE PacketFifo WITH queued <- InRing, before <- OrderInRing,
                                 sent <- SentOfRing,
                                 Capacity <- DescCount - MaxSegCount

\* The ring implements the FIFO: a step of the driver or of the controller is
\* an Accept, a Transmit or a Free of PacketFifo, or leaves it alone.
ImplementsFifo == Fifo!Spec

\* What the descriptor's comments say of the ring: the last descriptor has the
\* End mark whenever no packet is being written.
LastDescriptorMarked == pc = "idle" => endMark[DescCount - 1]
=============================================================================
