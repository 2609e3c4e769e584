---------------------------- MODULE RxRing_proofs ----------------------------
(***************************************************************************)
(* Theorems about the receive ring, for rings of any size and any number   *)
(* of mbufs and frames.                                                    *)
(***************************************************************************)
EXTENDS RxRing, Integers, TLAPS

\* From slot p round the ring to slot q.
Ahead(p, q) == IF q >= p THEN q - p ELSE q + DescCount - p

\* The controller stays in the ring, at a descriptor that is its own while it
\* writes to the buffer.
NicInRing == nicPos \in Slots /\ (nicPc = "done" => owner[nicPos])

EndMarks == \A s \in Slots : endMark[s] = (s = DescCount - 1)

\* The descriptor handleRxInterrupt is at is the driver's until it gives it away,
\* with the mbuf that _rxPackets has for it.
Handling ==
  /\ pc = "replace" => packetReceived = NoMbuf
  /\ pc \in {"replace", "arm", "own"} =>
       ~owner[rxIndex] /\ (~scattered => packet = rxPackets[rxIndex])
  /\ pc = "own" /\ ~scattered => buf[rxIndex] = packet

\* After a failure of setRxDescriptorPacket the driver gets to inputPacket(NULL).
FailureEnds ==
  scattered => pc \in {"own", "input", "stopped"} /\ packetReceived = NoMbuf

\* The oldest frame in the ring is in slot first, and was preceded by given
\* frames; filled slots hold frames.
first  == IF pc = "input" THEN RX_NEXT(rxIndex) ELSE rxIndex
given  == IF pc = "input" THEN delivered + 1 ELSE delivered
filled == arrived - given - (IF nicPc = "done" THEN 1 ELSE 0)

\* The filled slots follow each other from first on, the controller comes next, ...
FilledTile ==
  /\ filled \in 0 .. DescCount
  /\ \A s \in Slots : ~owner[s] <=> Ahead(first, s) < filled
  /\ Ahead(first, nicPos) = filled \/ (filled = DescCount /\ nicPos = first)

\* ... and the frames in them are in the order of arrival, which the one in the
\* hands of the driver precedes.
FramesInOrder ==
  /\ \A s \in Slots :
       Ahead(first, s) < filled /\ ~(s = rxIndex /\ pc \in {"arm", "own"})
         => content[rxPackets[s]] = given + 1 + Ahead(first, s)
  /\ nicPc = "done" => content[rxPackets[nicPos]] = arrived
  /\ pc \in {"arm", "own", "input"} /\ packetReceived # NoMbuf
       => content[packetReceived] = delivered + 1

Orderly == FilledTile /\ FramesInOrder

\* The inductive invariant.
IInv ==
  /\ TypeOK
  /\ NicInRing
  /\ EndMarks
  /\ Handling
  /\ FailureEnds
  /\ DmaIntoHeldBuffer
  /\ RxMbufsConserved
  /\ ~scattered /\ pc # "stopped" => Orderly

-----------------------------------------------------------------------------
(* The ring                                                                *)

LEMMA NextSlot ==
  ASSUME NEW s \in Slots
  PROVE  /\ RX_NEXT(s) = IF s = DescCount - 1 THEN 0 ELSE s + 1
         /\ RX_NEXT(s) \in Slots
<1>1. DescCount \in Nat /\ DescCount > 0 /\ s \in 0 .. DescCount - 1
  BY RingAssumption DEF Slots
<1>2. CASE s = DescCount - 1
  <2>1. DescCount % DescCount = 0  BY <1>1, SMT
  <2> QED  BY <1>1, <1>2, <2>1 DEF RX_NEXT, Slots
<1>3. CASE s # DescCount - 1
  <2>1. (s + 1) % DescCount = s + 1  BY <1>1, <1>3, SMT
  <2> QED  BY <1>1, <1>3, <2>1 DEF RX_NEXT, Slots
<1> QED  BY <1>2, <1>3

\* Distances from a slot tell slots apart; those from the next slot are one less.
LEMMA AheadOf ==
  ASSUME NEW p \in Slots, NEW s \in Slots
  PROVE  /\ Ahead(p, s) \in 0 .. DescCount - 1
         /\ (Ahead(p, s) = 0 <=> s = p)
         /\ \A t \in Slots : Ahead(p, s) = Ahead(p, t) => s = t
BY RingAssumption DEF Slots, Ahead

LEMMA AheadOfNext ==
  ASSUME NEW p \in Slots, NEW s \in Slots
  PROVE  /\ Ahead(RX_NEXT(p), s) =
              IF s = p THEN DescCount - 1 ELSE Ahead(p, s) - 1
         /\ Ahead(p, RX_NEXT(s)) =
              IF Ahead(p, s) = DescCount - 1 THEN 0 ELSE Ahead(p, s) + 1
BY RingAssumption, NextSlot DEF Slots, Ahead

-----------------------------------------------------------------------------
(* The beginning                                                           *)

LEMMA InitInv == Init => IInv
<1> SUFFICES ASSUME Init PROVE IInv
  OBVIOUS
<1> USE RingAssumption, MbufAssumption
<1>1. 0 \in Slots /\ Slots # {}  BY DEF Slots
<1>2. TypeOK
  <2>1. scattered \in BOOLEAN  BY Zenon DEF Init
  <2>2. owner \in [Slots -> BOOLEAN] /\ endMark \in [Slots -> BOOLEAN]  BY DEF Init
  <2>3. allocated \subseteq Mbufs  BY DEF Init
  <2>4. content \in [Mbufs -> 0 .. MaxFrames]  BY DEF Init
  <2> QED  BY <1>1, <2>1, <2>2, <2>3, <2>4 DEF Init, TypeOK
<1>3. NicInRing /\ EndMarks /\ Handling /\ FailureEnds
  BY <1>1 DEF Init, NicInRing, EndMarks, Handling, FailureEnds
<1>4. DmaIntoHeldBuffer /\ RxMbufsConserved
  BY DEF Init, DmaIntoHeldBuffer, RxMbufsConserved, InRing, InHand
<1>5. Orderly
  <2>1. first = 0 /\ given = 0 /\ filled = 0 /\ \A s \in Slots : Ahead(0, s) = s
    BY DEF Init, first, given, filled, Ahead, Slots
  <2> QED
    BY <1>1, <2>1 DEF Init, Orderly, FilledTile, FramesInOrder, Slots, Ahead
<1> QED  BY <1>2, <1>3, <1>4, <1>5 DEF IInv

-----------------------------------------------------------------------------
(* Descriptors and mbufs                                                   *)

\* All of the invariant but the order.
Sound ==
  /\ TypeOK
  /\ NicInRing
  /\ EndMarks
  /\ Handling
  /\ FailureEnds
  /\ DmaIntoHeldBuffer
  /\ RxMbufsConserved

LEMMA TypeStep == Sound /\ [Next]_vars => TypeOK'
<1> SUFFICES ASSUME Sound, [Next]_vars PROVE TypeOK'
  OBVIOUS
<1> USE RingAssumption, MbufAssumption
        DEF TypeOK, ringVars, memVars, rxVars, nicVars, driverVars, Causes
<1>0. TypeOK /\ NicInRing /\ EndMarks /\ Handling /\ FailureEnds  BY DEF Sound
<1>1. CASE ReadStatus  BY <1>0, <1>1 DEF ReadStatus
<1>2. CASE RxHandler
  <2>1. CASE AckStatus  BY <1>0, <2>1 DEF AckStatus
  <2>2. CASE TestOwner  BY <1>0, <2>2 DEF TestOwner
  <2>3. CASE Replace    BY <1>0, <2>3 DEF Replace, Recorded
  <2>4. CASE Copy
    <3>1. packet \in Mbufs  BY <1>0, <2>4 DEF Copy, Handling, FailureEnds
    <3> QED  BY <1>0, <2>4, <3>1 DEF Copy
  <2>5. CASE NoneLeft   BY <1>0, <2>5 DEF NoneLeft
  <2>6. CASE Arm
    <3>1. packet \in Mbufs  BY <1>0, <2>6 DEF Arm, Handling, FailureEnds
    <3>2. endMark' \in [Slots -> BOOLEAN]  BY <1>0, <2>6 DEF Arm, LengthAndEnd
    <3> QED  BY <1>0, <2>6, <3>1, <3>2 DEF Arm, Address
  <2>7. CASE ArmFailed  BY <1>0, <2>7 DEF ArmFailed
  <2>8. CASE Own        BY <1>0, <2>8 DEF Own
  <2>9. CASE Input      BY <1>0, <2>9, NextSlot DEF Input
  <2>10. CASE InputNull  BY <1>0, <2>10 DEF InputNull
  <2> QED  BY <1>2, <2>1, <2>2, <2>3, <2>4, <2>5, <2>6, <2>7, <2>8, <2>9, <2>10
           DEF RxHandler
<1>3. CASE Nic
  <2>1. CASE NicReceive    BY <1>0, <2>1 DEF NicReceive
  <2>2. CASE NicWriteBack
    <3>1. nicPos' \in Slots
      BY <1>0, <2>2 DEF NicWriteBack, EndMarks, NicInRing, Slots
    <3> QED  BY <1>0, <2>2, <3>1 DEF NicWriteBack
  <2>3. CASE NicRaise      BY <1>0, <2>3 DEF NicRaise
  <2>4. CASE NicHalt       BY <1>0, <2>4 DEF NicHalt
  <2>5. CASE NicResume     BY <1>0, <2>5 DEF NicResume
  <2>6. CASE NicOtherCause  BY <1>0, <2>6 DEF NicOtherCause
  <2> QED  BY <1>3, <2>1, <2>2, <2>3, <2>4, <2>5, <2>6 DEF Nic
<1>4. ASSUME NEW m \in Mbufs, StackFree(m)  PROVE TypeOK'
  BY <1>0, <1>4 DEF StackFree
<1>5. CASE UNCHANGED vars  BY <1>0, <1>5 DEF vars
<1> QED  BY <1>1, <1>2, <1>3, <1>4, <1>5 DEF Next

\* The flags and marks of the descriptors, and what the driver holds.
Descriptors == NicInRing /\ EndMarks /\ Handling /\ FailureEnds /\ DmaIntoHeldBuffer

LEMMA DescriptorStep == Sound /\ [Next]_vars => Descriptors'
<1> SUFFICES ASSUME Sound, [Next]_vars PROVE Descriptors'
  OBVIOUS
<1>0. Descriptors /\ TypeOK  BY DEF Sound, Descriptors
<1> USE <1>0, RingAssumption
        DEF Descriptors, NicInRing, EndMarks, Handling, FailureEnds, DmaIntoHeldBuffer,
            ringVars, memVars, rxVars, nicVars, driverVars
<1>1. CASE ReadStatus  BY <1>1 DEF ReadStatus
<1>2. CASE RxHandler
  <2>1. CASE AckStatus  BY <2>1 DEF AckStatus
  <2>2. CASE TestOwner  BY <2>2 DEF TestOwner, Filled
  <2>3. CASE Replace    BY <2>3 DEF Replace, Recorded, TypeOK
  <2>4. CASE Copy       BY <2>4 DEF Copy
  <2>5. CASE NoneLeft   BY <2>5 DEF NoneLeft
  <2>6. CASE Arm        BY <2>6 DEF Arm, Address, LengthAndEnd, TypeOK
  <2>7. CASE ArmFailed  BY <2>7 DEF ArmFailed, TypeOK
  <2>8. CASE Own        BY <2>8 DEF Own, TypeOK
  <2>9. CASE Input      BY <2>9 DEF Input
  <2>10. CASE InputNull  BY <2>10 DEF InputNull
  <2> QED  BY <1>2, <2>1, <2>2, <2>3, <2>4, <2>5, <2>6, <2>7, <2>8, <2>9, <2>10
           DEF RxHandler
<1>3. CASE Nic
  <2>1. CASE NicReceive    BY <2>1 DEF NicReceive
  <2>2. CASE NicWriteBack
    <3>1. nicPos' \in Slots
      BY <2>2 DEF NicWriteBack, Slots, TypeOK
    <3> QED  BY <2>2, <3>1 DEF NicWriteBack, TypeOK
  <2>3. CASE NicRaise      BY <2>3 DEF NicRaise
  <2>4. CASE NicHalt       BY <2>4 DEF NicHalt
  <2>5. CASE NicResume     BY <2>5 DEF NicResume
  <2>6. CASE NicOtherCause  BY <2>6 DEF NicOtherCause
  <2> QED  BY <1>3, <2>1, <2>2, <2>3, <2>4, <2>5, <2>6 DEF Nic
<1>4. ASSUME NEW m \in Mbufs, StackFree(m)  PROVE Descriptors'
  BY <1>4 DEF StackFree
<1>5. CASE UNCHANGED vars  BY <1>5 DEF vars
<1> QED  BY <1>1, <1>2, <1>3, <1>4, <1>5 DEF Next

LEMMA ConservedStep == Sound /\ [Next]_vars => RxMbufsConserved'
<1> SUFFICES ASSUME Sound, [Next]_vars PROVE RxMbufsConserved'
  OBVIOUS
<1>0. TypeOK /\ RxMbufsConserved /\ Handling /\ FailureEnds  BY DEF Sound
<1> USE <1>0, MbufAssumption
        DEF RxMbufsConserved, InRing, InHand, ringVars, memVars, rxVars, nicVars,
            driverVars
<1>1. CASE ReadStatus  BY <1>1 DEF ReadStatus
<1>2. CASE RxHandler
  <2>1. CASE AckStatus  BY <2>1 DEF AckStatus
  <2>2. CASE TestOwner  BY <2>2 DEF TestOwner
  <2>3. CASE Replace    BY <2>3 DEF Replace, Recorded, Handling, TypeOK
  <2>4. CASE Copy       BY <2>4 DEF Copy
  <2>5. CASE NoneLeft   BY <2>5 DEF NoneLeft, Handling
  <2>6. CASE Arm        BY <2>6 DEF Arm
  <2>7. CASE ArmFailed  BY <2>7 DEF ArmFailed
  <2>8. CASE Own        BY <2>8 DEF Own
  <2>9. CASE Input      BY <2>9 DEF Input
  <2>10. CASE InputNull  BY <2>10 DEF InputNull
  <2> QED  BY <1>2, <2>1, <2>2, <2>3, <2>4, <2>5, <2>6, <2>7, <2>8, <2>9, <2>10
           DEF RxHandler
<1>3. CASE Nic
  BY <1>3 DEF Nic, NicReceive, NicWriteBack, NicRaise, NicHalt, NicResume, NicOtherCause
<1>4. ASSUME NEW m \in Mbufs, StackFree(m)  PROVE RxMbufsConserved'
  BY <1>4 DEF StackFree
<1>5. CASE UNCHANGED vars  BY <1>5 DEF vars
<1> QED  BY <1>1, <1>2, <1>3, <1>4, <1>5 DEF Next

-----------------------------------------------------------------------------
(* The order of the frames                                                 *)

\* A step that neither fills, empties nor hands on a descriptor.
LEMMA SameOrder ==
  ASSUME Orderly, UNCHANGED <<owner, content, rxPackets, rxIndex, arrived, delivered,
                              nicPos, packetReceived>>,
         pc = "input" <=> pc' = "input", nicPc = "done" <=> nicPc' = "done",
         \/ pc \in {"arm", "own"} <=> pc' \in {"arm", "own"}
         \/ pc \notin {"arm", "own"} /\ packetReceived = NoMbuf
  PROVE  Orderly'
<1>1. first' = first /\ given' = given /\ filled' = filled
  BY DEF first, given, filled
<1>2. FilledTile'  BY <1>1 DEF Orderly, FilledTile, Ahead
<1>3. FramesInOrder'  BY <1>1 DEF Orderly, FramesInOrder, Ahead
<1> QED  BY <1>2, <1>3 DEF Orderly

\* A frame is on its way to the stack.
LEMMA TakeStep ==
  ASSUME Sound, Orderly, Replace \/ Copy
  PROVE  Orderly'
<1> USE DEF Sound, TypeOK, ringVars, memVars, rxVars, nicVars
<1>1. /\ pc = "replace" /\ pc' = "arm" /\ rxIndex \in Slots /\ ~owner[rxIndex] /\ ~scattered
      /\ UNCHANGED <<owner, rxIndex, arrived, delivered, nicPc, nicPos>>
      /\ packet = rxPackets[rxIndex]
  BY DEF Replace, Copy, Handling, FailureEnds
<1>2. first' = first /\ given' = given /\ filled' = filled /\ first = rxIndex /\ given = delivered
  BY <1>1 DEF first, given, filled
<1>3. FilledTile'  BY <1>1, <1>2 DEF Orderly, FilledTile, Ahead
<1>4. content[packet] = delivered + 1
  <2>1. Ahead(first, rxIndex) = 0  BY <1>1, <1>2, AheadOf
  <2> QED  BY <1>1, <1>2, <2>1 DEF Orderly, FilledTile, FramesInOrder
<1>5. nicPc = "done" => nicPos # rxIndex
  BY <1>1 DEF NicInRing
<1>6. \A s \in Slots \ {rxIndex} :
        rxPackets'[s] = rxPackets[s] /\ content'[rxPackets[s]] = content[rxPackets[s]]
  <2>1. CASE Replace  BY <2>1 DEF Replace, Recorded
  <2>2. CASE Copy
    <3>1. PICK m \in Mbufs \ allocated : content' = [content EXCEPT ![m] = content[packet]]
      BY <2>2 DEF Copy
    <3>2. \A s \in Slots : rxPackets[s] # m
      BY <1>1, <3>1 DEF RxMbufsConserved, InRing
    <3> QED  BY <2>2, <3>1, <3>2 DEF Copy
  <2> QED  BY <2>1, <2>2
<1>7. content'[packetReceived'] = delivered + 1
  <2>1. CASE Replace  BY <1>4, <2>1 DEF Replace
  <2>2. CASE Copy     BY <1>4, <2>2 DEF Copy
  <2> QED  BY <2>1, <2>2
<1>8. FramesInOrder'
  <2>1. ASSUME NEW s \in Slots, Ahead(first, s) < filled, s # rxIndex
        PROVE  content'[rxPackets'[s]] = given + 1 + Ahead(first, s)
    BY <1>1, <1>6, <2>1 DEF Orderly, FramesInOrder
  <2>2. nicPc = "done" => content'[rxPackets'[nicPos]] = arrived
    BY <1>5, <1>6 DEF Orderly, FramesInOrder, NicInRing
  <2> QED  BY <1>1, <1>2, <1>7, <2>1, <2>2 DEF FramesInOrder, Ahead
<1> QED  BY <1>3, <1>8 DEF Orderly

\* The descriptor is given away: the filled ones begin at the next.
LEMMA OwnStep ==
  ASSUME Sound, Orderly, Own
  PROVE  Orderly'
<1> USE DEF Sound, TypeOK, ringVars, memVars, rxVars, nicVars
<1> DEFINE next == RX_NEXT(rxIndex)
<1>1. /\ pc = "own" /\ pc' = "input" /\ rxIndex \in Slots /\ ~owner[rxIndex]
      /\ next \in Slots
      /\ UNCHANGED <<rxPackets, content, rxIndex, arrived, delivered, packetReceived, nicPc, nicPos>>
      /\ owner' = [owner EXCEPT ![rxIndex] = TRUE]
  BY NextSlot DEF Own, Handling
<1>2. /\ first = rxIndex /\ given = delivered /\ first' = next
      /\ given' = given + 1 /\ filled' = filled - 1
  <2>1. first = rxIndex /\ given = delivered /\ first' = next /\ given' = delivered + 1
    BY <1>1 DEF first, given
  <2> QED  BY <1>1, <2>1 DEF filled
<1>3. Ahead(rxIndex, rxIndex) = 0 /\ filled > 0
  BY <1>1, <1>2, AheadOf DEF Orderly, FilledTile
<1>4. \A s \in Slots : Ahead(next, s) =
        IF s = rxIndex THEN DescCount - 1 ELSE Ahead(rxIndex, s) - 1
  BY <1>1, AheadOfNext
<1>5. \A s \in Slots : Ahead(rxIndex, s) \in 0 .. DescCount - 1 /\ (Ahead(rxIndex, s) = 0 <=> s = rxIndex)
  BY <1>1, AheadOf
<1>6. DescCount \in Nat /\ DescCount > 0 /\ filled \in 0 .. DescCount
  BY RingAssumption DEF Orderly, FilledTile
<1>7. \A s \in Slots : Ahead(next, s) < filled - 1 <=> s # rxIndex /\ Ahead(rxIndex, s) < filled
  BY <1>3, <1>4, <1>5, <1>6
<1>8. FilledTile'
  <2>1. \A s \in Slots : ~owner'[s] <=> Ahead(next, s) < filled - 1
    BY <1>1, <1>2, <1>7 DEF Orderly, FilledTile
  <2>2. Ahead(next, nicPos) = filled - 1 \/ (filled - 1 = DescCount /\ nicPos = next)
    BY <1>2, <1>3, <1>4, <1>5, <1>6 DEF Orderly, FilledTile, NicInRing
  <2>3. filled - 1 \in 0 .. DescCount  BY <1>3, <1>6
  <2> QED  BY <1>1, <1>2, <2>1, <2>2, <2>3 DEF FilledTile, Ahead
<1>9. FramesInOrder'
  <2>1. ASSUME NEW s \in Slots, Ahead(next, s) < filled - 1
        PROVE  content[rxPackets[s]] = given + 1 + 1 + Ahead(next, s)
    <3>1. s # rxIndex /\ Ahead(rxIndex, s) < filled  BY <1>7, <2>1
    <3>2. content[rxPackets[s]] = given + 1 + Ahead(rxIndex, s)
      BY <1>2, <3>1 DEF Orderly, FramesInOrder
    <3>3. given \in Nat  BY <1>2
    <3> QED  BY <1>4, <1>5, <3>1, <3>2, <3>3
  <2>2. /\ nicPc = "done" => content[rxPackets[nicPos]] = arrived
        /\ packetReceived # NoMbuf => content[packetReceived] = delivered + 1
    BY <1>1 DEF Orderly, FramesInOrder
  <2> QED  BY <1>1, <1>2, <2>1, <2>2 DEF FramesInOrder, Ahead
<1> QED  BY <1>8, <1>9 DEF Orderly

\* The stack is given the oldest frame.
LEMMA InputStep ==
  ASSUME Sound, Orderly, Input
  PROVE  Orderly'
<1>1. /\ pc = "input" /\ pc' = "test" /\ packetReceived # NoMbuf
      /\ rxIndex' = RX_NEXT(rxIndex) /\ delivered' = content[packetReceived]
      /\ UNCHANGED <<owner, rxPackets, content, arrived, nicPc, nicPos>>
  BY DEF Input, ringVars, nicVars
<1>2. delivered' = delivered + 1  BY <1>1 DEF Orderly, FramesInOrder
<1>3. first' = first /\ given' = given /\ filled' = filled
  BY <1>1, <1>2 DEF first, given, filled
<1>4. FilledTile'  BY <1>1, <1>3 DEF Orderly, FilledTile, Ahead
<1>5. FramesInOrder'  BY <1>1, <1>3 DEF Orderly, FramesInOrder, Ahead
<1> QED  BY <1>4, <1>5 DEF Orderly

\* The controller writes a frame to a buffer that no other frame is in.
LEMMA ReceiveStep ==
  ASSUME Sound, Orderly, ~scattered, NicReceive
  PROVE  Orderly'
<1> USE DEF Sound, TypeOK
<1> DEFINE m == rxPackets[nicPos]
<1>1. /\ nicPos \in Slots /\ owner[nicPos] /\ nicPc = "scan" /\ nicPc' = "done"
      /\ arrived \in Nat /\ arrived' = arrived + 1
      /\ m \in Mbufs /\ content' = [content EXCEPT ![m] = arrived + 1]
      /\ UNCHANGED <<owner, rxPackets, rxIndex, pc, delivered, packetReceived, nicPos>>
  <2>1. nicPos \in Slots /\ owner[nicPos] /\ buf[nicPos] = m /\ m \in Mbufs
    BY DEF NicReceive, DmaIntoHeldBuffer
  <2> QED  BY <2>1 DEF NicReceive, ringVars, driverVars, rxVars
<1>2. first' = first /\ given' = given /\ filled' = filled
  <2>1. first' = first /\ given' = given /\ given \in Nat  BY <1>1 DEF first, given
  <2> QED  BY <1>1, <2>1 DEF filled
<1>3. FilledTile'  BY <1>1, <1>2 DEF Orderly, FilledTile, Ahead
<1>4. \A s \in Slots : Ahead(first, s) < filled => content'[rxPackets[s]] = content[rxPackets[s]]
  <2>1. \A s \in Slots : Ahead(first, s) < filled => s # nicPos
    BY <1>1 DEF Orderly, FilledTile
  <2>2. \A s \in Slots : s # nicPos => rxPackets[s] # m
    BY <1>1 DEF RxMbufsConserved
  <2> QED  BY <1>1, <2>1, <2>2
<1>5. pc \in {"arm", "own", "input"} /\ packetReceived # NoMbuf
        => content'[packetReceived] = content[packetReceived]
  <2>1. ASSUME pc \in {"arm", "own", "input"}, packetReceived # NoMbuf
        PROVE  packetReceived # m /\ packetReceived \in Mbufs
    BY <1>1, <2>1 DEF RxMbufsConserved, InRing, InHand
  <2> QED  BY <1>1, <2>1
<1>6. content'[m] = arrived'  BY <1>1
<1>7. FramesInOrder'
  BY <1>1, <1>2, <1>4, <1>5, <1>6 DEF Orderly, FramesInOrder, Ahead
<1> QED  BY <1>3, <1>7 DEF Orderly

\* The frame is in the ring, behind the others.
LEMMA WriteBackStep ==
  ASSUME Sound, Orderly, NicWriteBack
  PROVE  Orderly'
<1> USE DEF Sound, TypeOK
<1>1. /\ nicPos \in Slots /\ owner[nicPos] /\ nicPc = "done" /\ nicPc' = "raise"
      /\ owner' = [owner EXCEPT ![nicPos] = FALSE]
      /\ UNCHANGED <<arrived, content, rxPackets, rxIndex, pc, delivered, packetReceived>>
      /\ arrived \in Nat /\ given \in Nat
  BY DEF NicWriteBack, NicInRing, memVars, driverVars, rxVars, given
<1>2. nicPos' = RX_NEXT(nicPos)
  <2>1. endMark[nicPos] <=> nicPos = DescCount - 1  BY <1>1 DEF EndMarks
  <2> QED  BY <1>1, <2>1, NextSlot DEF NicWriteBack
<1>3. first' = first /\ given' = given /\ filled' = filled + 1 /\ arrived = given + 1 + filled
  <2>1. first' = first /\ given' = given  BY <1>1 DEF first, given
  <2> QED  BY <1>1, <2>1 DEF filled
<1>4. first \in Slots  BY NextSlot DEF first
<1>5. \A s \in Slots : Ahead(first, s) \in 0 .. DescCount - 1 /\ (Ahead(first, s) = 0 <=> s = first)
  BY <1>4, AheadOf
<1>6. DescCount \in Nat /\ filled \in 0 .. DescCount
  BY RingAssumption DEF Orderly, FilledTile
<1>7. Ahead(first, nicPos) = filled /\ filled < DescCount
  <2>1. ~(Ahead(first, nicPos) < filled)  BY <1>1 DEF Orderly, FilledTile
  <2>2. ~(filled = DescCount /\ nicPos = first)
    BY <1>1, <1>5, <1>6, <2>1, RingAssumption
  <2>3. Ahead(first, nicPos) = filled  BY <2>2 DEF Orderly, FilledTile
  <2> QED  BY <1>1, <1>5, <1>6, <2>3
<1>8. \A s \in Slots : Ahead(first, s) < filled + 1 <=> s = nicPos \/ Ahead(first, s) < filled
  <2>1. \A s \in Slots : Ahead(first, s) = Ahead(first, nicPos) <=> s = nicPos
    BY <1>1, <1>4, AheadOf
  <2> QED  BY <1>5, <1>6, <1>7, <2>1
<1>9. FilledTile'
  <2>1. \A s \in Slots : ~owner'[s] <=> Ahead(first, s) < filled + 1
    BY <1>1, <1>8 DEF Orderly, FilledTile
  <2>2. Ahead(first, RX_NEXT(nicPos)) = IF filled = DescCount - 1 THEN 0 ELSE filled + 1
    BY <1>1, <1>4, <1>7, AheadOfNext
  <2>3. Ahead(first, RX_NEXT(nicPos)) = filled + 1
          \/ (filled + 1 = DescCount /\ RX_NEXT(nicPos) = first)
    BY <1>1, <1>5, <1>6, <1>7, <2>2, NextSlot
  <2>4. filled + 1 \in 0 .. DescCount  BY <1>6, <1>7
  <2> QED  BY <1>2, <1>3, <2>1, <2>3, <2>4 DEF FilledTile, Ahead
<1>10. FramesInOrder'
  <2>1. ASSUME NEW s \in Slots, Ahead(first, s) < filled + 1,
               ~(s = rxIndex /\ pc \in {"arm", "own"})
        PROVE  content[rxPackets[s]] = given + 1 + Ahead(first, s)
    BY <1>1, <1>3, <1>7, <1>8, <2>1 DEF Orderly, FramesInOrder
  <2>2. pc \in {"arm", "own", "input"} /\ packetReceived # NoMbuf
          => content[packetReceived] = delivered + 1
    BY DEF Orderly, FramesInOrder
  <2> QED  BY <1>1, <1>3, <2>1, <2>2 DEF FramesInOrder, Ahead
<1> QED  BY <1>9, <1>10 DEF Orderly

LEMMA OrderStep ==
  Sound /\ (~scattered /\ pc # "stopped" => Orderly) /\ [Next]_vars
    => (~scattered' /\ pc' # "stopped" => Orderly')
<1> SUFFICES ASSUME Sound, ~scattered /\ pc # "stopped" => Orderly, [Next]_vars,
                    ~scattered', pc' # "stopped"
             PROVE  Orderly'
  OBVIOUS
<1>1. ~scattered /\ pc # "stopped"
  BY DEF Next, ReadStatus, RxHandler, AckStatus, TestOwner, Replace, Copy, NoneLeft, Arm,
         ArmFailed, Own, Input, InputNull, Nic, NicReceive, NicWriteBack, NicRaise,
         NicHalt, NicResume, NicOtherCause, StackFree, rxVars, driverVars, vars
<1>2. Orderly /\ Handling  BY <1>1 DEF Sound
<1> USE DEF ringVars, memVars, rxVars, nicVars, driverVars
<1>3. CASE ReadStatus  BY <1>2, <1>3, SameOrder DEF ReadStatus
<1>4. CASE RxHandler
  <2>1. CASE AckStatus  BY <1>2, <2>1, SameOrder DEF AckStatus
  <2>2. CASE TestOwner
    <3>1. UNCHANGED <<owner, content, rxPackets, rxIndex, arrived, delivered, nicPc, nicPos>>
          /\ pc = "test" /\ pc' \in {"replace", "idle"}
      BY <2>2 DEF TestOwner
    <3>2. first' = first /\ given' = given /\ filled' = filled
      BY <3>1 DEF first, given, filled
    <3>3. FilledTile'  BY <1>2, <3>1, <3>2 DEF Orderly, FilledTile, Ahead
    <3>4. FramesInOrder'  BY <1>2, <3>1, <3>2 DEF Orderly, FramesInOrder, Ahead
    <3> QED  BY <3>3, <3>4 DEF Orderly
  <2>3. CASE Replace \/ Copy  BY <1>2, <2>3, TakeStep
  <2>4. CASE NoneLeft   BY <1>2, <2>4, SameOrder DEF NoneLeft, Handling
  <2>5. CASE Arm        BY <1>2, <2>5, SameOrder DEF Arm
  <2>6. CASE ArmFailed \/ InputNull  BY <2>6 DEF ArmFailed, InputNull
  <2>7. CASE Own        BY <1>2, <2>7, OwnStep
  <2>8. CASE Input      BY <1>2, <2>8, InputStep
  <2> QED  BY <1>4, <2>1, <2>2, <2>3, <2>4, <2>5, <2>6, <2>7, <2>8 DEF RxHandler
<1>5. CASE Nic
  <2>1. CASE NicReceive     BY <1>1, <1>2, <2>1, ReceiveStep
  <2>2. CASE NicWriteBack   BY <1>2, <2>2, WriteBackStep
  <2>3. CASE NicRaise       BY <1>2, <2>3, SameOrder DEF NicRaise
  <2>4. CASE NicHalt        BY <1>2, <2>4, SameOrder DEF NicHalt
  <2>5. CASE NicResume      BY <1>2, <2>5, SameOrder DEF NicResume
  <2>6. CASE NicOtherCause  BY <1>2, <2>6, SameOrder DEF NicOtherCause
  <2> QED  BY <1>5, <2>1, <2>2, <2>3, <2>4, <2>5, <2>6 DEF Nic
<1>6. ASSUME NEW m \in Mbufs, StackFree(m)  PROVE Orderly'
  BY <1>2, <1>6, SameOrder DEF StackFree
<1>7. CASE UNCHANGED vars  BY <1>2, <1>7, SameOrder DEF vars
<1> QED  BY <1>3, <1>4, <1>5, <1>6, <1>7 DEF Next

-----------------------------------------------------------------------------
(* Theorems                                                                *)

LEMMA Invariance == Spec => []IInv
<1>1. IInv /\ [Next]_vars => IInv'
  <2>1. IInv <=> Sound /\ (~scattered /\ pc # "stopped" => Orderly)
    BY DEF IInv, Sound
  <2>2. IInv' <=> TypeOK' /\ Descriptors' /\ RxMbufsConserved'
                  /\ (~scattered' /\ pc' # "stopped" => Orderly')
    BY DEF IInv, Descriptors
  <2> QED  BY <2>1, <2>2, TypeStep, DescriptorStep, ConservedStep, OrderStep
<1> QED  BY InitInv, <1>1, PTL DEF Spec

\* The ring's state keeps its types: the controller never leaves the ring.
THEOREM TypeCorrect == Spec => [](TypeOK /\ nicPos \in Slots)
<1>1. IInv => TypeOK /\ nicPos \in Slots  BY DEF IInv, NicInRing
<1> QED  BY Invariance, <1>1, PTL

\* Every mbuf given out is in one place.
THEOREM MbufsConserved == Spec => []RxMbufsConserved
<1>1. IInv => RxMbufsConserved  BY DEF IInv
<1> QED  BY Invariance, <1>1, PTL

\* The controller writes only to mbufs that the ring holds.
THEOREM DmaHeld == Spec => []DmaIntoHeldBuffer
<1>1. IInv => DmaIntoHeldBuffer  BY DEF IInv
<1> QED  BY Invariance, <1>1, PTL

\* The marks that the controller meets are right.
THEOREM StaysClosed == Spec => []RingClosed
<1>1. IInv => RingClosed  BY DEF IInv, EndMarks, RingClosed
<1> QED  BY Invariance, <1>1, PTL

\* The stack is given the frames once each, in the order of arrival.
THEOREM InOrder == Spec => []DeliveredInOrder
<1>1. IInv => DeliveredInOrder
  BY DEF IInv, FailureEnds, Orderly, FramesInOrder, DeliveredInOrder
<1> QED  BY Invariance, <1>1, PTL

-----------------------------------------------------------------------------
(* No wake-up is lost                                                      *)

\* While the next descriptor is filled, the handler looks at it, or its
\* interrupt is on the way.
Told ==
  pc \in {"idle", "ack"} /\ ~owner[rxIndex] =>
    \/ nicPc = "raise" \/ "RxDone" \in intStatus
    \/ pc = "ack" /\ "RxDone" \in latched

LEMMA ToldStep == Sound /\ Told /\ [Next]_vars => Told'
<1> SUFFICES ASSUME Sound, Told, [Next]_vars PROVE Told'
  OBVIOUS
<1> USE DEF Told, ringVars, memVars, rxVars, nicVars, driverVars
<1>1. CASE ReadStatus  BY <1>1 DEF ReadStatus
<1>2. CASE RxHandler
  <2>1. CASE AckStatus  BY <2>1 DEF AckStatus
  <2>2. CASE TestOwner  BY <2>2 DEF TestOwner, Filled
  <2>3. CASE Replace \/ Copy \/ NoneLeft \/ Arm \/ ArmFailed \/ Own \/ Input \/ InputNull
    BY <2>3 DEF Replace, Copy, NoneLeft, Arm, ArmFailed, Own, Input, InputNull
  <2> QED  BY <1>2, <2>1, <2>2, <2>3 DEF RxHandler
<1>3. CASE Nic
  <2>1. CASE NicReceive     BY <2>1 DEF NicReceive
  <2>2. CASE NicWriteBack   BY <2>2 DEF NicWriteBack
  <2>3. CASE NicRaise       BY <2>3 DEF NicRaise
  <2>4. CASE NicHalt        BY <2>4 DEF NicHalt
  <2>5. CASE NicResume      BY <2>5 DEF NicResume
  <2>6. CASE NicOtherCause  BY <2>6 DEF NicOtherCause
  <2> QED  BY <1>3, <2>1, <2>2, <2>3, <2>4, <2>5, <2>6 DEF Nic
<1>4. ASSUME NEW m \in Mbufs, StackFree(m)  PROVE Told'
  BY <1>4 DEF StackFree
<1>5. CASE UNCHANGED vars  BY <1>5 DEF vars
<1> QED  BY <1>1, <1>2, <1>3, <1>4, <1>5 DEF Next

\* A driver at rest has given the stack every frame of the ring, or will be
\* interrupted: halted or not, the controller leaves nothing behind.
NoFrameLeft ==
  pc = "idle" /\ delivered < arrived =>
    nicPc \in {"done", "raise"} \/ "RxDone" \in intStatus

\* No frame is left in the ring without an interrupt: what is written behind the
\* handler's last look at the Owner flag raises the cause that the handler has
\* acknowledged before it looked.
THEOREM FrameNeverLeft == Spec => []NoFrameLeft
<1>1. Init => Told
  BY RingAssumption DEF Init, Told, Slots
<1>2. IInv /\ Told => NoFrameLeft
  <2> SUFFICES ASSUME IInv, Told, pc = "idle", delivered < arrived,
                      nicPc \notin {"done", "raise"}
               PROVE  "RxDone" \in intStatus
    BY DEF NoFrameLeft
  <2>1. Orderly  BY DEF IInv, FailureEnds
  <2>2. TypeOK /\ rxIndex \in Slots  BY DEF IInv, TypeOK
  <2>3. first = rxIndex /\ filled = arrived - delivered
    BY <2>2 DEF first, given, filled, TypeOK
  <2>4. Ahead(first, rxIndex) = 0  BY <2>2, <2>3, AheadOf
  <2>5. ~owner[rxIndex]
    BY <2>1, <2>2, <2>3, <2>4 DEF Orderly, FilledTile, TypeOK
  <2> QED  BY <2>5 DEF Told
<1>3. IInv => Sound
  BY DEF IInv, Sound
<1>4. Spec => []Told
  <2>1. IInv /\ Told /\ [Next]_vars => Told'
    BY <1>3, ToldStep
  <2> QED  BY <1>1, <2>1, Invariance, PTL DEF Spec
<1> QED  BY <1>2, <1>4, Invariance, PTL
=============================================================================
