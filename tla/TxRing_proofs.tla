--------------------------- MODULE TxRing_proofs ---------------------------
(***************************************************************************)
(* Theorems about TxRing, for every ring size, every segment limit below   *)
(* it and every set of mbufs.  Those about the descriptors themselves need *)
(* the store through the uninitialised pointer to hit no other than the    *)
(* last one (WildHarmless).                                                *)
(***************************************************************************)
EXTENDS TxRing, FiniteSetTheorems, TLAPS

-----------------------------------------------------------------------------
(* The index arithmetic without the remainder.                             *)

\* Advancing by at most a full ring wraps at most once.
LEMMA AdvanceWraps ==
  ASSUME NEW index \in Slots, NEW count \in 0..DescCount
  PROVE  /\ Advance(index, count) =
              IF index + count < DescCount THEN index + count
                                           ELSE index + count - DescCount
         /\ Advance(index, count) \in Slots
<1> DEFINE a == index + count
<1>1. DescCount \in Nat /\ DescCount > 0 /\ a \in 0..(2 * DescCount - 1)
  BY RingAssumption DEF Slots
<1>2. CASE a < DescCount
  <2>1. a % DescCount = a
    BY <1>1, <1>2, SMT
  <2> QED BY <1>1, <1>2, <2>1 DEF Advance, Slots
<1>3. CASE a >= DescCount
  <2>1. a % DescCount = a - DescCount
    BY <1>1, <1>3, SMT
  <2> QED BY <1>1, <1>3, <2>1 DEF Advance, Slots
<1> QED BY <1>1, <1>2, <1>3

\* The distance between two slots, counted forward.
LEMMA UsedWraps ==
  ASSUME NEW read \in Slots, NEW write \in Slots
  PROVE  /\ TX_USED(read, write) =
              IF write >= read THEN write - read ELSE write - read + DescCount
         /\ TX_USED(read, write) \in Slots
<1> DEFINE a == write - read
<1>1. DescCount \in Nat /\ DescCount > 0 /\ a \in (1 - DescCount)..(DescCount - 1)
  BY RingAssumption DEF Slots
<1>2. CASE a >= 0
  <2>1. a % DescCount = a
    BY <1>1, <1>2, SMT
  <2> QED BY <1>1, <1>2, <2>1 DEF TX_USED, Slots
<1>3. CASE a < 0
  <2>1. a % DescCount = a + DescCount
    BY <1>1, <1>3, SMT
  <2> QED BY <1>1, <1>3, <2>1 DEF TX_USED, Slots
<1> QED BY <1>1, <1>2, <1>3

-----------------------------------------------------------------------------
(* Type correctness.  It needs what sendTxPacket's locals are in each of   *)
(* its phases.                                                             *)

\* While it fills descriptors, sendTxPacket has a packet of between one and
\* MaxSegCount segments, and the room it checked for is still there.
Filling ==
  /\ pc \in {"output", "fill"} => txPacket \in Packets
  /\ pc = "fill" => txSegs \in 1..MaxSegCount /\ txDone \in 1..txSegs /\ Room

TypeInv == TypeOK /\ Filling

LEMMA InitTypeInv == Init => TypeInv
<1> SUFFICES ASSUME Init PROVE TypeInv
  OBVIOUS
<1>1. 0 \in Slots /\ 0 \in SegCounts
  BY RingAssumption DEF Slots, SegCounts
<1>2. endMark \in [Slots -> BOOLEAN]
  BY DEF Init
<1>3. TypeOK
  BY <1>1, <1>2 DEF Init, TypeOK
<1> QED BY <1>3 DEF Init, TypeInv, Filling

LEMMA NextTypeInv == TypeInv /\ [Next]_vars => TypeInv'
<1> SUFFICES ASSUME TypeInv, [Next]_vars PROVE TypeInv'
  OBVIOUS
<1> USE RingAssumption DEF TypeInv, TypeOK, Filling, Return, Causes, SegCounts,
        ringVars, stateVars, txVars, nicVars, driverVars, Room
<1>1. ASSUME NEW p \in Packets, OutputPacket(p) PROVE TypeInv'
  BY <1>1 DEF OutputPacket
<1>2. CASE OutputStall
  BY <1>2 DEF OutputStall, LeftWithQueue
<1>3. CASE OutputDropped
  BY <1>3 DEF OutputDropped
<1>4. ASSUME NEW segs \in 1..MaxSegCount, FillFirst(segs) PROVE TypeInv'
  BY <1>4 DEF FillFirst, Segments
<1>5. CASE FillNext
  <2>1. txDone + 1 \in 1..MaxSegCount /\ txDone + 1 \in 1..txSegs
    BY <1>5 DEF FillNext
  <2>2. seg' \in [Slots -> Segments \cup {NoSegment}]
    BY <1>5, <2>1 DEF FillNext, Segments
  <2> QED BY <1>5, <2>1, <2>2 DEF FillNext
<1>6. CASE Record
  <2>1. Advance(writeIndex, txSegs) \in Slots
    BY <1>6, AdvanceWraps DEF Record
  <2> QED BY <1>6, <2>1 DEF Record
<1>7. CASE HandOff
  BY <1>7 DEF HandOff
<1>8. CASE Poll
  BY <1>8 DEF Poll, Rung
<1>9. CASE ReadStatus
  BY <1>9 DEF ReadStatus
<1>10. CASE AckStatus
  BY <1>10 DEF AckStatus
<1>11. CASE FreeSent
  <2>1. Advance(readIndex, segsOf[readIndex]) \in Slots
    BY AdvanceWraps
  <2> QED BY <1>11, <2>1 DEF FreeSent, Sent
<1>12. CASE Service
  BY <1>12 DEF Service, Serviced
<1>13. CASE NicFetch
  BY <1>13 DEF NicFetch
<1>14. CASE NicReadSegment
  BY <1>14 DEF NicReadSegment, Slots, NoSlot
<1>15. CASE NicWriteBack
  BY <1>15 DEF NicWriteBack
<1>16. CASE NicRaise
  BY <1>16 DEF NicRaise, Slots
<1>17. CASE NicSleep
  BY <1>17 DEF NicSleep
<1>18. CASE NicOtherCause
  BY <1>18 DEF NicOtherCause
<1>19. CASE UNCHANGED vars
  BY <1>19 DEF vars
<1> QED
  BY <1>1, <1>2, <1>3, <1>4, <1>5, <1>6, <1>7, <1>8, <1>9, <1>10, <1>11, <1>12,
     <1>13, <1>14, <1>15, <1>16, <1>17, <1>18, <1>19
  DEF Next, Driver, Nic

\* The types of the ring's variables, and the room sendTxPacket checked for
\* being there until it has recorded the packet, hold in every state.
THEOREM TypeCorrect == Spec => [](TypeOK /\ Filling)
<1>1. Init => TypeInv
  BY InitTypeInv
<1>2. TypeInv /\ [Next]_vars => TypeInv'
  BY NextTypeInv
<1>3. TypeInv => TypeOK /\ Filling
  BY DEF TypeInv
<1> QED BY <1>1, <1>2, <1>3, PTL DEF Spec

-----------------------------------------------------------------------------
(* The chain bookkeeping.                                                  *)

\* Going forward from a slot changes its distance from the read index by as
\* much, as long as that does not pass the read index again.
LEMMA OffsetAdvance ==
  ASSUME TypeOK, NEW s \in Slots, NEW count \in 0..DescCount,
         Offset(s) + count < DescCount
  PROVE  Offset(Advance(s, count)) = Offset(s) + count
<1> DEFINE t == Advance(s, count)
<1>1. readIndex \in Slots /\ DescCount \in Nat
  BY RingAssumption DEF TypeOK
<1>2. /\ t = IF s + count < DescCount THEN s + count ELSE s + count - DescCount
      /\ t \in Slots
  BY AdvanceWraps
<1>3. Offset(s) = IF s >= readIndex THEN s - readIndex
                                    ELSE s - readIndex + DescCount
  BY <1>1, UsedWraps DEF Offset
<1>4. Offset(t) = IF t >= readIndex THEN t - readIndex
                                    ELSE t - readIndex + DescCount
  BY <1>1, <1>2, UsedWraps DEF Offset
<1> HIDE DEF t
<1>5. Offset(t) = Offset(s) + count
  BY <1>1, <1>2, <1>3, <1>4 DEF Slots
<1> QED BY <1>5 DEF t

\* Slots are equal when their distances from the read index are.
LEMMA OffsetInjective ==
  ASSUME TypeOK, NEW s \in Slots, NEW t \in Slots, Offset(s) = Offset(t)
  PROVE  s = t
<1>1. readIndex \in Slots /\ DescCount \in Nat
  BY RingAssumption DEF TypeOK
<1>2. ASSUME NEW r \in Slots
      PROVE  Offset(r) = IF r >= readIndex THEN r - readIndex
                                           ELSE r - readIndex + DescCount
  BY <1>1, UsedWraps DEF Offset
<1> QED BY <1>1, <1>2 DEF Slots

\* Recording a packet at the write index adds its descriptors at the end.
LEMMA RecordStep == TypeInv /\ ChainsTile /\ Record => ChainsTile'
<1> SUFFICES ASSUME TypeInv, ChainsTile, Record PROVE ChainsTile'
  OBVIOUS
<1> USE RingAssumption DEF TypeInv
<1> DEFINE w == writeIndex
           n == txSegs
<1>1. /\ readIndex' = readIndex /\ writeIndex' = Advance(w, n)
      /\ n \in 1..MaxSegCount
      /\ segsOf' = [segsOf EXCEPT ![w] = n]
      /\ readIndex \in Slots /\ w \in Slots /\ segsOf \in [Slots -> SegCounts]
  BY DEF Record, Filling, TypeOK
<1>2. /\ Used \in Nat /\ Used + n < DescCount
      /\ Offset(w) = Used
  <2>1. Used \in 0..(DescCount - 1)
    BY <1>1, UsedWraps DEF Used, Slots
  <2>2. DescCount - Used - 1 >= MaxSegCount
    BY DEF Record, Filling, Room, TX_FREE, Used
  <2> QED BY <1>1, <2>1, <2>2 DEF Used, Offset
<1>3. Used' = Used + n
  <2>1. Offset(Advance(w, n)) = Used + n
    BY <1>1, <1>2, OffsetAdvance
  <2> QED BY <1>1, <2>1 DEF Used, Offset
<1>4. \A s : Offset(s)' = Offset(s)
  BY <1>1 DEF Offset
<1>5. ASSUME NEW s \in Slots PROVE Offset(s) \in 0..(DescCount - 1)
  BY <1>1, UsedWraps DEF Offset, Slots
<1>6. readIndex' # writeIndex' => segsOf'[readIndex'] > 0
  BY <1>1, UsedWraps DEF ChainsTile, SegCounts
<1>7. ASSUME NEW s \in Slots, segsOf'[s] > 0
      PROVE  /\ Offset(s) + segsOf'[s] <= Used + n
             /\ Offset(s) + segsOf'[s] < Used + n =>
                  segsOf'[Advance(s, segsOf'[s])] > 0
             /\ \A i \in 1..(segsOf'[s] - 1) : segsOf'[Advance(s, i)] = 0
  <2>1. CASE s = w
    <3>1. segsOf'[s] = n
      BY <1>1, <2>1
    <3>2. ASSUME NEW i \in 1..(n - 1) PROVE segsOf'[Advance(w, i)] = 0
      <4>1. Advance(w, i) \in Slots /\ Offset(Advance(w, i)) = Used + i
        <5>1. i \in 0..DescCount /\ Offset(w) + i < DescCount
          BY <1>1, <1>2
        <5> QED BY <5>1, <1>1, <1>2, OffsetAdvance, AdvanceWraps
      <4>2. segsOf[Advance(w, i)] = 0
        BY <4>1, <1>1, <1>2 DEF ChainsTile, SegCounts
      <4> QED BY <4>1, <4>2, <1>1, <1>2
    <3> QED BY <2>1, <3>1, <3>2, <1>1, <1>2
  <2>2. CASE s # w
    <3>1. segsOf'[s] = segsOf[s] /\ segsOf[s] > 0 /\ segsOf[s] \in SegCounts
      BY <1>1, <1>7, <2>2
    <3>2. /\ Offset(s) + segsOf[s] <= Used
          /\ Offset(s) + segsOf[s] < Used => segsOf[Advance(s, segsOf[s])] > 0
          /\ \A i \in 1..(segsOf[s] - 1) : segsOf[Advance(s, i)] = 0
      BY <3>1 DEF ChainsTile
    <3>3. ASSUME NEW i \in 1..segsOf[s]
          PROVE  /\ Advance(s, i) \in Slots
                 /\ Offset(Advance(s, i)) = Offset(s) + i
      <4>1. i \in 0..DescCount /\ Offset(s) + i < DescCount
        BY <3>1, <3>2, <1>1, <1>2, <1>5 DEF SegCounts
      <4> QED BY <4>1, OffsetAdvance, AdvanceWraps
    <3>4. ASSUME NEW i \in 1..(segsOf[s] - 1) PROVE segsOf'[Advance(s, i)] = 0
      <4>1. Advance(s, i) # w
        BY <3>1, <3>2, <3>3, <1>2, <1>5 DEF SegCounts
      <4> QED BY <4>1, <3>1, <3>2, <3>3, <1>1 DEF SegCounts
    <3>5. segsOf'[Advance(s, segsOf[s])] > 0
      <4> DEFINE t == Advance(s, segsOf[s])
      <4>1. t \in Slots /\ Offset(t) = Offset(s) + segsOf[s]
        BY <3>1, <3>3 DEF SegCounts
      <4>2. CASE Offset(t) = Used
        <5>1. t = w
          BY <4>1, <4>2, <1>1, <1>2, OffsetInjective
        <5> QED BY <5>1, <1>1
      <4>3. CASE Offset(t) < Used
        BY <4>1, <4>3, <3>2, <1>1
      <4> QED BY <4>1, <4>2, <4>3, <3>1, <3>2, <1>2, <1>5 DEF SegCounts
    <3> QED BY <3>1, <3>2, <3>4, <3>5, <1>1, <1>2, <1>5 DEF SegCounts
  <2> QED BY <2>1, <2>2
<1> QED BY <1>3, <1>4, <1>6, <1>7 DEF ChainsTile, Advance

\* Offsets are distances round the ring: they add up.
LEMMA OffsetsShift ==
  ASSUME NEW r \in Slots, NEW q \in Slots, NEW s \in Slots, NEW k, NEW n, NEW m,
         k = IF q >= r THEN q - r ELSE q - r + DescCount,
         n = IF s >= r THEN s - r ELSE s - r + DescCount,
         m = IF s >= q THEN s - q ELSE s - q + DescCount,
         n >= k
  PROVE  m = n - k
BY RingAssumption DEF Slots

\* Freeing the oldest packet takes its descriptors away from the front.
LEMMA FreeSentOffsets ==
  ASSUME TypeInv, ChainsTile, FreeSent
  PROVE  /\ segsOf[readIndex] \in 1..MaxSegCount
         /\ segsOf[readIndex] <= Used
         /\ Used' = Used - segsOf[readIndex]
         /\ readIndex' \in Slots /\ Offset(readIndex') = segsOf[readIndex]
         /\ \A s \in Slots : Offset(s) >= segsOf[readIndex] =>
              Offset(s)' = Offset(s) - segsOf[readIndex]
         /\ \A s \in Slots : s # readIndex /\ segsOf[s] > 0 =>
              Offset(s) >= segsOf[readIndex]
         /\ \A s \in Slots : Offset(s) < segsOf[readIndex] => s \in HeadSlots
<1> USE RingAssumption DEF TypeInv
<1> DEFINE r == readIndex
           k == segsOf[readIndex]
<1>1. /\ readIndex' = Advance(r, k) /\ writeIndex' = writeIndex
      /\ segsOf' = [segsOf EXCEPT ![r] = 0]
      /\ r \in Slots /\ writeIndex \in Slots /\ r # writeIndex
      /\ segsOf \in [Slots -> SegCounts]
  BY DEF FreeSent, Sent, TypeOK
<1>2. ASSUME NEW s \in Slots PROVE Offset(s) \in 0..(DescCount - 1)
  BY <1>1, UsedWraps DEF Offset, Slots
<1>3. Offset(r) = 0 /\ Used \in 0..(DescCount - 1) /\ Used = Offset(writeIndex)
  <2>1. Used = Offset(writeIndex)
    BY DEF Offset, Used
  <2>2. Offset(r) = 0
    BY <1>1, UsedWraps DEF Offset, Slots
  <2> QED BY <2>1, <2>2, <1>1, <1>2
<1>4. k \in 1..MaxSegCount /\ k <= Used
  <2>1. k > 0 /\ k \in SegCounts
    BY <1>1 DEF ChainsTile
  <2>2. Offset(r) + k <= Used
    BY <1>1, <2>1 DEF ChainsTile
  <2> HIDE DEF k
  <2> QED BY <2>1, <2>2, <1>3 DEF SegCounts
<1>5. readIndex' \in Slots /\ Offset(readIndex') = k
  <2>1. k \in 0..DescCount /\ Offset(r) + k < DescCount /\ Offset(r) + k = k
    BY <1>3, <1>4
  <2> HIDE DEF k
  <2> QED BY <2>1, <1>1, OffsetAdvance, AdvanceWraps
<1>6. ASSUME NEW s \in Slots, Offset(s) >= k
      PROVE  Offset(s)' = Offset(s) - k
  <2>1. Offset(s) = IF s >= r THEN s - r ELSE s - r + DescCount
    BY <1>1, UsedWraps DEF Offset
  <2>2. k = IF readIndex' >= r THEN readIndex' - r ELSE readIndex' - r + DescCount
    BY <1>1, <1>5, UsedWraps DEF Offset
  <2>3. Offset(s)' = IF s >= readIndex' THEN s - readIndex'
                                        ELSE s - readIndex' + DescCount
    BY <1>5, UsedWraps DEF Offset
  <2>4. readIndex' \in Slots /\ r \in Slots
    BY <1>1, <1>5
  <2> HIDE DEF k, r
  <2> QED BY <2>1, <2>2, <2>3, <2>4, <1>6, OffsetsShift
<1>7. Used' = Used - k
  BY <1>1, <1>3, <1>4, <1>6 DEF Used, Offset
<1>8. ASSUME NEW s \in Slots, Offset(s) < k
      PROVE  /\ Offset(s) \in 0..(k - 1) /\ s = Advance(r, Offset(s))
  <2> DEFINE i == Offset(s)
  <2>1. i \in 0..(k - 1) /\ i \in 0..DescCount /\ Offset(r) + i = i /\ i < DescCount
    BY <1>2, <1>3, <1>4, <1>8
  <2> HIDE DEF i
  <2>2. Advance(r, i) \in Slots /\ Offset(Advance(r, i)) = i
    BY <2>1, <1>1, OffsetAdvance, AdvanceWraps
  <2>3. Advance(r, i) = s
    BY <2>2, OffsetInjective DEF i
  <2> QED BY <2>1, <2>3 DEF i
<1>9. ASSUME NEW s \in Slots, s # r, segsOf[s] > 0 PROVE Offset(s) >= k
  <2> SUFFICES ASSUME Offset(s) < k PROVE FALSE
    BY <1>2, <1>4
  <2>1. Offset(s) # 0
    BY <1>1, <1>3, <1>9, OffsetInjective
  <2>2. Offset(s) \in 1..(k - 1) /\ s = Advance(r, Offset(s))
    BY <2>1, <1>4, <1>8
  <2>3. segsOf[Advance(r, Offset(s))] = 0
    BY <2>2, <1>1, <1>4 DEF ChainsTile
  <2> QED BY <2>2, <2>3, <1>9
<1>10. ASSUME NEW s \in Slots, Offset(s) < k PROVE s \in HeadSlots
  BY <1>8, <1>10 DEF HeadSlots
<1> QED BY <1>4, <1>5, <1>6, <1>7, <1>9, <1>10

LEMMA FreeSentStep == TypeInv /\ ChainsTile /\ FreeSent => ChainsTile'
<1> SUFFICES ASSUME TypeInv, ChainsTile, FreeSent PROVE ChainsTile'
  OBVIOUS
<1> USE RingAssumption DEF TypeInv
<1> DEFINE r == readIndex
           k == segsOf[readIndex]
<1>1. /\ readIndex' = Advance(r, k) /\ writeIndex' = writeIndex
      /\ segsOf' = [segsOf EXCEPT ![r] = 0]
      /\ r \in Slots /\ writeIndex \in Slots /\ r # writeIndex
      /\ segsOf \in [Slots -> SegCounts]
  BY DEF FreeSent, Sent, TypeOK
<1>2. ASSUME NEW s \in Slots PROVE Offset(s) \in 0..(DescCount - 1)
  BY <1>1, UsedWraps DEF Offset, Slots
<1>3. Offset(r) = 0 /\ Used \in 0..(DescCount - 1) /\ Used = Offset(writeIndex)
  <2>1. Used = Offset(writeIndex)
    BY DEF Offset, Used
  <2>2. Offset(r) = 0
    BY <1>1, UsedWraps DEF Offset, Slots
  <2> QED BY <2>1, <2>2, <1>1, <1>2
<1>4. k \in 1..MaxSegCount /\ k <= Used
  BY FreeSentOffsets
<1>5. readIndex' \in Slots /\ Offset(readIndex') = k
  BY FreeSentOffsets
<1>6. ASSUME NEW s \in Slots, Offset(s) >= k
      PROVE  Offset(s)' = Offset(s) - k
  BY <1>6, FreeSentOffsets
<1>7. Used' = Used - k
  BY FreeSentOffsets
<1>8. ASSUME NEW s \in Slots, s # r, segsOf[s] > 0 PROVE Offset(s) >= k
  BY <1>8, FreeSentOffsets
<1>9. readIndex' # writeIndex' => segsOf'[readIndex'] > 0
  <2> SUFFICES ASSUME readIndex' # writeIndex PROVE segsOf'[readIndex'] > 0
    BY <1>1
  <2>1. k # Used
    <3> SUFFICES ASSUME k = Used PROVE readIndex' = writeIndex
      OBVIOUS
    <3>1. Offset(readIndex') = Offset(writeIndex)
      BY <1>3, <1>5
    <3> QED BY <3>1, <1>1, <1>5, OffsetInjective
  <2>2. segsOf[readIndex'] > 0
    <3>1. Offset(r) + k < Used
      BY <2>1, <1>3, <1>4
    <3> QED BY <3>1, <1>1, <1>4 DEF ChainsTile
  <2>3. readIndex' # r
    BY <1>3, <1>4, <1>5
  <2> QED BY <2>2, <2>3, <1>1, <1>5
<1>10. ASSUME NEW s \in Slots, segsOf'[s] > 0
       PROVE  /\ Offset(s)' + segsOf'[s] <= Used - k
              /\ Offset(s)' + segsOf'[s] < Used - k =>
                   segsOf'[Advance(s, segsOf'[s])] > 0
              /\ \A i \in 1..(segsOf'[s] - 1) : segsOf'[Advance(s, i)] = 0
  <2>1. s # r /\ segsOf'[s] = segsOf[s] /\ segsOf[s] > 0 /\ segsOf[s] \in SegCounts
    BY <1>1, <1>10
  <2>2. Offset(s) >= k /\ Offset(s)' = Offset(s) - k
    BY <2>1, <1>6, <1>8
  <2>3. /\ Offset(s) + segsOf[s] <= Used
        /\ Offset(s) + segsOf[s] < Used => segsOf[Advance(s, segsOf[s])] > 0
        /\ \A i \in 1..(segsOf[s] - 1) : segsOf[Advance(s, i)] = 0
    BY <2>1 DEF ChainsTile
  <2>4. ASSUME NEW i \in 1..segsOf[s]
        PROVE  Advance(s, i) \in Slots /\ Advance(s, i) # r
    <3>1. i \in 0..DescCount /\ Offset(s) + i \in 1..(DescCount - 1)
      BY <2>1, <2>3, <1>2, <1>3 DEF SegCounts
    <3>2. Advance(s, i) \in Slots /\ Offset(Advance(s, i)) = Offset(s) + i
      BY <3>1, OffsetAdvance, AdvanceWraps
    <3> QED BY <3>1, <3>2, <1>3
  <2>5. \A i \in 1..(segsOf[s] - 1) : segsOf'[Advance(s, i)] = 0
    BY <2>1, <2>3, <2>4, <1>1 DEF SegCounts
  <2>6. Offset(s) + segsOf[s] < Used => segsOf'[Advance(s, segsOf[s])] > 0
    BY <2>1, <2>3, <2>4, <1>1 DEF SegCounts
  <2> QED BY <2>1, <2>2, <2>3, <2>5, <2>6, <1>2, <1>3, <1>4 DEF SegCounts
<1> QED BY <1>7, <1>9, <1>10 DEF ChainsTile, Advance

LEMMA NextChainsTile == TypeInv /\ ChainsTile /\ [Next]_vars => ChainsTile'
<1> SUFFICES ASSUME TypeInv, ChainsTile, [Next]_vars,
                    ~Record, ~FreeSent
             PROVE  ChainsTile'
  BY RecordStep, FreeSentStep
<1>1. UNCHANGED <<readIndex, writeIndex, segsOf>>
  BY DEF Next, Driver, Nic, vars, driverVars, stateVars, OutputPacket,
     OutputStall, LeftWithQueue, OutputDropped, FillFirst, FillNext, HandOff, Poll, ReadStatus,
     AckStatus, Service, NicFetch, NicReadSegment, NicWriteBack, NicRaise,
     NicSleep, NicOtherCause
<1> QED BY <1>1 DEF ChainsTile, Offset, Used, TX_USED, Advance

\* handleTxInterrupt always finds, at the read index, the count of a packet
\* that lies between the two indices, so its while loop ends at the write index
\* and never beyond, whatever the ring size and the packets.
THEOREM ChainsAlwaysTile == Spec => []ChainsTile
<1>1. Init => ChainsTile
  BY DEF Init, ChainsTile
<1>2. TypeInv /\ ChainsTile /\ [Next]_vars => ChainsTile'
  BY NextChainsTile
<1>3. Spec => []TypeInv
  BY InitTypeInv, NextTypeInv, PTL DEF Spec
<1> QED BY <1>1, <1>2, <1>3, PTL DEF Spec

-----------------------------------------------------------------------------
(* Ownership of the mbufs.                                                 *)

\* A slot holds an mbuf exactly when it holds a segment count.
PacketsCounted == \A s \in Slots : packetOf[s] # NoPacket <=> segsOf[s] > 0

MbufInv == MbufsConserved /\ PacketsCounted

\* The write index is in no recorded packet, so sendTxPacket does not lose an
\* mbuf by recording another one over it.
LEMMA WriteSlotFree ==
  ASSUME TypeOK, ChainsTile PROVE segsOf[writeIndex] = 0
<1>1. writeIndex \in Slots /\ readIndex \in Slots /\ segsOf[writeIndex] \in SegCounts
  BY DEF TypeOK
<1>2. Offset(writeIndex) = Used /\ Used \in Int
  BY <1>1, UsedWraps, RingAssumption DEF Offset, Used, Slots
<1>3. segsOf[writeIndex] > 0 => Used + segsOf[writeIndex] <= Used
  BY <1>1, <1>2 DEF ChainsTile
<1> QED BY <1>1, <1>2, <1>3, RingAssumption DEF SegCounts

LEMMA RecordMbuf == TypeInv /\ ChainsTile /\ MbufInv /\ Record => MbufInv'
<1> SUFFICES ASSUME TypeInv, ChainsTile, MbufInv, Record PROVE MbufInv'
  OBVIOUS
<1> DEFINE w == writeIndex
<1>1. /\ packetOf' = [packetOf EXCEPT ![w] = txPacket]
      /\ segsOf' = [segsOf EXCEPT ![w] = txSegs]
      /\ held' = held /\ pc = "fill" /\ pc' = "handoff"
      /\ txPacket \in Packets /\ txSegs > 0
      /\ w \in Slots /\ packetOf \in [Slots -> Packets \cup {NoPacket}]
      /\ segsOf \in [Slots -> SegCounts]
  BY RingAssumption DEF Record, TypeInv, TypeOK, Filling
<1>2. packetOf[w] = NoPacket
  BY <1>1, WriteSlotFree DEF MbufInv, PacketsCounted, TypeInv
<1>3. InHand = {txPacket} /\ InHand' = {}
  BY <1>1 DEF InHand
<1>4. txPacket # NoPacket
  BY <1>1, PacketAssumption
<1>5. InRing' = InRing \cup {txPacket}
  BY <1>1, <1>2, <1>4 DEF InRing
<1>6. \A s \in Slots : packetOf[s] # txPacket
  BY <1>1, <1>3, <1>4 DEF MbufInv, MbufsConserved, InRing
<1>7. \A s, t \in Slots :
        packetOf'[s] = packetOf'[t] => s = t \/ packetOf'[s] = NoPacket
  BY <1>1, <1>6 DEF MbufInv, MbufsConserved
<1>8. PacketsCounted'
  BY <1>1, <1>4 DEF MbufInv, PacketsCounted
<1> QED BY <1>1, <1>3, <1>5, <1>7, <1>8 DEF MbufInv, MbufsConserved

LEMMA FreeSentMbuf == TypeInv /\ ChainsTile /\ MbufInv /\ FreeSent => MbufInv'
<1> SUFFICES ASSUME TypeInv, ChainsTile, MbufInv, FreeSent PROVE MbufInv'
  OBVIOUS
<1> DEFINE r == readIndex
<1>1. /\ packetOf' = [packetOf EXCEPT ![r] = NoPacket]
      /\ segsOf' = [segsOf EXCEPT ![r] = 0]
      /\ held' = held \ {packetOf[r]} /\ pc = "drain" /\ pc' = pc
      /\ r \in Slots /\ packetOf \in [Slots -> Packets \cup {NoPacket}]
      /\ segsOf \in [Slots -> SegCounts] /\ segsOf[r] > 0
  BY DEF FreeSent, Sent, TypeInv, TypeOK, ChainsTile
<1>2. packetOf[r] # NoPacket
  BY <1>1 DEF MbufInv, PacketsCounted
<1>3. InHand = {} /\ InHand' = {}
  BY <1>1 DEF InHand
<1>4. \A s \in Slots : s # r => packetOf[s] # packetOf[r]
  BY <1>1, <1>2 DEF MbufInv, MbufsConserved
<1>5. InRing' = InRing \ {packetOf[r]}
  BY <1>1, <1>2, <1>4 DEF InRing
<1>6. \A s, t \in Slots :
        packetOf'[s] = packetOf'[t] => s = t \/ packetOf'[s] = NoPacket
  BY <1>1 DEF MbufInv, MbufsConserved
<1>7. PacketsCounted'
  BY <1>1 DEF MbufInv, PacketsCounted
<1> QED BY <1>1, <1>3, <1>5, <1>6, <1>7 DEF MbufInv, MbufsConserved

LEMMA NextMbuf == TypeInv /\ ChainsTile /\ MbufInv /\ [Next]_vars => MbufInv'
<1> SUFFICES ASSUME TypeInv, ChainsTile, MbufInv, [Next]_vars, ~Record, ~FreeSent
             PROVE  MbufInv'
  BY RecordMbuf, FreeSentMbuf
<1>1. UNCHANGED <<packetOf, segsOf>>
  BY DEF Next, Driver, Nic, vars, driverVars, stateVars, OutputPacket,
     OutputStall, LeftWithQueue, OutputDropped, FillFirst, FillNext, HandOff, Poll, ReadStatus,
     AckStatus, Service, NicFetch, NicReadSegment, NicWriteBack, NicRaise,
     NicSleep, NicOtherCause
<1>2. InRing' = InRing /\ PacketsCounted'
  BY <1>1 DEF InRing, PacketsCounted, MbufInv
<1>3. held' = InHand' \cup InRing /\ InHand' \cap InRing = {}
  <2> USE DEF MbufInv, MbufsConserved, InHand
  <2>1. ASSUME NEW p \in Packets, OutputPacket(p) PROVE <1>3
    BY <2>1 DEF OutputPacket
  <2>2. CASE OutputStall \/ OutputDropped
    BY <2>2 DEF OutputStall, LeftWithQueue, OutputDropped, Return
  <2>3. ASSUME NEW segs \in 1..MaxSegCount, FillFirst(segs) PROVE <1>3
    BY <2>3 DEF FillFirst
  <2>4. CASE FillNext
    BY <2>4 DEF FillNext
  <2>5. CASE HandOff \/ Poll
    BY <2>5 DEF HandOff, Poll, Rung, Return
  <2>6. CASE ReadStatus \/ AckStatus \/ Service
    BY <2>6 DEF ReadStatus, AckStatus, Service, Serviced
  <2>7. CASE Nic \/ UNCHANGED vars
    BY <2>7 DEF Nic, vars, driverVars, txVars, NicFetch, NicReadSegment,
       NicWriteBack, NicRaise, NicSleep, NicOtherCause
  <2> QED BY <2>1, <2>2, <2>3, <2>4, <2>5, <2>6, <2>7 DEF Next, Driver
<1> QED BY <1>1, <1>2, <1>3 DEF MbufInv, MbufsConserved

LEMMA MbufInvHolds == Spec => []MbufInv
<1>1. Init => MbufInv
  BY DEF Init, MbufInv, MbufsConserved, PacketsCounted, InHand, InRing
<1>2. TypeInv /\ ChainsTile /\ MbufInv /\ [Next]_vars => MbufInv'
  BY NextMbuf
<1>3. Spec => [](TypeInv /\ ChainsTile)
  BY TypeCorrect, ChainsAlwaysTile, PTL DEF TypeInv
<1> QED BY <1>1, <1>2, <1>3, PTL DEF Spec

\* No mbuf is leaked and none is freed twice, on any path of sendTxPacket and
\* handleTxInterrupt, whatever the controller does with the Owner flags.
THEOREM MbufsAlwaysConserved == Spec => []MbufsConserved
<1>1. MbufInv => MbufsConserved
  BY DEF MbufInv
<1> QED BY <1>1, MbufInvHolds, PTL

-----------------------------------------------------------------------------
(* What the controller reads.  The inductive invariant names the parts of  *)
(* the ring the controller relies on, and where it is on it.               *)

\* A recorded packet's descriptors hold its segments in order, and the first
\* one the number of descriptors to walk.
ChainsFilled ==
  \A s \in Slots : segsOf[s] > 0 =>
    /\ span[s] = segsOf[s]
    /\ \A i \in 0..(segsOf[s] - 1) : seg[Advance(s, i)] = <<packetOf[s], i + 1>>

\* So do the descriptors sendTxPacket has filled so far, and none of them has
\* the End mark.
PartFilled ==
  pc = "fill" =>
    \A i \in 0..(txDone - 1) :
      /\ seg[Advance(writeIndex, i)] = <<txPacket, i + 1>>
      /\ ~endMark[Advance(writeIndex, i)]

\* Between its record and its hand-off a packet is the last one of the ring.
LastRecorded ==
  pc = "handoff" =>
    /\ DescStart \in Slots
    /\ txSegs \in 1..MaxSegCount
    /\ segsOf[DescStart] = txSegs
    /\ Advance(DescStart, txSegs) = writeIndex
    /\ ~owner[DescStart]

\* No descriptor outside the recorded packets has the Owner flag, except those
\* being filled behind the first of a packet.
FreeQuiet ==
  \A s \in Slots : owner[s] /\ ~InUse(s) =>
    pc = "fill" /\ Offset(s) \in (Used + 1)..(Used + txDone - 1)

\* The descriptor the controller's current packet starts at, or will start at.
NicChain == IF nicPc = "walk" THEN nicFirst ELSE nicPos

\* The controller is on the ring, or walked off it in its current packet.
NicOnTrack == nicPos \in Slots \/ nicPc = "walk"

\* Then it walks a recorded packet or is where one starts, or where the next
\* one will.
NicAtChain ==
  NicOnTrack =>
    /\ segsOf[NicChain] > 0 \/ (NicChain = writeIndex /\ nicPc # "walk")
    /\ nicPc = "walk" =>
         /\ owner[nicFirst]
         /\ nicLeft <= segsOf[nicFirst]
         /\ nicPos \in Slots =>
              nicPos = Advance(nicFirst, segsOf[nicFirst] - nicLeft)

\* The packets the controller has not finished are those it owns and the one
\* about to be handed off.
OwnedFromNic ==
  NicOnTrack =>
    \A s \in Slots : segsOf[s] > 0 =>
      (owner[s] \/ HandingOff(s) <=> Offset(s) >= Offset(NicChain))

LastSlot == DescCount - 1

\* An End mark that is not on the ring's last descriptor is behind a packet
\* that starts there without one: the controller leaves the ring before it.
StrayEndBehindLast ==
  nicPos \in Slots =>
    \A d \in Slots \ {LastSlot} : endMark[d] =>
      /\ ~endMark[LastSlot]
      /\ segsOf[LastSlot] > 0
      /\ Offset(nicPos) <= Offset(LastSlot)
      /\ Offset(LastSlot) < Offset(d)

DmaInv ==
  /\ ChainsFilled
  /\ PartFilled
  /\ LastRecorded
  /\ FreeQuiet
  /\ NicAtChain
  /\ OwnedFromNic
  /\ StrayEndBehindLast

\* Distances from the read index are slots' numbers again, and the write index
\* is at the number of used descriptors.
LEMMA OffsetRange ==
  ASSUME TypeOK
  PROVE  /\ DescCount \in Nat
         /\ \A s \in Slots : Offset(s) \in 0..(DescCount - 1)
         /\ Used \in 0..(DescCount - 1)
         /\ Offset(writeIndex) = Used
         /\ Offset(readIndex) = 0
<1>1. readIndex \in Slots /\ writeIndex \in Slots /\ DescCount \in Nat
  BY RingAssumption DEF TypeOK
<1>2. \A s \in Slots : Offset(s) \in 0..(DescCount - 1)
  BY <1>1, UsedWraps DEF Offset, Slots
<1>3. Offset(readIndex) = 0
  BY <1>1, UsedWraps DEF Offset, Slots
<1>4. Offset(writeIndex) = Used
  BY DEF Offset, Used
<1> QED BY <1>1, <1>2, <1>3, <1>4

\* A recorded packet has between one and MaxSegCount descriptors, all used.
LEMMA ChainCount ==
  ASSUME TypeOK, ChainsTile, NEW s \in Slots, segsOf[s] > 0
  PROVE  /\ segsOf[s] \in 1..MaxSegCount
         /\ Offset(s) + segsOf[s] <= Used
BY RingAssumption DEF TypeOK, ChainsTile, SegCounts

\* A recorded packet's descriptors follow one another between the two indices.
LEMMA ChainSlots ==
  ASSUME TypeOK, ChainsTile, NEW s \in Slots, segsOf[s] > 0,
         NEW i \in 0..segsOf[s]
  PROVE  /\ Advance(s, i) \in Slots
         /\ Offset(Advance(s, i)) = Offset(s) + i
         /\ Offset(s) + i <= Used
<1>1. segsOf[s] \in 1..MaxSegCount /\ Offset(s) + segsOf[s] <= Used
  BY ChainCount
<1>2. i \in 0..DescCount /\ Offset(s) + i <= Used /\ Offset(s) + i < DescCount
  BY <1>1, OffsetRange, RingAssumption
<1> QED BY <1>1, <1>2, OffsetAdvance, AdvanceWraps

\* Two recorded packets have no descriptor in common.
LEMMA ChainsApart ==
  ASSUME TypeOK, ChainsTile, NEW s \in Slots, NEW t \in Slots,
         segsOf[s] > 0, segsOf[t] > 0, Offset(s) < Offset(t)
  PROVE  Offset(s) + segsOf[s] <= Offset(t)
<1>0. segsOf[s] \in 1..MaxSegCount /\ Offset(s) \in Nat /\ Offset(t) \in Nat
  BY OffsetRange, ChainCount
<1> SUFFICES ASSUME Offset(t) < Offset(s) + segsOf[s] PROVE FALSE
  BY <1>0
<1> DEFINE i == Offset(t) - Offset(s)
<1>1. i \in 1..(segsOf[s] - 1) /\ i \in 0..segsOf[s] /\ Offset(s) + i = Offset(t)
  BY <1>0
<1> HIDE DEF i
<1>2. Advance(s, i) \in Slots /\ Offset(Advance(s, i)) = Offset(t)
  BY <1>1, ChainSlots
<1>3. Advance(s, i) = t
  BY <1>2, OffsetInjective
<1>4. segsOf[Advance(s, i)] = 0
  BY <1>1 DEF ChainsTile
<1> QED BY <1>3, <1>4

\* The same for a slot of a packet that is not known to be a first one.
LEMMA ChainSlotUnique ==
  ASSUME TypeOK, ChainsTile, NEW s \in Slots, segsOf[s] > 0,
         NEW t \in Slots, segsOf[t] > 0,
         NEW i \in 0..(segsOf[s] - 1), NEW j \in 0..(segsOf[t] - 1),
         Advance(s, i) = Advance(t, j)
  PROVE  s = t /\ i = j
<1>1. /\ segsOf[s] \in 1..MaxSegCount /\ segsOf[t] \in 1..MaxSegCount
      /\ Offset(s) \in Nat /\ Offset(t) \in Nat
  BY ChainCount, OffsetRange
<1>2. Offset(s) + i = Offset(t) + j
  <2>1. i \in 0..segsOf[s] /\ j \in 0..segsOf[t]
    BY <1>1
  <2> QED BY <2>1, ChainSlots
<1>3. Offset(s) = Offset(t)
  BY <1>1, <1>2, ChainsApart
<1> QED BY <1>1, <1>2, <1>3, OffsetInjective

\* The descriptors sendTxPacket fills are in no recorded packet.
LEMMA FillSlots ==
  ASSUME TypeInv, ChainsTile, Room, NEW i \in 0..(MaxSegCount - 1)
  PROVE  /\ Advance(writeIndex, i) \in Slots
         /\ Offset(Advance(writeIndex, i)) = Used + i
         /\ Used + MaxSegCount < DescCount
         /\ \A s \in Slots : segsOf[s] > 0 =>
              \A j \in 0..(segsOf[s] - 1) : Advance(s, j) # Advance(writeIndex, i)
<1>1. /\ writeIndex \in Slots /\ Used \in Nat /\ Offset(writeIndex) = Used
      /\ Used + MaxSegCount < DescCount /\ MaxSegCount \in Nat \ {0}
  BY OffsetRange, RingAssumption DEF Room, TX_FREE, Used, TypeInv, TypeOK
<1>2. i \in 0..DescCount /\ Offset(writeIndex) + i < DescCount
  BY <1>1, RingAssumption
<1>3. /\ Advance(writeIndex, i) \in Slots
      /\ Offset(Advance(writeIndex, i)) = Used + i
  BY <1>1, <1>2, OffsetAdvance, AdvanceWraps DEF TypeInv
<1>4. ASSUME NEW s \in Slots, segsOf[s] > 0, NEW j \in 0..(segsOf[s] - 1)
      PROVE  Advance(s, j) # Advance(writeIndex, i)
  <2>1. j + 1 \in 0..segsOf[s] /\ j \in 0..segsOf[s]
    BY <1>4, ChainCount DEF TypeInv
  <2>2. Offset(Advance(s, j)) = Offset(s) + j /\ Offset(s) + j + 1 <= Used
    BY <2>1, <1>4, ChainSlots, OffsetRange DEF TypeInv
  <2>3. Offset(s) \in Nat
    BY OffsetRange DEF TypeInv
  <2> QED BY <2>2, <2>3, <1>1, <1>3, <1>4
<1> QED BY <1>1, <1>3, <1>4

\* With the wild stores confined to the last descriptor, sendTxPacket writes
\* End marks only into the packet it records.
WildHarmless == WildSlots \subseteq {LastSlot}

LEMMA MarksInPacket ==
  ASSUME TypeInv, WildHarmless, pc = "fill", txDone = txSegs,
         NEW marks \in EndMarks, NEW d \in marks
  PROVE  /\ writeIndex = LastSlot
         /\ d = Advance(writeIndex, txSegs - 1)
<1>1. writeIndex \in Slots /\ txSegs \in 1..MaxSegCount
  BY DEF TypeInv, TypeOK, Filling
<1>2. writeIndex = DescCount - 1
  BY DEF EndMarks
<1>3. CASE txSegs > 1
  BY <1>2, <1>3 DEF EndMarks, LastSlot
<1>4. CASE txSegs = 1
  <2>1. d = LastSlot
    BY <1>2, <1>4 DEF EndMarks, WildHarmless
  <2>2. Advance(writeIndex, 0) = writeIndex
    BY <1>1, AdvanceWraps, RingAssumption DEF Slots
  <2> QED BY <2>1, <2>2, <1>2, <1>4 DEF LastSlot
<1> QED BY <1>1, <1>3, <1>4

\* From the hand-off on nothing of a packet's descriptors is changed until the
\* controller gave the first one back ("the driver must not change it"), for
\* every ring size and every packet, if the store through sendTxPacket's
\* uninitialised pointer hits nothing but the last descriptor.
LEMMA StepKeepsOwned ==
  ASSUME TypeInv, ChainsTile, WildHarmless, [Next]_vars,
         NEW s \in Slots, segsOf[s] > 0, owner[s], NEW i \in 0..(segsOf[s] - 1)
  PROVE  LET d == Advance(s, i) IN
         /\ seg'[d] = seg[d] /\ span'[d] = span[d] /\ endMark'[d] = endMark[d]
<1> DEFINE d == Advance(s, i)
<1>1. /\ d \in Slots /\ endMark \in [Slots -> BOOLEAN]
      /\ span \in [Slots -> SegCounts]
      /\ seg \in [Slots -> Segments \cup {NoSegment}]
  <2>1. i \in 0..segsOf[s]
    BY ChainCount DEF TypeInv
  <2> QED BY <2>1, ChainSlots DEF TypeInv, TypeOK
<1>2. ASSUME NEW segs \in 1..MaxSegCount, FillFirst(segs)
      PROVE  /\ seg'[d] = seg[d] /\ span'[d] = span[d] /\ endMark'[d] = endMark[d]
  <2>1. 0 \in 0..(MaxSegCount - 1) /\ writeIndex \in Slots
    BY RingAssumption DEF TypeInv, TypeOK
  <2>2. Advance(writeIndex, 0) = writeIndex
    BY <2>1, AdvanceWraps, RingAssumption DEF Slots
  <2>3. d # writeIndex
    BY <2>1, <2>2, <1>2, FillSlots DEF FillFirst
  <2> QED BY <2>3, <1>1, <1>2 DEF FillFirst
<1>3. CASE FillNext
  <2>1. Room /\ txDone \in 0..(MaxSegCount - 1)
    BY <1>3, RingAssumption DEF FillNext, TypeInv, Filling
  <2>2. d # Advance(writeIndex, txDone)
    BY <2>1, FillSlots
  <2> QED BY <2>2, <1>1, <1>3 DEF FillNext
<1>4. CASE Record
  <2>1. /\ Room /\ 0 \in 0..(MaxSegCount - 1) /\ writeIndex \in Slots
        /\ txSegs - 1 \in 0..(MaxSegCount - 1)
    BY <1>4, RingAssumption DEF Record, TypeInv, TypeOK, Filling
  <2>2. Advance(writeIndex, 0) = writeIndex
    BY <2>1, AdvanceWraps, RingAssumption DEF Slots
  <2>3. d # writeIndex /\ d # Advance(writeIndex, txSegs - 1)
    BY <2>1, <2>2, FillSlots
  <2>4. PICK marks \in EndMarks : endMark' = [t \in Slots |-> endMark[t] \/ t \in marks]
    BY <1>4 DEF Record
  <2>5. d \notin marks
    BY <2>3, <2>4, <1>4, MarksInPacket DEF Record
  <2>6. endMark'[d] = endMark[d]
    BY <2>4, <2>5, <1>1
  <2> QED BY <2>3, <2>6, <1>1, <1>4 DEF Record
<1>5. CASE /\ ~\E segs \in 1..MaxSegCount : FillFirst(segs)
           /\ ~FillNext /\ ~Record
  <2>1. UNCHANGED <<seg, span, endMark>>
    BY <1>5 DEF Next, Driver, Nic, vars, ringVars, OutputPacket, OutputStall,
       OutputDropped, HandOff, Poll, ReadStatus, AckStatus, FreeSent, Service,
       NicFetch, NicReadSegment, NicWriteBack, NicRaise, NicSleep, NicOtherCause
  <2> QED BY <2>1
<1> QED BY <1>2, <1>3, <1>4, <1>5

\* sendTxPacket stores nothing to a descriptor that is the controller's, for every
\* ring size, every segment limit and every set of packets, under the same
\* hypothesis about its uninitialised pointer as below.
THEOREM HandedOffAlwaysFrozen ==
  ASSUME WildHarmless PROVE Spec => HandedOffFrozen
<1>1. TypeInv /\ ChainsTile /\ [Next]_vars =>
        \A s \in Slots : segsOf[s] > 0 /\ owner[s] =>
          \A i \in 0..(segsOf[s] - 1) :
            LET d == Advance(s, i) IN
            /\ seg'[d] = seg[d]
            /\ span'[d] = span[d]
            /\ endMark'[d] = endMark[d]
  BY StepKeepsOwned
<1>2. Spec => [](TypeInv /\ ChainsTile)
  BY TypeCorrect, ChainsAlwaysTile, PTL DEF TypeInv
<1> QED BY <1>1, <1>2, PTL DEF Spec, HandedOffFrozen

-----------------------------------------------------------------------------
(* Each step keeps DmaInv.                                                 *)

\* Steps that touch neither the descriptors nor the controller's place.
LEMMA QuietStep ==
  ASSUME TypeInv, DmaInv,
         UNCHANGED <<ringVars, stateVars, readIndex, writeIndex, nicPos, nicLeft>>,
         \/ /\ pc \notin {"fill", "handoff"} /\ pc' \notin {"fill", "handoff"}
            /\ UNCHANGED <<nicPc, nicFirst>>
         \/ /\ UNCHANGED <<pc, txVars>>
            /\ nicPc \in {"scan", "raise"} /\ nicPc' \in {"scan", "raise"}
         \/ UNCHANGED <<pc, txVars, nicPc, nicFirst>>
  PROVE  DmaInv'
<1> USE DEF ringVars, stateVars, txVars
<1>1. /\ \A s : Offset(s)' = Offset(s)
      /\ Used' = Used
      /\ \A s : InUse(s)' = InUse(s)
  BY DEF Offset, Used, InUse
<1>2. pc' \in {"fill", "handoff"} \/ pc \in {"fill", "handoff"} =>
        UNCHANGED <<pc, txVars>>
  OBVIOUS
<1>3. pc \in {"fill", "handoff"} => DescStart' = DescStart
  BY <1>2 DEF DescStart
<1>4. \A s : HandingOff(s)' <=> HandingOff(s)
  <2>1. CASE pc = "handoff"
    BY <2>1, <1>2, <1>3 DEF HandingOff
  <2>2. CASE pc # "handoff"
    BY <2>2, <1>2 DEF HandingOff
  <2> QED BY <2>1, <2>2
<1>5. /\ NicChain' = NicChain
      /\ nicPc' = "walk" <=> nicPc = "walk"
      /\ NicOnTrack' <=> NicOnTrack
  BY DEF NicChain, NicOnTrack
<1>6. nicPc' = "walk" => nicFirst' = nicFirst
  OBVIOUS
<1>7. ChainsFilled'
  BY DEF DmaInv, ChainsFilled, Advance
<1>8. PartFilled'
  BY <1>2 DEF DmaInv, PartFilled, Advance
<1>9. LastRecorded'
  BY <1>2, <1>3 DEF DmaInv, LastRecorded, Advance
<1>10. FreeQuiet'
  BY <1>1, <1>2 DEF DmaInv, FreeQuiet
<1>11. NicAtChain'
  BY <1>5, <1>6 DEF DmaInv, NicAtChain, Advance
<1>12. OwnedFromNic'
  BY <1>1, <1>4, <1>5 DEF DmaInv, OwnedFromNic
<1>13. StrayEndBehindLast'
  BY <1>1 DEF DmaInv, StrayEndBehindLast
<1> QED BY <1>7, <1>8, <1>9, <1>10, <1>11, <1>12, <1>13 DEF DmaInv

LEMMA QuietActions ==
  ASSUME TypeInv, DmaInv,
         \/ \E p \in Packets : OutputPacket(p)
         \/ OutputStall \/ OutputDropped \/ Poll
         \/ ReadStatus \/ AckStatus \/ Service
         \/ NicRaise \/ NicSleep \/ NicOtherCause
         \/ UNCHANGED vars
  PROVE  DmaInv'
<1>1. UNCHANGED <<ringVars, stateVars, readIndex, writeIndex, nicPos, nicLeft>>
  BY DEF OutputPacket, OutputStall, OutputDropped, Poll, ReadStatus, AckStatus,
     Service, NicRaise, NicSleep, NicOtherCause, vars, nicVars, driverVars,
     ringVars, stateVars
<1>2. CASE \/ \E p \in Packets : OutputPacket(p)
           \/ OutputStall \/ OutputDropped \/ Poll
           \/ ReadStatus \/ AckStatus \/ Service
  <2>1. /\ pc \notin {"fill", "handoff"} /\ pc' \notin {"fill", "handoff"}
        /\ UNCHANGED <<nicPc, nicFirst>>
    BY <1>2 DEF OutputPacket, OutputStall, OutputDropped, Poll, ReadStatus,
       AckStatus, Service, nicVars, Return
  <2> QED BY <1>1, <2>1, QuietStep
<1>3. CASE NicRaise
  <2>1. /\ UNCHANGED <<pc, txVars>>
        /\ nicPc \in {"scan", "raise"} /\ nicPc' \in {"scan", "raise"}
    BY <1>3 DEF NicRaise, driverVars, txVars
  <2> QED BY <1>1, <2>1, QuietStep
<1>4. CASE NicSleep \/ NicOtherCause \/ UNCHANGED vars
  <2>1. UNCHANGED <<pc, txVars, nicPc, nicFirst>>
    BY <1>4 DEF NicSleep, NicOtherCause, driverVars, txVars, nicVars, vars
  <2> QED BY <1>1, <2>1, QuietStep
<1> QED BY <1>2, <1>3, <1>4

\* Where the controller is, as a distance from the read index.
LEMMA NicChainOffset ==
  ASSUME TypeInv, ChainsTile, NicAtChain, NicOnTrack
  PROVE  /\ NicChain \in Slots
         /\ Offset(NicChain) <= Used
<1>1. NicChain \in Slots /\ Offset(NicChain) \in Nat /\ Used \in Nat
  <2>1. NicChain \in Slots
    BY DEF NicChain, NicOnTrack, TypeInv, TypeOK
  <2> QED BY <2>1, OffsetRange DEF TypeInv
<1>2. CASE segsOf[NicChain] > 0
  <2>1. Offset(NicChain) + segsOf[NicChain] <= Used /\ segsOf[NicChain] \in Nat
    BY <1>1, <1>2, ChainCount DEF TypeInv
  <2> QED BY <2>1, <1>1
<1>3. CASE NicChain = writeIndex
  BY <1>1, <1>3, OffsetRange DEF TypeInv
<1> QED BY <1>2, <1>3 DEF NicAtChain

LEMMA NicOffset ==
  ASSUME TypeInv, ChainsTile, NicAtChain, nicPos \in Slots
  PROVE  /\ Offset(NicChain) <= Offset(nicPos)
         /\ Offset(nicPos) <= Used
<1>1. /\ nicFirst \in Slots /\ nicLeft \in Nat /\ Used \in Nat
      /\ Offset(nicPos) \in Nat /\ Offset(nicFirst) \in Nat
  BY OffsetRange, RingAssumption DEF TypeInv, TypeOK, SegCounts
<1>2. CASE nicPc = "walk"
  <2>1. segsOf[nicFirst] > 0 /\ nicLeft <= segsOf[nicFirst]
    BY <1>2 DEF NicAtChain, NicChain, NicOnTrack
  <2> DEFINE i == segsOf[nicFirst] - nicLeft
  <2>2. i \in 0..segsOf[nicFirst] /\ segsOf[nicFirst] \in Nat
    BY <2>1, <1>1, ChainCount DEF TypeInv
  <2>3. nicPos = Advance(nicFirst, i)
    BY <1>2 DEF NicAtChain, NicOnTrack
  <2> HIDE DEF i
  <2>4. Offset(nicPos) = Offset(nicFirst) + i /\ Offset(nicFirst) + i <= Used
    BY <2>1, <2>2, <2>3, <1>1, ChainSlots DEF TypeInv
  <2> QED BY <1>1, <1>2, <2>2, <2>4 DEF NicChain
<1>3. CASE nicPc # "walk"
  <2>1. NicChain = nicPos
    BY <1>3 DEF NicChain
  <2>2. Offset(NicChain) <= Used
    BY NicChainOffset DEF NicOnTrack
  <2> QED BY <2>1, <2>2, <1>1
<1> QED BY <1>2, <1>3

\* Filling a descriptor behind the write index disturbs no recorded packet and
\* not the controller.
LEMMA FillStep ==
  ASSUME TypeInv, ChainsTile, DmaInv, Room, NEW i \in 0..(MaxSegCount - 1),
         UNCHANGED <<stateVars, readIndex, writeIndex, nicVars>>,
         pc' = "fill", pc # "handoff",
         NEW o \in BOOLEAN, NEW g,
         owner' = [owner EXCEPT ![Advance(writeIndex, i)] = o],
         endMark' = [endMark EXCEPT ![Advance(writeIndex, i)] = FALSE],
         seg' = [seg EXCEPT ![Advance(writeIndex, i)] = g],
         \A s \in Slots : segsOf[s] > 0 => span'[s] = span[s]
  PROVE  /\ ChainsFilled'
         /\ NicAtChain'
         /\ OwnedFromNic'
         /\ StrayEndBehindLast'
<1> DEFINE w == Advance(writeIndex, i)
<1> USE DEF stateVars, nicVars
<1>1. /\ w \in Slots /\ owner \in [Slots -> BOOLEAN]
      /\ endMark \in [Slots -> BOOLEAN]
      /\ seg \in [Slots -> Segments \cup {NoSegment}]
  BY FillSlots DEF TypeInv, TypeOK
<1>2. /\ \A s : Offset(s)' = Offset(s)
      /\ Used' = Used
      /\ NicChain' = NicChain
      /\ \A s : Advance(s, i)' = Advance(s, i)
  BY DEF Offset, Used, NicChain, Advance
<1>3. ASSUME NEW s \in Slots, segsOf[s] > 0, NEW j \in 0..(segsOf[s] - 1)
      PROVE  Advance(s, j) \in Slots /\ Advance(s, j) # w
  <2>1. j \in 0..segsOf[s]
    BY <1>3, ChainCount DEF TypeInv
  <2> QED BY <2>1, <1>3, ChainSlots, FillSlots DEF TypeInv
<1>4. ASSUME NEW s \in Slots, segsOf[s] > 0 PROVE s # w
  <2>1. 0 \in 0..(segsOf[s] - 1)
    BY <1>4, ChainCount DEF TypeInv
  <2>2. Advance(s, 0) = s
    BY AdvanceWraps, RingAssumption DEF Slots
  <2> QED BY <2>1, <2>2, <1>3, <1>4
<1>5. ChainsFilled'
  BY <1>1, <1>3 DEF DmaInv, ChainsFilled, Advance
<1>6. \A s \in Slots : segsOf[s] > 0 => owner'[s] = owner[s]
  BY <1>1, <1>4
<1>7. NicAtChain'
  <2> SUFFICES ASSUME NicOnTrack PROVE NicAtChain'
    BY DEF NicAtChain, NicOnTrack
  <2>1. nicPc = "walk" => segsOf[nicFirst] > 0 /\ nicFirst \in Slots
    BY DEF DmaInv, NicAtChain, NicChain, TypeInv, TypeOK
  <2> QED BY <2>1, <1>2, <1>6 DEF DmaInv, NicAtChain, NicOnTrack, Advance
<1>8. OwnedFromNic'
  BY <1>2, <1>6 DEF DmaInv, OwnedFromNic, NicOnTrack, HandingOff
<1>9. StrayEndBehindLast'
  <2> SUFFICES ASSUME nicPos \in Slots, NEW d \in Slots \ {LastSlot}, endMark'[d]
               PROVE  /\ ~endMark'[LastSlot]
                      /\ segsOf[LastSlot] > 0
                      /\ Offset(nicPos) <= Offset(LastSlot)
                      /\ Offset(LastSlot) < Offset(d)
    BY <1>2 DEF StrayEndBehindLast, LastSlot
  <2>1. endMark[d]
    BY <1>1
  <2>2. LastSlot \in Slots
    BY RingAssumption DEF LastSlot, Slots
  <2>3. /\ ~endMark[LastSlot]
        /\ segsOf[LastSlot] > 0
        /\ Offset(nicPos) <= Offset(LastSlot)
        /\ Offset(LastSlot) < Offset(d)
    BY <2>1 DEF DmaInv, StrayEndBehindLast
  <2> QED BY <2>2, <2>3, <1>1
<1> QED BY <1>5, <1>7, <1>8, <1>9

LEMMA FillFirstDma ==
  ASSUME TypeInv, ChainsTile, DmaInv, NEW segs \in 1..MaxSegCount, FillFirst(segs)
  PROVE  DmaInv'
<1>1. /\ Room /\ 0 \in 0..(MaxSegCount - 1) /\ writeIndex \in Slots
      /\ pc = "output" /\ pc' = "fill" /\ txDone' = 1
      /\ UNCHANGED <<span, stateVars, readIndex, writeIndex, nicVars, txPacket>>
      /\ owner \in [Slots -> BOOLEAN] /\ endMark \in [Slots -> BOOLEAN]
      /\ seg \in [Slots -> Segments \cup {NoSegment}]
  BY RingAssumption DEF FillFirst, TypeInv, TypeOK
<1>2. Advance(writeIndex, 0) = writeIndex
  BY <1>1, AdvanceWraps, RingAssumption DEF Slots
<1>3. /\ owner' = [owner EXCEPT ![Advance(writeIndex, 0)] = FALSE]
      /\ endMark' = [endMark EXCEPT ![Advance(writeIndex, 0)] = FALSE]
      /\ seg' = [seg EXCEPT ![Advance(writeIndex, 0)] = <<txPacket, 1>>]
  BY <1>2 DEF FillFirst
<1>4. ChainsFilled' /\ NicAtChain' /\ OwnedFromNic' /\ StrayEndBehindLast'
  BY <1>1, <1>3, FillStep
<1>5. PartFilled'
  <2>1. \A i \in 0..(txDone' - 1) : i = 0
    BY <1>1
  <2> QED BY <2>1, <1>1, <1>2, <1>3 DEF PartFilled, Advance
<1>6. LastRecorded'
  BY <1>1 DEF LastRecorded
<1>7. FreeQuiet'
  <2>1. \A s : Offset(s)' = Offset(s) /\ InUse(s)' = InUse(s)
    BY <1>1 DEF Offset, InUse, Used
  <2>2. \A s \in Slots : owner'[s] => owner[s]
    BY <1>1, <1>2, <1>3
  <2> QED BY <2>1, <2>2, <1>1 DEF DmaInv, FreeQuiet
<1> QED BY <1>4, <1>5, <1>6, <1>7 DEF DmaInv

LEMMA FillNextDma ==
  ASSUME TypeInv, ChainsTile, DmaInv, FillNext PROVE DmaInv'
<1> DEFINE w == Advance(writeIndex, txDone)
<1>1. /\ Room /\ txDone \in 1..(MaxSegCount - 1) /\ txDone \in 0..(MaxSegCount - 1)
      /\ writeIndex \in Slots
      /\ pc = "fill" /\ pc' = "fill" /\ txDone' = txDone + 1
      /\ UNCHANGED <<stateVars, readIndex, writeIndex, nicVars, txPacket>>
      /\ owner \in [Slots -> BOOLEAN] /\ endMark \in [Slots -> BOOLEAN]
      /\ seg \in [Slots -> Segments \cup {NoSegment}]
      /\ span \in [Slots -> SegCounts]
  BY RingAssumption DEF FillNext, TypeInv, TypeOK, Filling
<1>2. /\ owner' = [owner EXCEPT ![w] = TRUE]
      /\ endMark' = [endMark EXCEPT ![w] = FALSE]
      /\ span' = [span EXCEPT ![w] = 0]
      /\ seg' = [seg EXCEPT ![w] = <<txPacket, txDone + 1>>]
  BY DEF FillNext
<1>3. /\ w \in Slots /\ Offset(w) = Used + txDone /\ Used \in Nat
      /\ Used + MaxSegCount < DescCount
      /\ \A s \in Slots : segsOf[s] > 0 =>
           \A j \in 0..(segsOf[s] - 1) : Advance(s, j) # w
  BY <1>1, FillSlots, OffsetRange DEF TypeInv
<1>4. ASSUME NEW s \in Slots, segsOf[s] > 0 PROVE span'[s] = span[s]
  <2>1. 0 \in 0..(segsOf[s] - 1)
    BY <1>4, ChainCount DEF TypeInv
  <2>2. Advance(s, 0) = s
    BY AdvanceWraps, RingAssumption DEF Slots
  <2> QED BY <2>1, <2>2, <1>1, <1>2, <1>3, <1>4
<1>5. ChainsFilled' /\ NicAtChain' /\ OwnedFromNic' /\ StrayEndBehindLast'
  <2> HIDE DEF w
  <2>1. TRUE \in BOOLEAN /\ pc # "handoff"
    BY <1>1
  <2> QED BY <2>1, <1>1, <1>2, <1>4, FillStep DEF w
<1>6. PartFilled'
  <2> SUFFICES ASSUME NEW i \in 0..txDone
               PROVE  /\ seg'[Advance(writeIndex, i)] = <<txPacket, i + 1>>
                      /\ ~endMark'[Advance(writeIndex, i)]
    BY <1>1 DEF PartFilled, Advance
  <2>1. CASE i = txDone
    BY <2>1, <1>1, <1>2, <1>3
  <2>2. CASE i # txDone
    <3>1. i \in 0..(txDone - 1) /\ i \in 0..(MaxSegCount - 1)
      BY <2>2, <1>1, RingAssumption
    <3>2. /\ Advance(writeIndex, i) \in Slots
          /\ Offset(Advance(writeIndex, i)) = Used + i
      BY <3>1, <1>1, FillSlots
    <3>3. Advance(writeIndex, i) # w
      BY <3>1, <3>2, <1>1, <1>3
    <3>4. seg[Advance(writeIndex, i)] = <<txPacket, i + 1>>
          /\ ~endMark[Advance(writeIndex, i)]
      BY <3>1, <1>1 DEF DmaInv, PartFilled
    <3> QED BY <3>2, <3>3, <3>4, <1>1, <1>2
  <2> QED BY <2>1, <2>2
<1>7. LastRecorded'
  BY <1>1 DEF LastRecorded
<1>8. FreeQuiet'
  <2>1. \A s : Offset(s)' = Offset(s) /\ InUse(s)' = InUse(s) /\ Used' = Used
    BY <1>1 DEF Offset, InUse, Used
  <2> SUFFICES ASSUME NEW s \in Slots, owner'[s], ~InUse(s)
               PROVE  Offset(s) \in (Used + 1)..(Used + txDone)
    BY <2>1, <1>1, <1>3 DEF FreeQuiet
  <2>2. CASE s = w
    BY <2>2, <1>1, <1>3
  <2>3. CASE s # w
    <3>1. owner[s]
      BY <2>3, <1>1, <1>2
    <3>2. Offset(s) \in (Used + 1)..(Used + txDone - 1)
      BY <3>1 DEF DmaInv, FreeQuiet
    <3> QED BY <3>2, <1>1, <1>3
  <2> QED BY <2>2, <2>3
<1> QED BY <1>5, <1>6, <1>7, <1>8 DEF DmaInv

\* DescStart is the write index a packet was recorded at.
LEMMA RecordStarts == ASSUME TypeInv, Record PROVE DescStart' = writeIndex
<1> DEFINE w == writeIndex
           n == txSegs
<1>1. /\ n \in 1..MaxSegCount /\ w \in 0..(DescCount - 1)
      /\ DescCount \in Nat /\ MaxSegCount < DescCount /\ MaxSegCount \in Nat
  BY RingAssumption DEF Record, TypeInv, TypeOK, Filling, Slots
<1>2. Advance(w, n) = IF w + n < DescCount THEN w + n ELSE w + n - DescCount
  <2>1. w \in Slots /\ n \in 0..DescCount
    BY <1>1 DEF Slots
  <2> QED BY <2>1, AdvanceWraps
<1>3. DescStart' = (Advance(w, n) - n) % DescCount
  BY DEF DescStart, Record, txVars
<1>4. CASE w + n < DescCount
  <2>1. w % DescCount = w
    BY <1>1
  <2> QED BY <2>1, <1>1, <1>2, <1>3, <1>4
<1>5. CASE w + n >= DescCount
  <2>1. DescStart' = (w - DescCount) % DescCount
    BY <1>1, <1>2, <1>3, <1>5
  <2>2. (w - DescCount) % DescCount = w
    BY <1>1
  <2> QED BY <2>1, <2>2
<1> QED BY <1>1, <1>4, <1>5

LEMMA RecordDma ==
  ASSUME TypeInv, ChainsTile, DmaInv, WildHarmless, Record PROVE DmaInv'
<1> DEFINE w == writeIndex
           n == txSegs
<1>1. /\ Room /\ n \in 1..MaxSegCount /\ txDone = n
      /\ w \in Slots /\ readIndex \in Slots
      /\ pc = "fill" /\ pc' = "handoff"
      /\ UNCHANGED <<owner, seg, readIndex, txVars, nicVars>>
      /\ packetOf' = [packetOf EXCEPT ![w] = txPacket]
      /\ segsOf' = [segsOf EXCEPT ![w] = n]
      /\ span' = [span EXCEPT ![w] = n]
      /\ writeIndex' = Advance(w, n)
      /\ packetOf \in [Slots -> Packets \cup {NoPacket}]
      /\ segsOf \in [Slots -> SegCounts]
      /\ span \in [Slots -> SegCounts]
      /\ endMark \in [Slots -> BOOLEAN]
  BY RingAssumption DEF Record, TypeInv, TypeOK, Filling
<1>2. /\ Used \in Nat /\ Offset(w) = Used /\ DescCount \in Nat
      /\ Used + MaxSegCount < DescCount
      /\ segsOf[w] = 0
  <2>1. 0 \in 0..(MaxSegCount - 1)
    BY RingAssumption
  <2> QED BY <2>1, <1>1, OffsetRange, FillSlots, WriteSlotFree DEF TypeInv
<1>3. ASSUME NEW i \in 0..n
      PROVE  /\ Advance(w, i) \in Slots
             /\ Offset(Advance(w, i)) = Used + i
  <2>1. i \in 0..DescCount /\ Offset(w) + i < DescCount
    BY <1>1, <1>2, RingAssumption
  <2> QED BY <2>1, <1>1, <1>2, OffsetAdvance, AdvanceWraps DEF TypeInv
<1>4. /\ \A s : Offset(s)' = Offset(s)
      /\ NicChain' = NicChain
      /\ Used' = Used + n
  <2>1. n \in 0..n
    BY <1>1
  <2>2. Offset(Advance(w, n)) = Used + n
    BY <2>1, <1>3
  <2> QED BY <2>2, <1>1 DEF Offset, Used, NicChain, nicVars
<1>5. DescStart' = w
  BY RecordStarts
<1>6. \A s \in Slots : s # w => segsOf'[s] = segsOf[s] /\ packetOf'[s] = packetOf[s]
                               /\ span'[s] = span[s]
  BY <1>1
<1>7. segsOf'[w] = n /\ packetOf'[w] = txPacket /\ span'[w] = n
  BY <1>1
<1>8. ~owner[w]
  <2>1. ~InUse(w) /\ Offset(w) \notin (Used + 1)..(Used + n - 1)
    BY <1>2, <1>1 DEF InUse
  <2> QED BY <2>1, <1>1 DEF DmaInv, FreeQuiet
<1>9. ChainsFilled'
  <2> SUFFICES ASSUME NEW s \in Slots, segsOf'[s] > 0
               PROVE  /\ span'[s] = segsOf'[s]
                      /\ \A i \in 0..(segsOf'[s] - 1) :
                           seg[Advance(s, i)] = <<packetOf'[s], i + 1>>
    BY <1>1 DEF ChainsFilled, Advance
  <2>1. CASE s = w
    BY <2>1, <1>1, <1>7 DEF DmaInv, PartFilled
  <2>2. CASE s # w
    BY <2>2, <1>6 DEF DmaInv, ChainsFilled
  <2> QED BY <2>1, <2>2
<1>10. PartFilled'
  BY <1>1 DEF PartFilled
<1>11. LastRecorded'
  BY <1>1, <1>5, <1>7, <1>8 DEF LastRecorded, txVars, Advance
<1>12. FreeQuiet'
  <2> SUFFICES ASSUME NEW s \in Slots, owner[s], ~(Offset(s) < Used + n)
               PROVE  FALSE
    BY <1>1, <1>4 DEF FreeQuiet, InUse
  <2>1. Offset(s) \in Nat
    BY OffsetRange DEF TypeInv
  <2>2. ~InUse(s)
    BY <2>1, <1>1, <1>2 DEF InUse
  <2>3. Offset(s) \in (Used + 1)..(Used + n - 1)
    BY <2>2, <1>1 DEF DmaInv, FreeQuiet
  <2> QED BY <2>1, <2>3, <1>1, <1>2
<1>13. NicAtChain'
  <2> SUFFICES ASSUME NicOnTrack PROVE NicAtChain'
    BY <1>1 DEF NicAtChain, NicOnTrack, nicVars
  <2>1. nicPc = "walk" => nicFirst \in Slots /\ segsOf[nicFirst] > 0
    BY DEF DmaInv, NicAtChain, NicChain, TypeInv, TypeOK
  <2>2. nicPc = "walk" => nicFirst # w
    BY <2>1, <1>2
  <2>3. NicChain \in Slots
    BY NicChainOffset DEF DmaInv
  <2>4. segsOf'[NicChain] > 0
    <3>1. NicChain = w \/ segsOf[NicChain] > 0
      BY DEF DmaInv, NicAtChain
    <3> QED BY <3>1, <2>3, <1>1, <1>6, <1>7
  <2>5. nicPc = "walk" =>
          /\ owner[nicFirst]
          /\ nicLeft <= segsOf'[nicFirst]
          /\ nicPos \in Slots =>
               nicPos = Advance(nicFirst, segsOf'[nicFirst] - nicLeft)
    BY <2>1, <2>2, <1>6 DEF DmaInv, NicAtChain
  <2> QED BY <2>4, <2>5, <1>1, <1>4 DEF NicAtChain, Advance, nicVars
<1>14. OwnedFromNic'
  <2> SUFFICES ASSUME NicOnTrack, NEW s \in Slots, segsOf'[s] > 0
               PROVE  owner[s] \/ s = w <=> Offset(s) >= Offset(NicChain)
    BY <1>1, <1>4, <1>5 DEF OwnedFromNic, NicOnTrack, HandingOff, nicVars
  <2>1. CASE s = w
    <3>1. NicChain \in Slots /\ Offset(NicChain) <= Used /\ Offset(NicChain) \in Nat
      BY NicChainOffset, OffsetRange DEF DmaInv, TypeInv
    <3> QED BY <3>1, <2>1, <1>2
  <2>2. CASE s # w
    BY <2>2, <1>1, <1>6 DEF DmaInv, OwnedFromNic, HandingOff
  <2> QED BY <2>1, <2>2
<1>15. StrayEndBehindLast'
  <2> SUFFICES ASSUME nicPos \in Slots, NEW d \in Slots \ {LastSlot}, endMark'[d]
               PROVE  /\ ~endMark'[LastSlot]
                      /\ segsOf'[LastSlot] > 0
                      /\ Offset(nicPos) <= Offset(LastSlot)
                      /\ Offset(LastSlot) < Offset(d)
    BY <1>1, <1>4 DEF StrayEndBehindLast, LastSlot, nicVars
  <2>1. LastSlot \in Slots
    BY RingAssumption DEF LastSlot, Slots
  <2>2. PICK marks \in EndMarks :
          endMark' = [s \in Slots |-> endMark[s] \/ s \in marks]
    BY DEF Record
  <2>3. \A m \in marks : w = LastSlot /\ m = Advance(w, n - 1)
    BY <1>1, <2>2, MarksInPacket
  <2>4. endMark[d] => /\ ~endMark[LastSlot]
                      /\ segsOf[LastSlot] > 0
                      /\ Offset(nicPos) <= Offset(LastSlot)
                      /\ Offset(LastSlot) < Offset(d)
    BY DEF DmaInv, StrayEndBehindLast
  <2>5. CASE endMark[d]
    <3>1. w # LastSlot
      BY <2>4, <2>5, <1>2
    <3>2. marks = {}
      BY <3>1, <2>3
    <3> QED BY <3>1, <3>2, <2>1, <2>2, <2>4, <2>5, <1>6
  <2>6. CASE ~endMark[d]
    <3>1. w = LastSlot /\ d = Advance(w, n - 1)
      BY <2>2, <2>3, <2>6
    <3>2. Offset(d) = Used + (n - 1)
      <4>1. n - 1 \in 0..n
        BY <1>1
      <4> QED BY <4>1, <3>1, <1>3
    <3>3. d # w
      BY <3>1
    <3>4. Advance(w, 0) = w /\ 0 \in 0..(txDone - 1)
      BY <1>1, AdvanceWraps, RingAssumption DEF Slots
    <3>5. n - 1 # 0
      BY <3>1, <3>3, <3>4
    <3>6. ~endMark[w]
      BY <3>4, <1>1 DEF DmaInv, PartFilled
    <3>7. w \notin marks
      BY <2>3, <3>1, <3>3
    <3>8. Offset(nicPos) <= Used
      BY NicOffset DEF DmaInv
    <3>9. ~endMark'[LastSlot] /\ segsOf'[LastSlot] > 0
      BY <3>1, <3>6, <3>7, <2>1, <2>2, <1>1, <1>7
    <3> QED BY <3>1, <3>2, <3>5, <3>8, <3>9, <1>1, <1>2
  <2> QED BY <2>5, <2>6
<1> QED BY <1>9, <1>10, <1>11, <1>12, <1>13, <1>14, <1>15 DEF DmaInv

LEMMA HandOffDma ==
  ASSUME TypeInv, ChainsTile, DmaInv, HandOff PROVE DmaInv'
<1>1. /\ pc = "handoff" /\ pc' = "poll"
      /\ owner' = [owner EXCEPT ![DescStart] = TRUE]
      /\ UNCHANGED <<endMark, span, seg, stateVars, readIndex, writeIndex, nicVars>>
      /\ owner \in [Slots -> BOOLEAN]
  BY DEF HandOff, TypeInv, TypeOK
<1>2. /\ DescStart \in Slots
      /\ Offset(DescStart) < Used
  <2>1. /\ DescStart \in Slots
        /\ segsOf[DescStart] \in 1..MaxSegCount
    BY <1>1 DEF DmaInv, LastRecorded
  <2>2. Offset(DescStart) + segsOf[DescStart] <= Used
    BY <2>1, ChainCount DEF TypeInv
  <2> QED BY <2>1, <2>2, OffsetRange DEF TypeInv
<1>3. /\ \A s : Offset(s)' = Offset(s)
      /\ NicChain' = NicChain
      /\ Used' = Used
      /\ \A s : InUse(s)' = InUse(s)
  BY <1>1 DEF Offset, Used, NicChain, InUse, nicVars
<1>4. ChainsFilled' /\ PartFilled' /\ LastRecorded'
  BY <1>1 DEF DmaInv, ChainsFilled, PartFilled, LastRecorded, Advance, stateVars
<1>5. FreeQuiet'
  <2>1. InUse(DescStart)
    BY <1>2 DEF InUse
  <2> QED BY <2>1, <1>1, <1>2, <1>3 DEF DmaInv, FreeQuiet
<1>6. NicAtChain'
  <2>1. \A s \in Slots : owner[s] => owner'[s]
    BY <1>1
  <2>2. nicFirst \in Slots
    BY DEF TypeInv, TypeOK
  <2> QED BY <2>1, <2>2, <1>1, <1>3 DEF DmaInv, NicAtChain, NicOnTrack, Advance, stateVars, nicVars
<1>7. OwnedFromNic'
  <2>1. ASSUME NEW s \in Slots
        PROVE  owner'[s] \/ HandingOff(s)' <=> owner[s] \/ HandingOff(s)
    BY <1>1, <1>2 DEF HandingOff
  <2> QED BY <2>1, <1>1, <1>3 DEF DmaInv, OwnedFromNic, NicOnTrack, stateVars, nicVars
<1>8. StrayEndBehindLast'
  BY <1>1, <1>3 DEF DmaInv, StrayEndBehindLast, stateVars, nicVars
<1> QED BY <1>4, <1>5, <1>6, <1>7, <1>8 DEF DmaInv

\* Freeing the oldest packet takes nothing from the others.
LEMMA FreeSentKeeps ==
  ASSUME TypeInv, ChainsTile, FreeSent,
         NEW s \in Slots, s # readIndex, segsOf[s] > 0
  PROVE  /\ segsOf'[s] = segsOf[s]
         /\ packetOf'[s] = packetOf[s]
         /\ owner'[s] <=> owner[s]
         /\ Offset(s) \in Nat /\ Offset(s)' = Offset(s) - segsOf[readIndex]
<1> DEFINE k == segsOf[readIndex]
<1>1. /\ k \in 1..MaxSegCount /\ Offset(s) >= k
      /\ Offset(s)' = Offset(s) - k
      /\ Offset(readIndex) = 0 /\ Offset(s) \in Nat
  BY FreeSentOffsets, OffsetRange DEF TypeInv
<1>2. s \notin HeadSlots
  <2> SUFFICES ASSUME s \in HeadSlots PROVE FALSE
    OBVIOUS
  <2>1. PICK i \in 0..(k - 1) : s = Advance(readIndex, i)
    BY DEF HeadSlots
  <2>2. i \in 0..k /\ k > 0 /\ readIndex \in Slots
    BY <1>1 DEF TypeInv, TypeOK
  <2>3. Offset(s) = Offset(readIndex) + i
    BY <2>1, <2>2, ChainSlots DEF TypeInv
  <2> QED BY <2>2, <2>3, <1>1
<1> QED BY <1>1, <1>2 DEF FreeSent, TypeInv, TypeOK

LEMMA FreeSentDma ==
  ASSUME TypeInv, ChainsTile, DmaInv, FreeSent PROVE DmaInv'
<1> DEFINE r == readIndex
           k == segsOf[readIndex]
<1>1. /\ pc = "drain" /\ pc' = "drain" /\ ~owner[r] /\ r \in Slots
      /\ packetOf' = [packetOf EXCEPT ![r] = NoPacket]
      /\ segsOf' = [segsOf EXCEPT ![r] = 0]
      /\ owner' = [s \in Slots |-> owner[s] /\ s \notin HeadSlots]
      /\ UNCHANGED <<endMark, span, seg, writeIndex, nicVars>>
      /\ packetOf \in [Slots -> Packets \cup {NoPacket}]
      /\ segsOf \in [Slots -> SegCounts]
  BY DEF FreeSent, Sent, TypeInv, TypeOK
<1>2. /\ k \in 1..MaxSegCount /\ k <= Used /\ Used' = Used - k
      /\ \A s \in Slots : Offset(s) >= k => Offset(s)' = Offset(s) - k
      /\ \A s \in Slots : s # r /\ segsOf[s] > 0 => Offset(s) >= k
      /\ \A s \in Slots : Offset(s) < k => s \in HeadSlots
  BY FreeSentOffsets
<1> HIDE DEF k
<1>3. /\ Used \in Nat /\ \A s \in Slots : Offset(s) \in Nat
      /\ Offset(r) = 0 /\ Offset(writeIndex) = Used
  BY OffsetRange DEF TypeInv
<1>4. NicChain' = NicChain
  BY <1>1 DEF NicChain, nicVars
<1>5. ASSUME NEW s \in Slots, segsOf'[s] > 0
      PROVE  /\ s # r /\ segsOf'[s] = segsOf[s] /\ packetOf'[s] = packetOf[s]
             /\ Offset(s) >= k /\ Offset(s)' = Offset(s) - k
  BY <1>1, <1>2, <1>5
<1>6. ASSUME NEW s \in Slots, s # r, segsOf[s] > 0
      PROVE  segsOf'[s] = segsOf[s] /\ (owner'[s] <=> owner[s])
  BY <1>6, FreeSentKeeps
<1>7. ChainsFilled'
  BY <1>1, <1>5 DEF DmaInv, ChainsFilled, Advance
<1>8. PartFilled' /\ LastRecorded'
  BY <1>1 DEF PartFilled, LastRecorded
<1>9. FreeQuiet'
  <2> SUFFICES ASSUME NEW s \in Slots, owner'[s], ~InUse(s)' PROVE FALSE
    BY DEF FreeQuiet
  <2>1. owner[s] /\ s \notin HeadSlots
    BY <1>1
  <2>2. Offset(s) >= k
    BY <2>1, <1>2, <1>3
  <2>3. ~(Offset(s) - k < Used - k)
    BY <2>2, <1>2 DEF InUse
  <2>4. ~InUse(s)
    BY <2>3, <1>2, <1>3 DEF InUse
  <2> QED BY <2>1, <2>4, <1>1 DEF DmaInv, FreeQuiet
\* The controller is behind the freed packet.
<1>10. ASSUME NicOnTrack
       PROVE  NicChain \in Slots /\ NicChain # r /\ Offset(NicChain) >= k
  <2>1. NicChain \in Slots
    BY <1>10, NicChainOffset DEF DmaInv
  <2>2. segsOf[r] > 0 /\ ~HandingOff(r)
    BY <1>1, <1>2 DEF HandingOff, k
  <2>3. ~(Offset(r) >= Offset(NicChain))
    BY <2>2, <1>1, <1>10 DEF DmaInv, OwnedFromNic
  <2>4. NicChain # r
    BY <2>1, <2>3, <1>3
  <2>5. CASE segsOf[NicChain] > 0
    BY <2>1, <2>4, <2>5, <1>2
  <2>6. CASE NicChain = writeIndex
    BY <2>6, <2>1, <2>4, <1>2, <1>3
  <2> QED BY <2>1, <2>4, <2>5, <2>6, <1>10 DEF DmaInv, NicAtChain
<1>11. ASSUME nicPos \in Slots
       PROVE  Offset(nicPos) >= k
  <2>1. NicOnTrack /\ Offset(NicChain) <= Offset(nicPos)
    BY <1>11, NicOffset DEF DmaInv, NicOnTrack
  <2> QED BY <2>1, <1>2, <1>3, <1>10, <1>11
<1>12. NicAtChain'
  <2> SUFFICES ASSUME NicOnTrack PROVE NicAtChain'
    BY <1>1 DEF NicAtChain, NicOnTrack, nicVars
  <2>1. segsOf'[NicChain] = segsOf[NicChain]
    BY <1>1, <1>10
  <2>2. ASSUME nicPc = "walk"
        PROVE  owner'[nicFirst] /\ segsOf'[nicFirst] = segsOf[nicFirst]
    <3>1. NicChain = nicFirst /\ segsOf[nicFirst] > 0 /\ owner[nicFirst]
      BY <2>2 DEF NicChain, DmaInv, NicAtChain
    <3> QED BY <3>1, <1>1, <1>6, <1>10
  <2> QED BY <2>1, <2>2, <1>1, <1>4 DEF DmaInv, NicAtChain, Advance, nicVars
<1>13. OwnedFromNic'
  <2> SUFFICES ASSUME NicOnTrack, NEW s \in Slots, segsOf'[s] > 0
               PROVE  owner'[s] <=> Offset(s)' >= Offset(NicChain)'
    BY <1>1, <1>4 DEF OwnedFromNic, NicOnTrack, HandingOff, nicVars
  <2>1. s # r /\ segsOf[s] > 0 /\ Offset(s) >= k /\ Offset(s)' = Offset(s) - k
    BY <1>5
  <2>2. owner'[s] <=> owner[s]
    BY <2>1, <1>1, <1>6
  <2>3. owner[s] <=> Offset(s) >= Offset(NicChain)
    BY <2>1, <1>1 DEF DmaInv, OwnedFromNic, HandingOff
  <2>4. Offset(NicChain)' = Offset(NicChain) - k
    <3>1. \A t : t = NicChain => Offset(NicChain)' = Offset(t)'
      BY <1>4 DEF Offset
    <3> QED BY <3>1, <1>2, <1>10
  <2> QED BY <2>1, <2>2, <2>3, <2>4, <1>2, <1>3, <1>10
<1>14. StrayEndBehindLast'
  <2> SUFFICES ASSUME nicPos \in Slots, NEW d \in Slots \ {LastSlot}, endMark[d]
               PROVE  /\ ~endMark[LastSlot]
                      /\ segsOf'[LastSlot] > 0
                      /\ Offset(nicPos)' <= Offset(LastSlot)'
                      /\ Offset(LastSlot)' < Offset(d)'
    BY <1>1 DEF StrayEndBehindLast, LastSlot, nicVars
  <2>1. /\ ~endMark[LastSlot]
        /\ segsOf[LastSlot] > 0
        /\ Offset(nicPos) <= Offset(LastSlot)
        /\ Offset(LastSlot) < Offset(d)
    BY DEF DmaInv, StrayEndBehindLast
  <2>2. LastSlot \in Slots
    BY RingAssumption DEF LastSlot, Slots
  <2>3. Offset(nicPos) >= k /\ Offset(LastSlot) >= k /\ Offset(d) >= k
    BY <2>1, <2>2, <1>2, <1>3, <1>11
  <2>4. LastSlot # r
    BY <2>3, <1>2, <1>3
  <2>5. /\ Offset(LastSlot)' = Offset(LastSlot) - k
        /\ Offset(d)' = Offset(d) - k
    <3>1. \A t : t = LastSlot => Offset(LastSlot)' = Offset(t)'
      BY DEF Offset, LastSlot
    <3> QED BY <3>1, <2>2, <2>3, <1>2
  <2>6. Offset(nicPos)' = Offset(nicPos) - k
    <3>1. \A t : t = nicPos => Offset(nicPos)' = Offset(t)'
      BY <1>1 DEF Offset, nicVars
    <3> QED BY <3>1, <2>3, <1>2
  <2> QED BY <2>1, <2>2, <2>3, <2>4, <2>5, <2>6, <1>1, <1>2, <1>3
<1> QED BY <1>7, <1>8, <1>9, <1>12, <1>13, <1>14 DEF DmaInv

\* What a step of the controller leaves alone.
LEMMA NicFrame ==
  ASSUME UNCHANGED <<endMark, span, seg, driverVars>>
  PROVE  /\ UNCHANGED <<stateVars, readIndex, writeIndex, pc, txVars>>
         /\ \A s : Offset(s)' = Offset(s)
         /\ Used' = Used
         /\ \A s : InUse(s)' = InUse(s)
         /\ DescStart' = DescStart
         /\ \A s : HandingOff(s)' <=> HandingOff(s)
         /\ ChainsFilled => ChainsFilled'
         /\ PartFilled => PartFilled'
         /\ LastRecorded /\ (owner'[DescStart] => owner[DescStart]) => LastRecorded'
         /\ FreeQuiet /\ (\A s \in Slots : owner'[s] => owner[s]) => FreeQuiet'
<1> USE DEF driverVars, stateVars, txVars
<1>1. /\ \A s : Offset(s)' = Offset(s)
      /\ Used' = Used
      /\ \A s : InUse(s)' = InUse(s)
      /\ DescStart' = DescStart
  BY DEF Offset, Used, InUse, DescStart
<1>2. \A s : HandingOff(s)' <=> HandingOff(s)
  BY <1>1 DEF HandingOff
<1>3. (ChainsFilled => ChainsFilled') /\ (PartFilled => PartFilled')
  BY DEF ChainsFilled, PartFilled, Advance
<1>4. LastRecorded /\ (owner'[DescStart] => owner[DescStart]) => LastRecorded'
  BY <1>1 DEF LastRecorded, Advance
<1>5. FreeQuiet /\ (\A s \in Slots : owner'[s] => owner[s]) => FreeQuiet'
  BY <1>1 DEF FreeQuiet
<1> QED BY <1>1, <1>2, <1>3, <1>4, <1>5

LEMMA NicFetchDma ==
  ASSUME TypeInv, ChainsTile, DmaInv, NicFetch PROVE DmaInv'
<1>1. /\ nicPc = "scan" /\ nicPc' = "walk" /\ nicPos \in Slots /\ owner[nicPos]
      /\ nicFirst' = nicPos /\ nicPos' = nicPos
      /\ UNCHANGED <<owner, endMark, span, seg, driverVars>>
  BY DEF NicFetch, ringVars
<1>2. NicChain = nicPos /\ NicChain' = nicPos
  BY <1>1 DEF NicChain
<1>10. NicOnTrack /\ NicOnTrack'
  BY <1>1 DEF NicOnTrack
\* A descriptor at the write index is not owned yet.
<1>3. segsOf[nicPos] > 0
  <2> SUFFICES ASSUME nicPos = writeIndex PROVE FALSE
    BY <1>1, <1>2, <1>10 DEF DmaInv, NicAtChain
  <2>1. Offset(nicPos) = Used /\ Used \in Nat
    BY OffsetRange DEF TypeInv
  <2>2. ~InUse(nicPos)
    BY <2>1 DEF InUse
  <2>3. txDone \in Nat
    BY RingAssumption DEF TypeInv, TypeOK, SegCounts
  <2> QED BY <2>1, <2>2, <2>3, <1>1 DEF DmaInv, FreeQuiet
<1>4. /\ segsOf[nicPos] \in 1..MaxSegCount
      /\ nicLeft' = segsOf[nicPos]
  <2>1. segsOf[nicPos] \in 1..MaxSegCount /\ span[nicPos] = segsOf[nicPos]
    BY <1>1, <1>3, ChainCount DEF DmaInv, ChainsFilled, TypeInv
  <2> QED BY <2>1 DEF NicFetch
<1>5. Advance(nicPos, 0) = nicPos
  BY <1>1, AdvanceWraps, RingAssumption DEF Slots
<1>6. ChainsFilled' /\ PartFilled' /\ LastRecorded' /\ FreeQuiet'
  BY <1>1, NicFrame DEF DmaInv
<1>7. NicAtChain'
  <2>1. segsOf' = segsOf /\ writeIndex' = writeIndex /\ segsOf[nicPos] - nicLeft' = 0
    BY <1>1, <1>4 DEF driverVars, stateVars
  <2> QED BY <2>1, <1>1, <1>2, <1>3, <1>4, <1>5 DEF NicAtChain, Advance
<1>8. OwnedFromNic'
  BY <1>1, <1>2, <1>10, NicFrame DEF DmaInv, OwnedFromNic, stateVars
<1>9. StrayEndBehindLast'
  BY <1>1, NicFrame DEF DmaInv, StrayEndBehindLast, stateVars
<1> QED BY <1>6, <1>7, <1>8, <1>9 DEF DmaInv

LEMMA NicReadSegmentDma ==
  ASSUME TypeInv, ChainsTile, DmaInv, NicReadSegment PROVE DmaInv'
<1> DEFINE n == segsOf[nicFirst]
           i == n - nicLeft
<1>1. /\ nicPc = "walk" /\ nicPos \in Slots /\ nicLeft \in 1..MaxSegCount
      /\ nicLeft' = nicLeft - 1 /\ nicFirst \in Slots
      /\ nicPos' = IF endMark[nicPos] THEN 0 ELSE nicPos + 1
      /\ UNCHANGED <<owner, endMark, span, seg, driverVars, nicPc, nicFirst>>
      /\ endMark \in [Slots -> BOOLEAN]
      /\ DescCount \in Nat /\ DescCount > 1
  BY RingAssumption DEF NicReadSegment, ringVars, TypeInv, TypeOK, SegCounts
<1>2. /\ n \in 1..MaxSegCount /\ nicLeft <= n /\ owner[nicFirst]
      /\ nicPos = Advance(nicFirst, i)
  <2>1. n > 0 /\ nicLeft <= n /\ owner[nicFirst] /\ nicPos = Advance(nicFirst, i)
    BY <1>1 DEF DmaInv, NicAtChain, NicChain, NicOnTrack
  <2> QED BY <2>1, <1>1, ChainCount DEF TypeInv
<1>3. i \in 0..(n - 1) /\ i \in 0..n /\ i + 1 \in 0..n /\ n - nicLeft' = i + 1
  BY <1>1, <1>2
<1> HIDE DEF n, i
<1>4. /\ Offset(nicPos) = Offset(nicFirst) + i
      /\ Advance(nicFirst, i + 1) \in Slots
      /\ Offset(Advance(nicFirst, i + 1)) = Offset(nicFirst) + i + 1
      /\ Offset(nicFirst) \in Nat
  BY <1>1, <1>2, <1>3, ChainSlots, OffsetRange DEF TypeInv, n
<1>5. LastSlot \in Slots
  BY <1>1 DEF LastSlot, Slots
\* An End mark elsewhere is further round the ring than the controller.
<1>6. endMark[nicPos] => nicPos = LastSlot
  <2> SUFFICES ASSUME endMark[nicPos], nicPos # LastSlot PROVE FALSE
    OBVIOUS
  <2>1. Offset(nicPos) <= Offset(LastSlot) /\ Offset(LastSlot) < Offset(nicPos)
    BY <1>1 DEF DmaInv, StrayEndBehindLast
  <2> QED BY <2>1, <1>1, <1>5, OffsetRange DEF TypeInv
<1>7. ASSUME nicPos' \in Slots
      PROVE  /\ nicPos' = Advance(nicFirst, i + 1)
             /\ nicPos = LastSlot => endMark[LastSlot]
  <2>1. nicPos = LastSlot => endMark[LastSlot]
    BY <1>1, <1>7 DEF LastSlot, Slots
  <2>2. nicPos' = IF nicPos + 1 < DescCount THEN nicPos + 1
                                            ELSE nicPos + 1 - DescCount
    BY <2>1, <1>1, <1>6 DEF LastSlot, Slots
  <2>3. i \in 0..DescCount /\ i + 1 \in 0..DescCount
    BY <1>2, <1>3, RingAssumption
  <2>4. /\ nicPos = IF nicFirst + i < DescCount THEN nicFirst + i
                                                ELSE nicFirst + i - DescCount
        /\ Advance(nicFirst, i + 1) =
             IF nicFirst + (i + 1) < DescCount THEN nicFirst + (i + 1)
                                               ELSE nicFirst + (i + 1) - DescCount
    BY <2>3, <1>1, <1>2, AdvanceWraps
  <2>5. nicPos' = Advance(nicFirst, i + 1)
    BY <2>2, <2>3, <2>4, <1>1 DEF Slots
  <2> QED BY <2>1, <2>5
<1>8. ChainsFilled' /\ PartFilled' /\ LastRecorded' /\ FreeQuiet'
  BY <1>1, NicFrame DEF DmaInv
<1>9. segsOf' = segsOf /\ NicChain' = NicChain
  BY <1>1 DEF driverVars, stateVars, NicChain
<1>10. NicAtChain'
  <2>1. nicPos' \in Slots => nicPos' = Advance(nicFirst, segsOf[nicFirst] - nicLeft')
    BY <1>3, <1>7 DEF n
  <2>2. nicLeft' <= segsOf[nicFirst] /\ segsOf[nicFirst] > 0
    BY <1>1, <1>2 DEF n
  <2> QED BY <2>1, <2>2, <1>1, <1>2, <1>9 DEF NicAtChain, NicChain, Advance
<1>11. OwnedFromNic'
  BY <1>1, <1>9, NicFrame DEF DmaInv, OwnedFromNic, NicOnTrack
<1>12. StrayEndBehindLast'
  <2> SUFFICES ASSUME nicPos' \in Slots, NEW d \in Slots \ {LastSlot}, endMark[d]
               PROVE  /\ ~endMark[LastSlot]
                      /\ segsOf[LastSlot] > 0
                      /\ Offset(nicPos') <= Offset(LastSlot)
                      /\ Offset(LastSlot) < Offset(d)
    <3>1. readIndex' = readIndex
      BY <1>1 DEF driverVars
    <3> QED BY <3>1, <1>1, <1>9 DEF StrayEndBehindLast, LastSlot, Offset
  <2>1. /\ ~endMark[LastSlot]
        /\ segsOf[LastSlot] > 0
        /\ Offset(nicPos) <= Offset(LastSlot)
        /\ Offset(LastSlot) < Offset(d)
    BY <1>1 DEF DmaInv, StrayEndBehindLast
  <2>2. nicPos # LastSlot
    BY <2>1, <1>7
  <2>3. Offset(nicPos) # Offset(LastSlot)
    BY <2>2, <1>1, <1>5, OffsetInjective DEF TypeInv
  <2>4. Offset(nicPos') = Offset(nicPos) + 1
    BY <1>3, <1>4, <1>7
  <2>5. Offset(LastSlot) \in Nat /\ Offset(nicPos) \in Nat
    BY <1>1, <1>5, OffsetRange DEF TypeInv
  <2> QED BY <2>1, <2>3, <2>4, <2>5
<1> QED BY <1>8, <1>10, <1>11, <1>12 DEF DmaInv

LEMMA NicWriteBackDma ==
  ASSUME TypeInv, ChainsTile, DmaInv, NicWriteBack PROVE DmaInv'
<1> DEFINE n == segsOf[nicFirst]
<1>1. /\ nicPc = "walk" /\ nicPc' = "raise" /\ nicLeft = 0 /\ nicFirst \in Slots
      /\ owner' = [owner EXCEPT ![nicFirst] = FALSE]
      /\ owner \in [Slots -> BOOLEAN]
      /\ UNCHANGED <<endMark, span, seg, driverVars, nicPos>>
  BY DEF NicWriteBack, TypeInv, TypeOK
<1>2. \A s : owner'[s] => owner[s] \/ s \notin Slots
  BY <1>1
<1>3. ChainsFilled' /\ PartFilled' /\ FreeQuiet'
  BY <1>1, <1>2, NicFrame DEF DmaInv
<1>4. LastRecorded'
  <2>1. CASE pc = "handoff"
    <3>1. DescStart \in Slots
      BY <2>1 DEF DmaInv, LastRecorded
    <3> QED BY <3>1, <1>1, <1>2, NicFrame DEF DmaInv
  <2>2. CASE pc # "handoff"
    BY <2>2, <1>1 DEF LastRecorded, driverVars
  <2> QED BY <2>1, <2>2
<1>5. segsOf' = segsOf /\ writeIndex' = writeIndex /\ NicChain' = nicPos
  BY <1>1 DEF driverVars, stateVars, NicChain
<1>6. ASSUME nicPos \in Slots
      PROVE  /\ n \in 1..MaxSegCount /\ owner[nicFirst]
             /\ nicPos = Advance(nicFirst, n)
             /\ Offset(nicPos) = Offset(nicFirst) + n
             /\ Offset(nicFirst) + n <= Used
  <2>1. n > 0 /\ owner[nicFirst] /\ nicPos = Advance(nicFirst, n - 0)
    BY <1>1, <1>6 DEF DmaInv, NicAtChain, NicChain, NicOnTrack
  <2>2. n \in 1..MaxSegCount
    BY <2>1, <1>1, ChainCount DEF TypeInv
  <2>3. n - 0 = n /\ n \in 0..n
    BY <2>2
  <2> QED BY <2>1, <2>2, <2>3, <1>1, ChainSlots DEF TypeInv
<1>7. NicAtChain'
  <2> SUFFICES ASSUME nicPos \in Slots
               PROVE  segsOf[nicPos] > 0 \/ nicPos = writeIndex
    BY <1>1, <1>5 DEF NicAtChain, NicOnTrack
  <2>1. Offset(nicPos) < Used => segsOf[nicPos] > 0
    BY <1>1, <1>6 DEF ChainsTile
  <2>2. Offset(nicPos) = Used => nicPos = writeIndex
    BY OffsetRange, OffsetInjective DEF TypeInv, TypeOK
  <2> QED BY <2>1, <2>2, <1>6, OffsetRange DEF TypeInv
<1>8. OwnedFromNic'
  <2> SUFFICES ASSUME nicPos \in Slots, NEW s \in Slots, segsOf[s] > 0
               PROVE  owner'[s] \/ HandingOff(s) <=> Offset(s) >= Offset(nicPos)
    BY <1>1, <1>5, NicFrame DEF OwnedFromNic, NicOnTrack
  <2>1. owner[s] \/ HandingOff(s) <=> Offset(s) >= Offset(nicFirst)
    BY <1>1 DEF DmaInv, OwnedFromNic, NicChain, NicOnTrack
  <2>2. Offset(s) \in Nat /\ Offset(nicFirst) \in Nat /\ n > 0
    BY <1>1, <1>6, OffsetRange DEF TypeInv
  <2>3. CASE s = nicFirst
    <3>1. ~HandingOff(s)
      BY <2>3, <1>6 DEF HandingOff, DmaInv, LastRecorded
    <3> QED BY <3>1, <2>2, <2>3, <1>1, <1>6
  <2>4. CASE s # nicFirst
    <3>1. Offset(s) # Offset(nicFirst)
      BY <2>4, <1>1, OffsetInjective DEF TypeInv
    <3>2. Offset(s) > Offset(nicFirst) => Offset(s) >= Offset(nicFirst) + n
      BY <2>2, <1>1, ChainsApart DEF TypeInv
    <3> QED BY <3>1, <3>2, <2>1, <2>2, <2>4, <1>1, <1>6
  <2> QED BY <2>3, <2>4
<1>9. StrayEndBehindLast'
  BY <1>1, <1>5, NicFrame DEF DmaInv, StrayEndBehindLast
<1> QED BY <1>3, <1>4, <1>7, <1>8, <1>9 DEF DmaInv

LEMMA InitDmaInv == Init => DmaInv
<1> SUFFICES ASSUME Init PROVE DmaInv
  OBVIOUS
<1>1. /\ pc = "idle" /\ nicPc = "scan" /\ nicPos = 0 /\ writeIndex = 0
      /\ \A s \in Slots : segsOf[s] = 0 /\ ~owner[s] /\ (endMark[s] => s = LastSlot)
  BY DEF Init, LastSlot
<1> QED BY <1>1 DEF DmaInv, ChainsFilled, PartFilled, LastRecorded, FreeQuiet,
         NicAtChain, NicChain, NicOnTrack, OwnedFromNic, StrayEndBehindLast

LEMMA NextDmaInv ==
  ASSUME WildHarmless, TypeInv, ChainsTile, DmaInv, [Next]_vars PROVE DmaInv'
BY QuietActions, FillFirstDma, FillNextDma, RecordDma, HandOffDma, FreeSentDma,
   NicFetchDma, NicReadSegmentDma, NicWriteBackDma
DEF Next, Driver, Nic

\* The inductive invariant of the ring and the controller together.
RingInv == TypeInv /\ ChainsTile /\ MbufInv /\ DmaInv

LEMMA RingInvHolds == ASSUME WildHarmless PROVE Spec => []RingInv
<1>1. TypeInv /\ ChainsTile /\ DmaInv /\ [Next]_vars => DmaInv'
  BY NextDmaInv
<1>2. Spec => [](TypeInv /\ ChainsTile /\ MbufInv)
  BY TypeCorrect, ChainsAlwaysTile, MbufInvHolds, PTL DEF TypeInv
<1> QED BY <1>1, <1>2, InitDmaInv, PTL DEF Spec, RingInv

\* What the controller reads is the next segment of a recorded packet whose
\* mbuf the driver still holds, for every ring size, every segment limit and
\* every set of packets, if the store through sendTxPacket's uninitialised
\* pointer hits nothing but the last descriptor.
THEOREM DmaAlwaysReadsHeldPacket ==
  ASSUME WildHarmless PROVE Spec => []DmaReadsHeldPacket
<1>1. RingInv => DmaReadsHeldPacket
  <2> SUFFICES ASSUME RingInv, nicPc = "walk", nicLeft > 0, nicPos \in Slots
               PROVE  /\ packetOf[nicFirst] \in held
                      /\ seg[nicPos] = <<packetOf[nicFirst],
                                         segsOf[nicFirst] - nicLeft + 1>>
    BY DEF DmaReadsHeldPacket
  <2> USE DEF RingInv
  <2>1. /\ nicFirst \in Slots /\ nicLeft \in 1..MaxSegCount
        /\ segsOf[nicFirst] > 0 /\ nicLeft <= segsOf[nicFirst]
        /\ nicPos = Advance(nicFirst, segsOf[nicFirst] - nicLeft)
    BY RingAssumption
    DEF DmaInv, NicAtChain, NicChain, NicOnTrack, TypeInv, TypeOK, SegCounts
  <2>2. segsOf[nicFirst] - nicLeft \in 0..(segsOf[nicFirst] - 1)
    BY <2>1, ChainCount DEF TypeInv
  <2>3. packetOf[nicFirst] \in held
    BY <2>1 DEF MbufInv, PacketsCounted, MbufsConserved, InRing
  <2> QED BY <2>1, <2>2, <2>3 DEF DmaInv, ChainsFilled
<1> QED BY <1>1, RingInvHolds, PTL

-----------------------------------------------------------------------------
(* The ring implements the FIFO.                                           *)

\* A packet is in one slot, so the order and the transmission of the packets
\* can be read off their slots.
LEMMA SlotOfPacket ==
  ASSUME MbufInv, NEW s \in Slots, NEW t \in Slots,
         packetOf[s] = packetOf[t], packetOf[s] # NoPacket
  PROVE  s = t
BY DEF MbufInv, MbufsConserved

\* The ring never holds more packets than descriptors in use.
LEMMA PacketsFit ==
  ASSUME TypeInv, ChainsTile, MbufInv
  PROVE  IsFiniteSet(InRing) /\ Cardinality(InRing) <= Used
<1> DEFINE slot(p) == CHOOSE s \in Slots : packetOf[s] = p
           f == [p \in InRing |-> Offset(slot(p))]
           T == 0..(Used - 1)
<1>1. ASSUME NEW p \in InRing
      PROVE  /\ slot(p) \in Slots /\ packetOf[slot(p)] = p
             /\ f[p] \in T
  <2>1. slot(p) \in Slots /\ packetOf[slot(p)] = p /\ p # NoPacket
    BY DEF InRing
  <2> HIDE DEF slot
  <2>2. segsOf[slot(p)] > 0
    BY <2>1 DEF MbufInv, PacketsCounted
  <2>3. /\ Offset(slot(p)) + segsOf[slot(p)] <= Used
        /\ segsOf[slot(p)] \in 1..MaxSegCount
    BY <2>1, <2>2, ChainCount DEF TypeInv
  <2>4. Offset(slot(p)) \in Nat /\ Used \in Nat
    BY <2>1, OffsetRange DEF TypeInv
  <2> QED BY <2>1, <2>3, <2>4
<1>2. ASSUME NEW p \in InRing, NEW q \in InRing, f[p] = f[q] PROVE p = q
  <2> HIDE DEF slot
  <2>1. Offset(slot(p)) = Offset(slot(q))
    BY <1>2
  <2>2. slot(p) = slot(q)
    BY <2>1, <1>1, OffsetInjective DEF TypeInv
  <2> QED BY <2>2, <1>1
<1>3. f \in Injection(InRing, T)
  <2> HIDE DEF T
  <2>1. f \in [InRing -> T]
    BY <1>1
  <2> HIDE DEF f
  <2>2. DOMAIN f = InRing
    BY <2>1
  <2> QED BY <2>1, <2>2, <1>2 DEF Injection, IsInjective
<1>4. Used \in Nat
  BY OffsetRange DEF TypeInv
<1>5. IsFiniteSet(T) /\ Cardinality(T) = Used
  <2>1. 0 \in Int /\ Used - 1 \in Int
    BY <1>4
  <2>2. IsFiniteSet(T) /\ Cardinality(T) = IF 0 > Used - 1 THEN 0 ELSE Used - 1 - 0 + 1
    BY <2>1, FS_Interval
  <2> QED BY <2>2, <1>4
<1> HIDE DEF f, T
<1> QED BY <1>3, <1>5, FS_Injection

\* Steps that move no packet and no mark of one.
LEMMA FifoStutter ==
  ASSUME UNCHANGED <<packetOf, readIndex>>,
         \A s \in Slots : packetOf[s] # NoPacket =>
           (owner'[s] \/ HandingOff(s)' <=> owner[s] \/ HandingOff(s))
  PROVE  UNCHANGED <<InRing, OrderInRing, SentOfRing>>
<1>1. InRing' = InRing /\ \A s : Offset(s)' = Offset(s)
  BY DEF InRing, Offset
<1>2. OrderInRing' = OrderInRing
  BY <1>1 DEF OrderInRing
<1>3. SentOfRing' = SentOfRing
  <2>1. ASSUME NEW p \in InRing
        PROVE  (\E s \in Slots : packetOf'[s] = p /\ ~owner'[s] /\ ~HandingOff(s)')
               <=> (\E s \in Slots : packetOf[s] = p /\ ~owner[s] /\ ~HandingOff(s))
    <3>1. p # NoPacket
      BY DEF InRing
    <3> QED BY <3>1
  <2> QED BY <2>1, <1>1 DEF SentOfRing
<1> QED BY <1>1, <1>2, <1>3

\* sendTxPacket's record of a packet is an Accept.
LEMMA RecordAccepts ==
  ASSUME RingInv, WildHarmless, Record PROVE Fifo!Accept(txPacket)
<1> USE DEF RingInv
<1> DEFINE w == writeIndex
<1>1. /\ packetOf' = [packetOf EXCEPT ![w] = txPacket]
      /\ UNCHANGED <<owner, readIndex>>
      /\ pc = "fill" /\ w \in Slots /\ packetOf[w] = NoPacket
      /\ txPacket \in Packets /\ txPacket # NoPacket
      /\ packetOf \in [Slots -> Packets \cup {NoPacket}]
      /\ pc' = "handoff"
  BY WriteSlotFree, PacketAssumption
  DEF Record, TypeInv, TypeOK, Filling, MbufInv, PacketsCounted
<1>2. txPacket \notin InRing
  BY <1>1 DEF MbufInv, MbufsConserved, InHand
<1>3. InRing' = InRing \cup {txPacket}
  BY <1>1 DEF InRing
<1>4. \A s : Offset(s)' = Offset(s)
  BY <1>1 DEF Offset
<1>5. ASSUME NEW s \in Slots, packetOf[s] # NoPacket
      PROVE  Offset(s) < Offset(w) /\ s # w /\ packetOf'[s] = packetOf[s]
  <2>1. segsOf[s] > 0
    BY <1>5 DEF MbufInv, PacketsCounted
  <2>2. Offset(s) + segsOf[s] <= Used /\ segsOf[s] \in 1..MaxSegCount
    BY <2>1, ChainCount DEF TypeInv
  <2> QED BY <2>2, <1>1, <1>5, OffsetRange DEF TypeInv
<1>6. OrderInRing' = OrderInRing \cup (InRing \X {txPacket})
  <2>1. ASSUME NEW p \in InRing', NEW q \in InRing'
        PROVE  (\E s, t \in Slots : /\ packetOf'[s] = p /\ packetOf'[t] = q
                                    /\ Offset(s) < Offset(t))
               <=> \/ p \in InRing /\ q = txPacket
                   \/ /\ p \in InRing /\ q \in InRing
                      /\ \E s, t \in Slots : /\ packetOf[s] = p /\ packetOf[t] = q
                                             /\ Offset(s) < Offset(t)
    <3> DEFINE new == \E s, t \in Slots : /\ packetOf'[s] = p /\ packetOf'[t] = q
                                          /\ Offset(s) < Offset(t)
               old == \E s, t \in Slots : /\ packetOf[s] = p /\ packetOf[t] = q
                                          /\ Offset(s) < Offset(t)
    <3>1. ASSUME new, q = txPacket PROVE p \in InRing
      <4>1. PICK s \in Slots, t \in Slots :
              packetOf'[s] = p /\ packetOf'[t] = q /\ Offset(s) < Offset(t)
        BY <3>1
      <4>2. t = w
        BY <4>1, <3>1, <1>1, <1>2, <1>5 DEF InRing
      <4>3. s # w
        BY <4>1, <4>2, OffsetRange DEF TypeInv
      <4>4. packetOf[s] = p
        BY <4>1, <4>3, <1>1
      <4>5. p # NoPacket
        BY DEF InRing
      <4> QED BY <4>4, <4>5 DEF InRing
    <3>2. ASSUME new, q # txPacket PROVE p \in InRing /\ q \in InRing /\ old
      <4>1. PICK s \in Slots, t \in Slots :
              packetOf'[s] = p /\ packetOf'[t] = q /\ Offset(s) < Offset(t)
        BY <3>2
      <4>2. t # w /\ packetOf[t] = q /\ q \in InRing /\ q # NoPacket
        BY <4>1, <3>2, <1>1, <1>3 DEF InRing
      <4>3. Offset(t) < Offset(w)
        BY <4>2, <1>5
      <4>4. s # w
        BY <4>1, <4>3, <1>1, OffsetRange DEF TypeInv
      <4>5. packetOf[s] = p
        BY <4>1, <4>4, <1>1
      <4>6. p \in InRing
        BY <4>5, <1>2, <1>3 DEF InRing
      <4> QED BY <4>1, <4>2, <4>5, <4>6
    <3>3. ASSUME p \in InRing, q = txPacket PROVE new
      <4>1. PICK s \in Slots : packetOf[s] = p /\ p # NoPacket
        BY <3>3 DEF InRing
      <4>2. packetOf'[s] = p /\ Offset(s) < Offset(w) /\ packetOf'[w] = q
        BY <4>1, <3>3, <1>1, <1>5
      <4> QED BY <4>2, <1>1
    <3>4. ASSUME p \in InRing, q \in InRing, old PROVE new
      <4>1. PICK s \in Slots, t \in Slots :
              packetOf[s] = p /\ packetOf[t] = q /\ Offset(s) < Offset(t)
        BY <3>4
      <4>2. p # NoPacket /\ q # NoPacket
        BY <3>4 DEF InRing
      <4> QED BY <4>1, <4>2, <1>5
    <3> QED BY <3>1, <3>2, <3>3, <3>4
  <2> QED BY <2>1, <1>3, <1>4 DEF OrderInRing
<1>7. SentOfRing' = SentOfRing
  <2>1. \A s : s = w => HandingOff(s)'
    BY <1>1, RecordStarts DEF HandingOff
  <2>2. \A s : ~HandingOff(s)
    BY <1>1 DEF HandingOff
  <2>3. \A s \in Slots : s # w => ~HandingOff(s)'
    BY <1>1, RecordStarts DEF HandingOff
  <2>4. ASSUME NEW p \in InRing'
        PROVE  (\E s \in Slots : packetOf'[s] = p /\ ~owner[s] /\ ~HandingOff(s)')
               <=> /\ p \in InRing
                   /\ \E s \in Slots : packetOf[s] = p /\ ~owner[s] /\ ~HandingOff(s)
    <3>1. p # NoPacket
      BY DEF InRing
    <3>2. ASSUME NEW s \in Slots, packetOf'[s] = p, ~owner[s], ~HandingOff(s)'
          PROVE  p \in InRing /\ packetOf[s] = p /\ ~HandingOff(s)
      <4>1. s # w /\ packetOf[s] = p
        BY <3>2, <2>1, <1>1
      <4> QED BY <4>1, <3>1, <2>2 DEF InRing
    <3>3. ASSUME NEW s \in Slots, packetOf[s] = p
          PROVE  packetOf'[s] = p /\ ~HandingOff(s)'
      BY <3>1, <3>3, <2>3, <1>5
    <3> QED BY <3>2, <3>3
  <2> QED BY <2>4, <1>1, <1>3 DEF SentOfRing
<1>8. Cardinality(InRing) < DescCount - MaxSegCount
  <2>1. IsFiniteSet(InRing) /\ Cardinality(InRing) <= Used
    BY PacketsFit
  <2>2. Used + MaxSegCount < DescCount
    <3>1. Room /\ 0 \in 0..(MaxSegCount - 1)
      BY <1>1, RingAssumption DEF TypeInv, Filling
    <3> QED BY <3>1, FillSlots
  <2>3. Cardinality(InRing) \in Nat /\ Used \in Nat
    BY <2>1, FS_CardinalityType, OffsetRange DEF TypeInv
  <2> QED BY <2>1, <2>2, <2>3, RingAssumption
<1>9. Fifo!Cardinality(InRing) = Cardinality(InRing)
  BY DEF Cardinality, Fifo!Cardinality
<1> QED BY <1>2, <1>3, <1>6, <1>7, <1>8, <1>9 DEF Fifo!Accept

\* handleTxInterrupt's freeing of a packet is a Free.
LEMMA FreeSentFrees ==
  ASSUME RingInv, FreeSent PROVE Fifo!Free(packetOf[readIndex])
<1> USE DEF RingInv
<1> DEFINE r == readIndex
           p == packetOf[readIndex]
<1>1. /\ packetOf' = [packetOf EXCEPT ![r] = NoPacket]
      /\ r \in Slots /\ segsOf[r] > 0 /\ ~owner[r]
      /\ packetOf \in [Slots -> Packets \cup {NoPacket}]
      /\ p # NoPacket /\ Offset(r) = 0
      /\ \A s : ~HandingOff(s) /\ ~HandingOff(s)'
  BY OffsetRange
  DEF FreeSent, Sent, TypeInv, TypeOK, ChainsTile, MbufInv, PacketsCounted, HandingOff
<1>2. ASSUME NEW s \in Slots, s # r, packetOf[s] # NoPacket
      PROVE  /\ packetOf'[s] = packetOf[s] /\ packetOf[s] # p
             /\ owner'[s] <=> owner[s]
             /\ Offset(s) \in Nat /\ Offset(s)' = Offset(s) - segsOf[r]
  <2>1. segsOf[s] > 0
    BY <1>2 DEF MbufInv, PacketsCounted
  <2> QED BY <2>1, <1>1, <1>2, FreeSentKeeps, SlotOfPacket
<1>3. segsOf[r] \in Nat
  BY FreeSentOffsets
<1>4. InRing' = InRing \ {p}
  BY <1>1, <1>2 DEF InRing
<1>5. p \in SentOfRing
  BY <1>1 DEF SentOfRing, InRing
<1>6. Fifo!Before(p) = {}
  <2> SUFFICES ASSUME NEW s \in Slots, NEW t \in Slots, packetOf[t] = p,
                      Offset(s) < Offset(t)
               PROVE  FALSE
    BY DEF Fifo!Before, OrderInRing
  <2>1. t = r
    BY <1>1, SlotOfPacket
  <2> QED BY <2>1, <1>1, OffsetRange DEF TypeInv
<1>7. OrderInRing' = {pair \in OrderInRing : p # pair[1] /\ p # pair[2]}
  <2>1. ASSUME NEW a \in InRing, NEW b \in InRing, a # p, b # p
        PROVE  (\E s, t \in Slots : /\ packetOf'[s] = a /\ packetOf'[t] = b
                                    /\ Offset(s)' < Offset(t)')
               <=> (\E s, t \in Slots : /\ packetOf[s] = a /\ packetOf[t] = b
                                        /\ Offset(s) < Offset(t))
    <3>1. a # NoPacket /\ b # NoPacket
      BY DEF InRing
    <3>2. ASSUME NEW s \in Slots, packetOf[s] \in {a, b} \/ packetOf'[s] \in {a, b}
          PROVE  /\ packetOf'[s] = packetOf[s]
                 /\ Offset(s) \in Nat /\ Offset(s)' = Offset(s) - segsOf[r]
      <4>1. s # r /\ packetOf[s] # NoPacket
        BY <3>1, <3>2, <2>1, <1>1
      <4> QED BY <4>1, <1>2
    <3> QED BY <3>2, <1>3
  <2> QED BY <2>1, <1>4 DEF OrderInRing
<1>8. SentOfRing' = SentOfRing \ {p}
  <2>1. ASSUME NEW a \in InRing, a # p
        PROVE  (\E s \in Slots : packetOf'[s] = a /\ ~owner'[s])
               <=> (\E s \in Slots : packetOf[s] = a /\ ~owner[s])
    <3>1. a # NoPacket
      BY DEF InRing
    <3>2. ASSUME NEW s \in Slots, packetOf[s] = a \/ packetOf'[s] = a
          PROVE  packetOf'[s] = packetOf[s] /\ (owner'[s] <=> owner[s])
      <4>1. s # r /\ packetOf[s] # NoPacket
        BY <3>1, <3>2, <2>1, <1>1
      <4> QED BY <4>1, <1>2
    <3> QED BY <3>2
  <2> QED BY <2>1, <1>1, <1>4 DEF SentOfRing
<1> QED BY <1>4, <1>5, <1>6, <1>7, <1>8 DEF Fifo!Free

\* The controller's write-back of a packet is a Transmit.
LEMMA NicWriteBackTransmits ==
  ASSUME RingInv, NicWriteBack PROVE Fifo!Transmit(packetOf[nicFirst])
<1> USE DEF RingInv
<1> DEFINE f == nicFirst
           p == packetOf[nicFirst]
<1>1. /\ f \in Slots /\ owner' = [owner EXCEPT ![f] = FALSE]
      /\ owner \in [Slots -> BOOLEAN]
      /\ nicPc = "walk" /\ NicOnTrack /\ NicChain = f
      /\ UNCHANGED <<endMark, span, seg, driverVars>>
  BY DEF NicWriteBack, TypeInv, TypeOK, NicOnTrack, NicChain
<1>2. segsOf[f] > 0 /\ owner[f] /\ p # NoPacket /\ p \in InRing
  BY <1>1 DEF DmaInv, NicAtChain, MbufInv, PacketsCounted, InRing
<1>3. ~HandingOff(f)
  BY <1>2 DEF HandingOff, DmaInv, LastRecorded
<1>4. /\ packetOf' = packetOf /\ \A s : Offset(s)' = Offset(s)
      /\ \A s : HandingOff(s)' <=> HandingOff(s)
  BY <1>1, NicFrame DEF driverVars, stateVars
<1>5. InRing' = InRing /\ OrderInRing' = OrderInRing
  BY <1>4 DEF InRing, OrderInRing
<1>6. p \notin SentOfRing
  <2> SUFFICES ASSUME NEW s \in Slots, packetOf[s] = p, ~owner[s] PROVE FALSE
    BY DEF SentOfRing
  <2> QED BY <1>1, <1>2, SlotOfPacket
<1>7. Fifo!Before(p) \subseteq SentOfRing
  <2> SUFFICES ASSUME NEW q \in InRing, NEW s \in Slots, NEW t \in Slots,
                      packetOf[s] = q, packetOf[t] = p, Offset(s) < Offset(t)
               PROVE  q \in SentOfRing
    BY DEF Fifo!Before, OrderInRing
  <2>1. t = f
    BY <1>1, <1>2, SlotOfPacket
  <2>2. segsOf[s] > 0
    BY DEF InRing, MbufInv, PacketsCounted
  <2>3. ~(Offset(s) >= Offset(f))
    BY <2>1, <1>1, OffsetRange DEF TypeInv
  <2>4. ~owner[s] /\ ~HandingOff(s)
    BY <2>2, <2>3, <1>1 DEF DmaInv, OwnedFromNic
  <2> QED BY <2>4 DEF SentOfRing
<1>8. SentOfRing' = SentOfRing \cup {p}
  <2>1. ASSUME NEW a \in InRing
        PROVE  (\E s \in Slots : packetOf[s] = a /\ ~owner'[s] /\ ~HandingOff(s))
               <=> \/ a = p
                   \/ \E s \in Slots : packetOf[s] = a /\ ~owner[s] /\ ~HandingOff(s)
    BY <1>1, <1>3
  <2> QED BY <2>1, <1>2, <1>4, <1>5 DEF SentOfRing
<1> QED BY <1>2, <1>5, <1>6, <1>7, <1>8 DEF Fifo!Transmit

\* Every other step leaves the FIFO alone.
LEMMA OthersStutter ==
  ASSUME RingInv, [Next]_vars, ~Record, ~FreeSent, ~NicWriteBack
  PROVE  UNCHANGED Fifo!vars
<1> USE DEF RingInv
<1>1. UNCHANGED <<packetOf, readIndex>>
  BY DEF Next, Driver, Nic, vars, driverVars, stateVars, OutputPacket,
     OutputStall, OutputDropped, FillFirst, FillNext, HandOff, Poll, ReadStatus,
     AckStatus, Service, NicFetch, NicReadSegment, NicRaise, NicSleep, NicOtherCause
<1> SUFFICES ASSUME NEW s \in Slots, packetOf[s] # NoPacket
             PROVE  owner'[s] \/ HandingOff(s)' <=> owner[s] \/ HandingOff(s)
  BY <1>1, FifoStutter DEF Fifo!vars
<1>2. segsOf[s] > 0 /\ owner \in [Slots -> BOOLEAN]
  BY DEF MbufInv, PacketsCounted, TypeInv, TypeOK
<1>3. ASSUME Room, NEW i \in 0..(MaxSegCount - 1) PROVE s # Advance(writeIndex, i)
  <2>1. 0 \in 0..(segsOf[s] - 1)
    BY <1>2, ChainCount DEF TypeInv
  <2>2. Advance(s, 0) = s
    BY AdvanceWraps, RingAssumption DEF Slots
  <2> QED BY <2>1, <2>2, <1>2, <1>3, FillSlots
<1>4. ASSUME NEW segs \in 1..MaxSegCount, FillFirst(segs)
      PROVE  owner'[s] = owner[s] /\ pc # "handoff" /\ pc' # "handoff"
  <2>1. 0 \in 0..(MaxSegCount - 1) /\ writeIndex \in Slots /\ Room
    BY <1>4, RingAssumption DEF FillFirst, TypeInv, TypeOK
  <2>2. Advance(writeIndex, 0) = writeIndex
    BY <2>1, AdvanceWraps, RingAssumption DEF Slots
  <2>3. s # writeIndex
    BY <2>1, <2>2, <1>3
  <2> QED BY <2>3, <1>2, <1>4 DEF FillFirst
<1>5. ASSUME FillNext
      PROVE  owner'[s] = owner[s] /\ pc # "handoff" /\ pc' # "handoff"
  <2>1. txDone \in 0..(MaxSegCount - 1) /\ Room
    BY <1>5, RingAssumption DEF FillNext, TypeInv, Filling
  <2> QED BY <2>1, <1>2, <1>3, <1>5 DEF FillNext
<1>6. ASSUME HandOff
      PROVE  owner'[s] \/ HandingOff(s)' <=> owner[s] \/ HandingOff(s)
  <2>1. DescStart \in Slots
    BY <1>6 DEF HandOff, DmaInv, LastRecorded
  <2> QED BY <2>1, <1>2, <1>6 DEF HandOff, HandingOff
<1>7. ASSUME \/ \E p \in Packets : OutputPacket(p)
             \/ OutputStall \/ OutputDropped \/ Poll
             \/ ReadStatus \/ AckStatus \/ Service
      PROVE  owner' = owner /\ pc # "handoff" /\ pc' # "handoff"
  BY <1>7 DEF OutputPacket, OutputStall, OutputDropped, Poll, ReadStatus,
     AckStatus, Service, Return, ringVars
<1>8. ASSUME NicFetch \/ NicReadSegment \/ NicRaise \/ NicSleep \/ NicOtherCause
             \/ UNCHANGED vars
      PROVE  owner' = owner /\ pc' = pc /\ DescStart' = DescStart
  BY <1>8 DEF NicFetch, NicReadSegment, NicRaise, NicSleep, NicOtherCause, vars,
     ringVars, driverVars, txVars, DescStart
<1> QED BY <1>4, <1>5, <1>6, <1>7, <1>8 DEF Next, Driver, Nic, HandingOff

\* The ring implements the bounded FIFO of PacketFifo, for every ring size,
\* every segment limit and every set of packets: what outputPacket accepts is
\* put on the wire in that order, each packet once, and freed in that order
\* after that, and never more than DescCount - MaxSegCount are held.
THEOREM RingImplementsFifo ==
  ASSUME WildHarmless PROVE Spec => ImplementsFifo
<1>1. Init => Fifo!Init
  <2> SUFFICES ASSUME Init PROVE Fifo!Init
    OBVIOUS
  <2>1. InRing = {}
    BY DEF Init, InRing
  <2> QED BY <2>1 DEF Fifo!Init, OrderInRing, SentOfRing
<1>2. RingInv /\ [Next]_vars => [Fifo!Next]_(Fifo!vars)
  <2> SUFFICES ASSUME RingInv, [Next]_vars
               PROVE  Fifo!Next \/ UNCHANGED Fifo!vars
    OBVIOUS
  <2>1. CASE Record
    <3>1. txPacket \in Packets
      BY <2>1 DEF Record, RingInv, TypeInv, Filling
    <3> QED BY <2>1, <3>1, RecordAccepts DEF Fifo!Next
  <2>2. CASE FreeSent
    <3>1. packetOf[readIndex] \in Packets
      BY <2>2 DEF FreeSent, RingInv, TypeInv, TypeOK, ChainsTile, MbufInv, PacketsCounted
    <3> QED BY <2>2, <3>1, FreeSentFrees DEF Fifo!Next
  <2>3. CASE NicWriteBack
    <3>1. packetOf[nicFirst] \in Packets
      <4>1. segsOf[nicFirst] > 0
        BY <2>3 DEF NicWriteBack, RingInv, DmaInv, NicAtChain, NicOnTrack, NicChain
      <4> QED BY <4>1 DEF RingInv, TypeInv, TypeOK, MbufInv, PacketsCounted
    <3> QED BY <2>3, <3>1, NicWriteBackTransmits DEF Fifo!Next
  <2>4. CASE ~Record /\ ~FreeSent /\ ~NicWriteBack
    BY <2>4, OthersStutter
  <2> QED BY <2>1, <2>2, <2>3, <2>4
<1>3. Spec => []RingInv
  BY RingInvHolds
<1> QED BY <1>1, <1>2, <1>3, PTL DEF Spec, ImplementsFifo, Fifo!Spec

-----------------------------------------------------------------------------
(* No wake-up is lost.                                                     *)

\* A recorded packet that the controller has still to send.
Unsent(s) == owner[s] \/ HandingOff(s)

\* The packets that were sent are the oldest ones.
SentFirst ==
  \A s, t \in Slots :
    segsOf[s] > 0 /\ segsOf[t] > 0 /\ Offset(s) <= Offset(t) /\ Unsent(s) => Unsent(t)

\* A controller at rest on the ring that has something to send was told to look,
\* or is about to be.
DoorbellKept ==
  /\ nicPc # "scan" => polled
  /\ (\E s \in Slots : segsOf[s] > 0 /\ Unsent(s)) /\ nicPc = "scan" /\ nicPos \in Slots =>
       polled \/ pc \in {"handoff", "poll"}

\* While a packet that was sent is not freed, its interrupt is on the way.
DoneTold ==
  (\E s \in Slots : segsOf[s] > 0 /\ ~Unsent(s)) =>
    \/ nicPc = "raise" \/ "TxDone" \in intStatus
    \/ pc = "ack" /\ "TxDone" \in latched
    \/ pc = "drain"

\* A queue is only stalled while packets are in the ring, or about to be serviced.
StallHeld ==
  stalled => pc \in {"idle", "ack", "drain"} /\ (readIndex # writeIndex \/ pc = "drain")

WakeInv == SentFirst /\ DoorbellKept /\ DoneTold /\ StallHeld

\* If the controller has something to send, the next packet is.
LEMMA NextUnsent ==
  ASSUME RingInv, nicPc = "scan", nicPos \in Slots,
         NEW s \in Slots, segsOf[s] > 0, Unsent(s)
  PROVE  segsOf[nicPos] > 0 /\ Unsent(nicPos)
<1> USE DEF RingInv
<1>1. NicChain = nicPos /\ NicOnTrack
  BY DEF NicChain, NicOnTrack
<1>2. /\ Offset(s) >= Offset(nicPos)
      /\ segsOf[nicPos] > 0 \/ nicPos = writeIndex
  BY <1>1 DEF DmaInv, OwnedFromNic, NicAtChain, Unsent
<1>3. nicPos # writeIndex
  <2>1. /\ Offset(s) + segsOf[s] <= Used /\ segsOf[s] \in 1..MaxSegCount
        /\ Offset(writeIndex) = Used /\ Offset(s) \in Nat /\ Used \in Nat
    BY ChainCount, OffsetRange DEF TypeInv
  <2> QED BY <2>1, <1>2, RingAssumption
<1>4. Offset(nicPos) >= Offset(nicPos)
  BY OffsetRange DEF TypeInv
<1> QED BY <1>1, <1>2, <1>3, <1>4 DEF DmaInv, OwnedFromNic, Unsent

\* Steps that neither record, hand off, send nor free a packet.
LEMMA SameUnsent ==
  ASSUME UNCHANGED <<segsOf, readIndex, writeIndex>>,
         pc = "handoff" <=> pc' = "handoff",
         pc = "handoff" => txSegs' = txSegs,
         \A s \in Slots : segsOf[s] > 0 => (owner'[s] <=> owner[s])
  PROVE  /\ \A s \in Slots : Offset(s)' = Offset(s)
         /\ \A s \in Slots : segsOf[s] > 0 => (Unsent(s)' <=> Unsent(s))
         /\ SentFirst => SentFirst'
<1>1. \A s : Offset(s)' = Offset(s)
  BY DEF Offset
<1>2. \A s : HandingOff(s)' <=> HandingOff(s)
  BY DEF HandingOff, DescStart
<1>3. \A s \in Slots : segsOf[s] > 0 => (Unsent(s)' <=> Unsent(s))
  BY <1>2 DEF Unsent
<1> QED BY <1>1, <1>3 DEF SentFirst

LEMMA RecordWake == RingInv /\ WakeInv /\ Record => WakeInv'
<1> SUFFICES ASSUME RingInv, WakeInv, Record PROVE WakeInv'
  OBVIOUS
<1> DEFINE w == writeIndex
<1> USE DEF RingInv
<1>1. /\ pc = "fill" /\ pc' = "handoff" /\ w \in Slots /\ txSegs \in 1..MaxSegCount
      /\ segsOf' = [segsOf EXCEPT ![w] = txSegs] /\ segsOf \in [Slots -> SegCounts]
      /\ UNCHANGED <<owner, readIndex, nicPc, nicPos, polled, intStatus, latched, stalled>>
  BY DEF Record, TypeInv, TypeOK, Filling, nicVars
<1>2. DescStart' = w
  BY RecordStarts
<1>3. /\ \A s : Offset(s)' = Offset(s)
      /\ \A s : Unsent(s)' <=> owner[s] \/ s = w
      /\ \A s : Unsent(s) <=> owner[s]
  BY <1>1, <1>2 DEF Offset, Unsent, HandingOff
<1>4. ASSUME NEW s \in Slots, s # w, segsOf'[s] > 0
      PROVE  segsOf[s] > 0 /\ Offset(s) < Offset(w)
  <2>1. segsOf[s] > 0
    BY <1>1, <1>4
  <2>2. /\ Offset(s) + segsOf[s] <= Used /\ segsOf[s] \in 1..MaxSegCount
        /\ Offset(w) = Used /\ Offset(s) \in Nat /\ Used \in Nat
    BY <2>1, ChainCount, OffsetRange DEF TypeInv
  <2> QED BY <2>1, <2>2, RingAssumption
<1> HIDE DEF w
<1>5. SentFirst'
  <2> SUFFICES ASSUME NEW s \in Slots, NEW t \in Slots, segsOf'[s] > 0, segsOf'[t] > 0,
                      Offset(s) <= Offset(t), owner[s] \/ s = w
               PROVE  owner[t] \/ t = w
    BY <1>3 DEF SentFirst
  <2>1. t # w => s # w
    <3>1. Offset(w) \in Nat /\ Offset(t) \in Nat
      BY <1>1, OffsetRange DEF TypeInv
    <3> QED BY <1>4, <3>1
  <2> QED BY <2>1, <1>3, <1>4 DEF WakeInv, SentFirst
<1>6. DoneTold'
  BY <1>1, <1>3, <1>4 DEF WakeInv, DoneTold
<1>7. DoorbellKept'
  BY <1>1 DEF WakeInv, DoorbellKept
<1>8. StallHeld'
  BY <1>1 DEF WakeInv, StallHeld
<1> QED BY <1>5, <1>6, <1>7, <1>8 DEF WakeInv

LEMMA FreeSentWake == RingInv /\ WakeInv /\ FreeSent => WakeInv'
<1> SUFFICES ASSUME RingInv, WakeInv, FreeSent PROVE WakeInv'
  OBVIOUS
<1> DEFINE r == readIndex
           k == segsOf[r]
<1> USE DEF RingInv
<1>1. /\ pc = "drain" /\ pc' = "drain" /\ r \in Slots /\ k \in Nat
      /\ segsOf' = [segsOf EXCEPT ![r] = 0] /\ segsOf \in [Slots -> SegCounts]
      /\ UNCHANGED <<nicPc, nicPos, polled, intStatus, latched, stalled>>
  BY RingAssumption DEF FreeSent, TypeInv, TypeOK, nicVars, SegCounts
<1>2. ASSUME NEW s \in Slots, segsOf'[s] > 0
      PROVE  /\ segsOf[s] > 0 /\ (Unsent(s)' <=> Unsent(s))
             /\ Offset(s) \in Nat /\ Offset(s)' = Offset(s) - k
  <2>1. s # r /\ segsOf[s] > 0
    BY <1>1, <1>2
  <2> QED BY <2>1, <1>1, FreeSentKeeps DEF Unsent, HandingOff
<1> HIDE DEF r, k
<1>3. SentFirst'
  <2> SUFFICES ASSUME NEW s \in Slots, NEW t \in Slots, segsOf'[s] > 0, segsOf'[t] > 0,
                      Offset(s)' <= Offset(t)', Unsent(s)'
               PROVE  Unsent(t)'
    BY DEF SentFirst
  <2>1. Offset(s) <= Offset(t)
    BY <1>1, <1>2
  <2> QED BY <2>1, <1>2 DEF WakeInv, SentFirst
<1>4. DoorbellKept'
  BY <1>1, <1>2 DEF WakeInv, DoorbellKept
<1> QED BY <1>1, <1>3, <1>4 DEF WakeInv, DoneTold, StallHeld

LEMMA ServiceWake == RingInv /\ WakeInv /\ Service => WakeInv'
<1> SUFFICES ASSUME RingInv, WakeInv, Service PROVE WakeInv'
  OBVIOUS
<1> USE DEF RingInv
<1>1. /\ pc = "drain" /\ pc' = "idle" /\ ~stalled'
      /\ readIndex = writeIndex \/ owner[readIndex]
      /\ UNCHANGED <<owner, segsOf, readIndex, writeIndex, nicPc, nicPos, polled, intStatus, latched>>
  BY DEF Service, Serviced, ringVars, stateVars, nicVars
<1>2. /\ \A s \in Slots : Offset(s)' = Offset(s)
      /\ \A s \in Slots : segsOf[s] > 0 => (Unsent(s)' <=> Unsent(s))
      /\ SentFirst'
  BY <1>1, SameUnsent DEF WakeInv
<1>3. ASSUME NEW s \in Slots, segsOf[s] > 0  PROVE Unsent(s)
  <2>1. /\ Offset(s) + segsOf[s] <= Used /\ segsOf[s] \in 1..MaxSegCount
        /\ Offset(writeIndex) = Used /\ Offset(readIndex) = 0 /\ Offset(s) \in Nat /\ Used \in Nat
    BY <1>3, ChainCount, OffsetRange DEF TypeInv
  <2>2. readIndex # writeIndex
    BY <2>1, RingAssumption
  <2>3. readIndex \in Slots /\ segsOf[readIndex] > 0 /\ Unsent(readIndex)
    BY <1>1, <2>2 DEF ChainsTile, TypeInv, TypeOK, Unsent
  <2>4. Offset(readIndex) <= Offset(s)
    BY <2>1
  <2> QED BY <1>3, <2>3, <2>4 DEF WakeInv, SentFirst
<1>4. DoneTold'
  BY <1>1, <1>2, <1>3 DEF DoneTold
<1>5. DoorbellKept'
  BY <1>1, <1>2 DEF WakeInv, DoorbellKept
<1> QED BY <1>1, <1>2, <1>4, <1>5 DEF WakeInv, StallHeld

LEMMA WriteBackWake == RingInv /\ WakeInv /\ NicWriteBack => WakeInv'
<1> SUFFICES ASSUME RingInv, WakeInv, NicWriteBack PROVE WakeInv'
  OBVIOUS
<1> USE DEF RingInv
<1>1. /\ nicPc = "walk" /\ nicPc' = "raise" /\ nicFirst \in Slots
      /\ owner' = [owner EXCEPT ![nicFirst] = FALSE] /\ owner \in [Slots -> BOOLEAN]
      /\ UNCHANGED <<endMark, span, seg, driverVars, polled, intStatus>>
  BY DEF NicWriteBack, TypeInv, TypeOK
<1>2. /\ UNCHANGED <<segsOf, pc, stalled, readIndex, writeIndex>>
      /\ \A s : Offset(s)' = Offset(s)
      /\ \A s : HandingOff(s)' <=> HandingOff(s)
  BY <1>1, NicFrame DEF driverVars, stateVars
<1>3. /\ segsOf[nicFirst] > 0 /\ owner[nicFirst]
      /\ \A s \in Slots : segsOf[s] > 0 => (Unsent(s) <=> Offset(s) >= Offset(nicFirst))
  BY <1>1 DEF DmaInv, NicAtChain, OwnedFromNic, NicChain, NicOnTrack, Unsent
<1>4. ~HandingOff(nicFirst)
  BY <1>3 DEF DmaInv, LastRecorded, HandingOff
<1>5. ASSUME NEW s \in Slots, segsOf[s] > 0
      PROVE  Unsent(s)' <=> Offset(s) > Offset(nicFirst)
  <2>1. Offset(s) \in Nat /\ Offset(nicFirst) \in Nat
    BY <1>1, OffsetRange DEF TypeInv
  <2>2. CASE s = nicFirst
    BY <1>1, <1>2, <1>4, <2>1, <2>2 DEF Unsent
  <2>3. CASE s # nicFirst
    <3>1. Offset(s) # Offset(nicFirst)
      BY <1>1, <2>3, OffsetInjective DEF TypeInv
    <3>2. Unsent(s)' <=> Unsent(s)
      BY <1>1, <1>2, <2>3 DEF Unsent
    <3> QED BY <1>3, <1>5, <2>1, <3>1, <3>2
  <2> QED BY <2>2, <2>3
<1>6. SentFirst'
  <2> SUFFICES ASSUME NEW s \in Slots, NEW t \in Slots, segsOf[s] > 0, segsOf[t] > 0,
                      Offset(s) <= Offset(t), Unsent(s)'
               PROVE  Unsent(t)'
    BY <1>2 DEF SentFirst
  <2>1. Offset(s) \in Nat /\ Offset(t) \in Nat /\ Offset(nicFirst) \in Nat
    BY <1>1, OffsetRange DEF TypeInv
  <2>2. Offset(s) > Offset(nicFirst)
    BY <1>5
  <2>3. Offset(t) > Offset(nicFirst)
    BY <2>1, <2>2
  <2> QED BY <1>5, <2>3
<1> QED BY <1>1, <1>2, <1>6 DEF WakeInv, DoorbellKept, DoneTold, StallHeld

LEMMA FillWake ==
  ASSUME RingInv, WakeInv, FillNext \/ \E segs \in 1..MaxSegCount : FillFirst(segs)
  PROVE  WakeInv'
<1> USE DEF RingInv
<1>1. /\ pc \in {"output", "fill"} /\ pc' = "fill"
      /\ UNCHANGED <<segsOf, readIndex, writeIndex, nicPc, nicPos, polled, intStatus, latched, stalled>>
  BY DEF FillNext, FillFirst, stateVars, nicVars
<1>2. ASSUME NEW s \in Slots, segsOf[s] > 0  PROVE owner'[s] <=> owner[s]
  <2>1. PICK i \in 0..(MaxSegCount - 1), o \in BOOLEAN :
          Room /\ owner' = [owner EXCEPT ![Advance(writeIndex, i)] = o]
    <3>1. CASE FillNext
      <4>1. /\ txDone \in 0..(MaxSegCount - 1) /\ Room
            /\ owner' = [owner EXCEPT ![Advance(writeIndex, txDone)] = TRUE]
        BY <3>1, RingAssumption DEF FillNext, TypeInv, TypeOK, Filling, SegCounts
      <4> QED BY <4>1
    <3>2. CASE \E segs \in 1..MaxSegCount : FillFirst(segs)
      <4>1. 0 \in 0..(MaxSegCount - 1) /\ Advance(writeIndex, 0) = writeIndex
        BY AdvanceWraps, RingAssumption DEF TypeInv, TypeOK, Slots
      <4>2. Room /\ owner' = [owner EXCEPT ![Advance(writeIndex, 0)] = FALSE]
        BY <3>2, <4>1 DEF FillFirst
      <4> QED BY <4>1, <4>2
    <3> QED BY <3>1, <3>2
  <2>2. Advance(s, 0) = s /\ 0 \in 0..(segsOf[s] - 1)
    BY <1>2, AdvanceWraps, ChainCount, RingAssumption DEF TypeInv, Slots
  <2>3. s # Advance(writeIndex, i)
    BY <1>2, <2>1, <2>2, FillSlots
  <2> QED BY <2>1, <2>3 DEF TypeInv, TypeOK
<1>3. /\ \A s \in Slots : segsOf[s] > 0 => (Unsent(s)' <=> Unsent(s))
      /\ SentFirst'
  BY <1>1, <1>2, SameUnsent DEF WakeInv
<1> QED BY <1>1, <1>3 DEF WakeInv, DoorbellKept, DoneTold, StallHeld

LEMMA HandOffWake == RingInv /\ WakeInv /\ HandOff => WakeInv'
<1> SUFFICES ASSUME RingInv, WakeInv, HandOff PROVE WakeInv'
  OBVIOUS
<1>1. /\ pc = "handoff" /\ pc' = "poll" /\ DescStart \in Slots
      /\ owner' = [owner EXCEPT ![DescStart] = TRUE] /\ owner \in [Slots -> BOOLEAN]
      /\ UNCHANGED <<segsOf, readIndex, writeIndex, nicPc, nicPos, polled, intStatus, latched, stalled>>
  BY DEF HandOff, RingInv, TypeInv, TypeOK, DmaInv, LastRecorded, stateVars, nicVars
<1>2. /\ \A s : Offset(s)' = Offset(s)
      /\ \A s \in Slots : Unsent(s)' <=> Unsent(s)
  BY <1>1 DEF Offset, Unsent, HandingOff
<1> QED BY <1>1, <1>2 DEF WakeInv, SentFirst, DoorbellKept, DoneTold, StallHeld

\* The other steps of the driver: a stall finds packets in the ring, the doorbell
\* is rung after the hand-off, and what was acknowledged was read before.
LEMMA DriverWake ==
  ASSUME RingInv, WakeInv,
         \/ \E p \in Packets : OutputPacket(p)
         \/ OutputStall \/ OutputDropped \/ Poll \/ ReadStatus \/ AckStatus
  PROVE  WakeInv'
<1> USE DEF RingInv
<1>1. /\ UNCHANGED <<owner, segsOf, readIndex, writeIndex, nicPc, nicPos>>
      /\ pc # "handoff" /\ pc' # "handoff" /\ pc # "drain"
  BY DEF OutputPacket, OutputStall, OutputDropped, Poll, ReadStatus, AckStatus, Return,
     ringVars, stateVars, nicVars
<1>2. /\ \A s \in Slots : segsOf[s] > 0 => (Unsent(s)' <=> Unsent(s))
      /\ SentFirst'
  BY <1>1, SameUnsent DEF WakeInv
<1>3. DoorbellKept'
  <2>1. (polled' = polled /\ pc # "poll") \/ polled'
    BY DEF OutputPacket, OutputStall, OutputDropped, Poll, ReadStatus, AckStatus, Rung
  <2> QED BY <1>1, <1>2, <2>1 DEF WakeInv, DoorbellKept
<1>4. DoneTold'
  <2>1. CASE ReadStatus
    BY <1>1, <1>2, <2>1 DEF WakeInv, DoneTold, ReadStatus
  <2>2. CASE AckStatus
    BY <1>1, <1>2, <2>2 DEF WakeInv, DoneTold, AckStatus
  <2>3. CASE ~ReadStatus /\ ~AckStatus
    <3>1. intStatus' = intStatus /\ pc # "ack"
      BY <2>3 DEF OutputPacket, OutputStall, OutputDropped, Poll
    <3> QED BY <1>1, <1>2, <3>1 DEF WakeInv, DoneTold
  <2> QED BY <2>1, <2>2, <2>3
<1>5. StallHeld'
  <2>1. CASE OutputStall
    <3>1. ~Room /\ Used \in Nat /\ DescCount \in Nat /\ MaxSegCount \in Nat /\ MaxSegCount < DescCount
      BY <2>1, OffsetRange, RingAssumption DEF OutputStall, TypeInv
    <3>2. Used > 0
      BY <3>1 DEF Room, TX_FREE, Used
    <3>3. readIndex # writeIndex
      <4>1. Offset(writeIndex) = Used /\ Offset(readIndex) = 0
        BY OffsetRange DEF TypeInv
      <4> QED BY <3>2, <4>1
    <3> QED BY <1>1, <2>1, <3>3 DEF OutputStall, Return, StallHeld
  <2>2. CASE ~OutputStall
    <3>1. stalled' = stalled /\ (stalled => pc' \in {"idle", "ack", "drain"})
      BY <2>2 DEF OutputPacket, OutputDropped, Poll, ReadStatus, AckStatus, Return
    <3> QED BY <1>1, <3>1 DEF WakeInv, StallHeld
  <2> QED BY <2>1, <2>2
<1> QED BY <1>2, <1>3, <1>4, <1>5 DEF WakeInv

\* The other steps of the controller: it goes to sleep only when the next packet
\* is not its own.
LEMMA NicWake ==
  ASSUME RingInv, WakeInv,
         NicFetch \/ NicReadSegment \/ NicRaise \/ NicSleep \/ NicOtherCause \/ UNCHANGED vars
  PROVE  WakeInv'
<1>1. UNCHANGED <<owner, segsOf, readIndex, writeIndex, pc, txSegs, stalled, latched>>
  BY DEF NicFetch, NicReadSegment, NicRaise, NicSleep, NicOtherCause, vars, ringVars,
     driverVars, stateVars, txVars
<1>2. /\ \A s \in Slots : segsOf[s] > 0 => (Unsent(s)' <=> Unsent(s))
      /\ SentFirst'
  BY <1>1, SameUnsent DEF WakeInv
<1>3. DoneTold'
  BY <1>1, <1>2 DEF WakeInv, DoneTold, NicFetch, NicReadSegment, NicRaise, NicSleep,
     NicOtherCause, vars, nicVars
<1>4. DoorbellKept'
  <2>1. CASE NicSleep
    <3> SUFFICES ASSUME NEW s \in Slots, segsOf[s] > 0, Unsent(s)  PROVE pc = "handoff"
      BY <1>1, <1>2, <2>1 DEF NicSleep, DoorbellKept, nicVars
    <3>1. nicPc = "scan" /\ nicPos \in Slots /\ ~owner[nicPos]
      BY <2>1 DEF NicSleep
    <3> QED BY <3>1, NextUnsent DEF Unsent, HandingOff
  <2>2. CASE ~NicSleep
    <3>1. /\ polled' = polled
          /\ nicPc' # "scan" => polled
          /\ nicPc' = "scan" => nicPos' = nicPos /\ (nicPc = "scan" \/ polled)
      BY <2>2 DEF WakeInv, DoorbellKept, NicFetch, NicReadSegment, NicRaise, NicOtherCause,
         vars, nicVars
    <3> QED BY <1>1, <1>2, <3>1 DEF WakeInv, DoorbellKept
  <2> QED BY <2>1, <2>2
<1> QED BY <1>1, <1>2, <1>3, <1>4 DEF WakeInv, StallHeld

LEMMA NextWake == RingInv /\ WakeInv /\ [Next]_vars => WakeInv'
BY RecordWake, FreeSentWake, ServiceWake, WriteBackWake, FillWake, HandOffWake, DriverWake,
   NicWake
DEF Next, Driver, Nic

\* Someone is called for whenever the stack waits: the driver at rest has an
\* interrupt to serve, or the controller works, or finds its next packet when
\* it looks as it was told to.
NothingForgotten ==
  (stalled \/ held # {}) /\ pc = "idle" /\ nicPos # NoSlot =>
    \/ "TxDone" \in intStatus
    \/ nicPc # "scan"
    \/ polled /\ owner[nicPos]

\* No doorbell, no completion and no stall is lost, for every ring size: this is
\* what the fairness of the controller and of the workloop has to work with.
THEOREM NothingEverForgotten ==
  ASSUME WildHarmless PROVE Spec => []NothingForgotten
<1>1. Init => WakeInv
  BY DEF Init, WakeInv, SentFirst, DoorbellKept, DoneTold, StallHeld
<1>2. RingInv /\ WakeInv => NothingForgotten
  <2> SUFFICES ASSUME RingInv, WakeInv, stalled \/ held # {}, pc = "idle", nicPos # NoSlot,
                      nicPc = "scan"
               PROVE  "TxDone" \in intStatus \/ (polled /\ owner[nicPos])
    BY DEF NothingForgotten
  <2> USE DEF RingInv
  <2>1. PICK s \in Slots : segsOf[s] > 0
    <3>1. CASE stalled
      BY <3>1 DEF WakeInv, StallHeld, ChainsTile, TypeInv, TypeOK
    <3>2. CASE held # {}
      BY <3>2 DEF MbufInv, MbufsConserved, PacketsCounted, InHand, InRing
    <3> QED BY <3>1, <3>2
  <2>2. CASE ~Unsent(s)
    BY <2>1, <2>2 DEF WakeInv, DoneTold
  <2>3. CASE Unsent(s)
    <3>1. nicPos \in Slots
      BY DEF TypeInv, TypeOK
    <3>2. polled
      BY <2>1, <2>3, <3>1 DEF WakeInv, DoorbellKept
    <3>3. Unsent(nicPos)
      BY <2>1, <2>3, <3>1, NextUnsent
    <3> QED BY <3>2, <3>3 DEF Unsent, HandingOff
  <2> QED BY <2>2, <2>3
<1>3. Spec => []RingInv
  BY RingInvHolds
<1> QED BY <1>1, <1>2, <1>3, NextWake, PTL DEF Spec
=============================================================================
