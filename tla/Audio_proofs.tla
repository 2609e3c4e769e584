----------------------------- MODULE Audio_proofs -----------------------------
(***************************************************************************)
(* Theorems about the output ring of Audio, for rings of any length.       *)
(***************************************************************************)
EXTENDS Audio, TLAPS

\* From p round the ring to q.
Ahead(p, q) == IF q >= p THEN q - p ELSE q + Descs - p

\* While handleTimer is at work, the device is between the pointer it read and
\* the write pointer.
Follows ==
  handler = "write" =>
    /\ last = reg
    /\ Ahead(reg, readPtr) <= Ahead(reg, writePtr)
    /\ Ahead(reg, writePtr) <= Part

\* The device stands at the start of the buffer until the timer was there, and
\* goes round to it only when the timer has seen it elsewhere.
Stamped ==
  /\ readPtr # 0 /\ writePtr = 0 => last # 0
  /\ readPtr = 0 /\ writePtr # 0 => last = 0

Granted == Ahead(readPtr, writePtr) <= Part

\* The inductive invariant.
RingInv == TypeOK /\ Granted /\ Follows /\ Stamped /\ OneStampPerLap

-----------------------------------------------------------------------------
(* The ring                                                                *)

\* The next descriptor.
Succ(p) == IF p = Descs - 1 THEN 0 ELSE p + 1

\* Refill: the start of the next part.
LEMMA RefillNext ==
  ASSUME NEW p \in Boundary
  PROVE  Refill(p) \in Boundary /\ Ahead(p, Refill(p)) = Part
<1>1. Part \in Nat /\ Part > 0
  BY PartAssumption
<1> QED  BY <1>1 DEF Boundary, Refill, Ahead, Descs

\* A start of a part not more than one part ahead of another is that or the next.
LEMMA NextPart ==
  ASSUME NEW p \in Boundary, NEW q \in Boundary, Ahead(p, q) <= Part
  PROVE  q \in {p, Refill(p)}
<1>1. Part \in Nat /\ Part > 0
  BY PartAssumption
<1> QED  BY <1>1 DEF Boundary, Refill, Ahead, Descs

\* A device that plays on towards a start of a part gets closer to it, and gets
\* to the start of the buffer only if that is where it goes.
LEMMA PlaysTowards ==
  ASSUME NEW p \in Ptr, NEW q \in Boundary, p # q, Ahead(p, q) <= Part
  PROVE  /\ Succ(p) \in Ptr
         /\ Ahead(Succ(p), q) = Ahead(p, q) - 1
         /\ Succ(p) = 0 => q = 0
         /\ p = 0 => q # 0
<1>1. Part \in Nat /\ Part > 0
  BY PartAssumption
<1> QED  BY <1>1 DEF Boundary, Ptr, Succ, Ahead, Descs

\* Behind a third pointer it gets further from it, as long as it is not past q.
LEMMA PlaysFrom ==
  ASSUME NEW p \in Ptr, NEW q \in Boundary, NEW r \in Ptr, p # q,
         Ahead(r, p) <= Ahead(r, q), Ahead(r, q) <= Part
  PROVE  Ahead(r, Succ(p)) <= Ahead(r, q)
<1>1. Part \in Nat /\ Part > 0
  BY PartAssumption
<1> QED  BY <1>1 DEF Boundary, Ptr, Succ, Ahead, Descs

-----------------------------------------------------------------------------
(* Every step keeps the invariant                                          *)

LEMMA InitInv == Init => RingInv
<1> SUFFICES ASSUME Init PROVE RingInv
  OBVIOUS
<1>1. Part \in Nat /\ Part > 0 /\ MinVolume \in Int /\ MaxVolume \in MinVolume .. MaxVolume
  BY PartAssumption DEF MinVolume, MaxVolume
<1>2. 0 \in Ptr /\ 0 \in Boundary /\ Ahead(0, 0) = 0
  BY <1>1 DEF Ptr, Boundary, Ahead, Descs
<1>3. TypeOK
  <2>1. readPtr \in Ptr /\ writePtr \in Boundary /\ owed \in Int /\ reg \in Ptr /\ last \in Ptr
    BY <1>2 DEF Init
  <2>2. volume \in MinVolume .. MaxVolume
    BY <1>1 DEF Init, MinVolume, MaxVolume
  <2>3. running \in BOOLEAN /\ enabled \in BOOLEAN /\ armed \in BOOLEAN /\ muted \in BOOLEAN
    BY Zenon DEF Init
  <2>4. handler \in {"none", "gate", "write"}
    BY DEF Init
  <2> QED  BY <2>1, <2>2, <2>3, <2>4 DEF TypeOK
<1>4. Granted /\ Follows /\ Stamped /\ OneStampPerLap
  BY <1>1, <1>2 DEF Init, Granted, Follows, Stamped, OneStampPerLap
<1> QED  BY <1>3, <1>4 DEF RingInv

LEMMA AdvanceKeeps == RingInv /\ Advance => RingInv'
<1> SUFFICES ASSUME RingInv, Advance PROVE RingInv'
  OBVIOUS
<1> USE DEF RingInv
<1>1. readPtr \in Ptr /\ writePtr \in Boundary /\ reg \in Ptr /\ owed \in Int
  BY DEF TypeOK
<1>2. readPtr # writePtr /\ Ahead(readPtr, writePtr) <= Part
  BY DEF Advance, Granted
<1>3. readPtr' = Succ(readPtr)
  BY DEF Advance, Succ
<1>4. UNCHANGED <<writePtr, handler, reg, last>>
  BY DEF Advance, timerVars
<1>5. /\ readPtr' \in Ptr
      /\ Ahead(readPtr', writePtr) = Ahead(readPtr, writePtr) - 1
      /\ readPtr' = 0 => writePtr = 0
      /\ readPtr = 0 => writePtr # 0
  BY <1>1, <1>2, <1>3, PlaysTowards
<1>6. Part \in Nat /\ Part > 0 /\ Ahead(readPtr, writePtr) \in Int
  BY <1>1, PartAssumption DEF Ahead, Descs, Ptr, Boundary
<1>7. TypeOK'
  BY <1>1, <1>5 DEF TypeOK, Advance, timerVars, clipVars
<1>8. Granted'
  BY <1>2, <1>4, <1>5, <1>6 DEF Granted, Ahead
<1>9. Follows'
  <2>1. ASSUME handler = "write"
        PROVE  Ahead(reg, readPtr') <= Ahead(reg, writePtr)
    BY <1>1, <1>2, <1>3, <2>1, PlaysFrom DEF Follows
  <2> QED  BY <1>4, <2>1 DEF Follows, Ahead
<1>10. Stamped'
  BY <1>4, <1>5 DEF Stamped
<1>11. OneStampPerLap'
  <2>1. owed = 0
    BY <1>5 DEF OneStampPerLap, Stamped
  <2>2. CASE readPtr' = 0
    <3>1. owed' = 1
      BY <2>1, <2>2 DEF Advance
    <3>2. readPtr # 0 /\ writePtr = 0
      BY <1>2, <1>5, <2>2
    <3> QED  BY <1>4, <2>2, <3>1, <3>2 DEF OneStampPerLap, Stamped
  <2>3. CASE readPtr' # 0
    BY <2>1, <2>3 DEF OneStampPerLap, Advance
  <2> QED  BY <2>2, <2>3
<1> QED  BY <1>7, <1>8, <1>9, <1>10, <1>11

LEMMA ReadKeeps == RingInv /\ HandleTimerRead => RingInv'
<1> SUFFICES ASSUME RingInv, HandleTimerRead PROVE RingInv'
  OBVIOUS
<1> USE DEF RingInv
<1>1. readPtr \in Ptr /\ writePtr \in Boundary /\ owed \in Int
  BY DEF TypeOK
<1>2. UNCHANGED <<readPtr, writePtr>> /\ reg' = readPtr /\ last' = readPtr
  BY DEF HandleTimerRead, deviceVars
<1>3. Part \in Nat /\ Part > 0
  BY PartAssumption
<1>4. TypeOK'
  BY <1>1 DEF TypeOK, HandleTimerRead, deviceVars, clipVars
<1>5. Granted'
  BY <1>2 DEF Granted, Ahead
<1>6. Follows'
  BY <1>1, <1>2, <1>3 DEF Follows, Granted, Ahead, Descs, Ptr, Boundary
<1>7. Stamped'
  BY <1>2 DEF Stamped
<1>8. OneStampPerLap'
  BY <1>2 DEF OneStampPerLap, HandleTimerRead
<1> QED  BY <1>4, <1>5, <1>6, <1>7, <1>8

LEMMA WriteKeeps == RingInv /\ HandleTimerWrite => RingInv'
<1> SUFFICES ASSUME RingInv, HandleTimerWrite PROVE RingInv'
  OBVIOUS
<1> USE DEF RingInv
<1>1. /\ readPtr \in Ptr /\ writePtr \in Boundary /\ reg \in Ptr
      /\ last = reg /\ Ahead(reg, readPtr) <= Ahead(reg, writePtr) /\ Ahead(reg, writePtr) <= Part
  BY DEF TypeOK, Follows, HandleTimerWrite
<1>2. UNCHANGED <<readPtr, reg, last, owed>> /\ handler' = "none"
  BY DEF HandleTimerWrite
<1>3. Part \in Nat /\ Part > 0
  BY PartAssumption
<1>4. CASE reg \notin Boundary
  <2>1. writePtr' = writePtr
    BY <1>4 DEF HandleTimerWrite
  <2>2. TypeOK'
    BY <1>2, <2>1 DEF TypeOK, HandleTimerWrite, Rearm, clipVars
  <2> QED  BY <1>2, <2>1, <2>2 DEF Granted, Follows, Stamped, OneStampPerLap, Ahead
<1>5. CASE reg \in Boundary
  <2>1. writePtr' = Refill(reg) /\ writePtr' \in Boundary
    BY <1>5, RefillNext DEF HandleTimerWrite
  <2>2. writePtr \in {reg, Refill(reg)}
    BY <1>1, <1>5, NextPart
  <2>3. TypeOK'
    BY <1>2, <2>1 DEF TypeOK, HandleTimerWrite, Rearm, clipVars
  <2>4. CASE writePtr = reg
    <3>1. readPtr = reg
      BY <1>1, <1>3, <2>4 DEF Ahead, Descs, Ptr, Boundary
    <3>2. Ahead(readPtr, writePtr') = Part
      BY <1>5, <2>1, <3>1, RefillNext
    <3>3. Granted'
      BY <1>2, <1>3, <3>2 DEF Granted, Ahead
    <3>4. Stamped'
      BY <1>1, <1>2, <3>1 DEF Stamped
    <3> QED  BY <1>2, <2>3, <3>3, <3>4 DEF Follows, OneStampPerLap
  <2>5. CASE writePtr = Refill(reg)
    BY <1>2, <2>1, <2>3, <2>5 DEF Granted, Follows, Stamped, OneStampPerLap, Ahead
  <2> QED  BY <2>2, <2>4, <2>5
<1> QED  BY <1>4, <1>5

LEMMA OthersKeep ==
  ASSUME RingInv, TypeOK',
         UNCHANGED <<readPtr, writePtr, owed, reg, last>>, handler' = "write" => handler = "write"
  PROVE  RingInv'
BY DEF RingInv, Granted, Follows, Stamped, OneStampPerLap, Ahead

LEMMA StepInv == RingInv /\ [Next]_vars => RingInv'
<1> SUFFICES ASSUME RingInv, [Next]_vars PROVE RingInv'
  OBVIOUS
<1> USE DEF RingInv
<1>1. CASE Advance
  BY <1>1, AdvanceKeeps
<1>2. CASE StartAudio
  <2>1. TypeOK'
    BY <1>2 DEF TypeOK, StartAudio, clipVars
  <2> QED  BY <1>2, <2>1, OthersKeep DEF StartAudio
<1>3. CASE StopAudio
  <2>1. TypeOK'
    BY <1>3 DEF TypeOK, StopAudio, clipVars
  <2> QED  BY <1>3, <2>1, OthersKeep DEF StopAudio
<1>4. CASE Expire
  <2>1. TypeOK'
    BY <1>4 DEF TypeOK, Expire, clipVars, deviceVars
  <2> QED  BY <1>4, <2>1, OthersKeep DEF Expire, deviceVars
<1>5. CASE HandleTimerRead
  BY <1>5, ReadKeeps
<1>6. CASE HandleTimerWrite
  BY <1>6, WriteKeeps
<1>7. CASE \E first, frames \in 0 .. MaxFrame : ClipOutputSamples(first, frames)
  <2>1. TypeOK'
    BY <1>7 DEF TypeOK, ClipOutputSamples, timerVars, deviceVars
  <2> QED  BY <1>7, <2>1, OthersKeep DEF ClipOutputSamples, timerVars, deviceVars
<1>8. CASE HandleMuteChange
  <2>1. TypeOK'
    BY <1>8 DEF TypeOK, HandleMuteChange, timerVars, deviceVars
  <2> QED  BY <1>8, <2>1, OthersKeep DEF HandleMuteChange, timerVars, deviceVars
<1>9. CASE \E value \in {MinVolume - 1, MaxVolume, MaxVolume + 1} : HandleVolumeChange(value)
  <2>1. volume' \in MinVolume .. MaxVolume
    BY <1>9 DEF HandleVolumeChange, Clamped, MinVolume, MaxVolume
  <2>2. TypeOK'
    BY <1>9, <2>1 DEF TypeOK, HandleVolumeChange, timerVars, deviceVars
  <2> QED  BY <1>9, <2>2, OthersKeep DEF HandleVolumeChange, timerVars, deviceVars
<1>10. CASE UNCHANGED vars
  <2>1. TypeOK'
    BY <1>10 DEF TypeOK, vars, timerVars, deviceVars, clipVars
  <2> QED  BY <1>10, <2>1, OthersKeep DEF vars, timerVars, deviceVars
<1> QED
  BY <1>1, <1>2, <1>3, <1>4, <1>5, <1>6, <1>7, <1>8, <1>9, <1>10 DEF Next

-----------------------------------------------------------------------------
(* The theorems                                                            *)

THEOREM Invariance == Spec => []RingInv
BY InitInv, StepInv, PTL DEF Spec

\* The pointers stay in the ring, the volume in the table, and the write pointer
\* at the start of a part.
THEOREM TypeCorrect == Spec => []TypeOK
<1>1. RingInv => TypeOK
  BY DEF RingInv
<1> QED  BY <1>1, Invariance, PTL

\* Every lap of the device, in a ring of any length, gets its loop time stamp
\* before the device plays on, and no lap gets two.
THEOREM EveryLapStamped == Spec => []OneStampPerLap
<1>1. RingInv => OneStampPerLap
  BY DEF RingInv
<1> QED  BY <1>1, Invariance, PTL

\* The device is never more than one part behind what the timer has granted.
THEOREM NeverPastGrant == Spec => []HeldToGrant
<1>1. RingInv => HeldToGrant
  BY PartAssumption DEF RingInv, TypeOK, Granted, HeldToGrant, Ahead, Ptr, Boundary, Descs
<1> QED  BY <1>1, Invariance, PTL

\* A sample of any loudness gets a value of 16 bits: it does not wrap round.
THEOREM SamplesFit ==
  \A x \in Int : OutSample(x) \in Int /\ -32768 <= OutSample(x) /\ OutSample(x) <= 32767
<1> SUFFICES ASSUME NEW x \in Int
             PROVE  OutSample(x) \in Int /\ -32768 <= OutSample(x) /\ OutSample(x) <= 32767
  BY SMT
<1> DEFINE y == ClipFloatValue(x)
<1>1. y \in Int /\ -65536 <= y /\ y <= 65534
  BY SMT DEF ClipFloatValue
<1> HIDE DEF y
<1>2. CASE y >= 0
  <2>1. y \div 2 \in Int /\ 0 <= y \div 2 /\ y \div 2 <= 32767
    BY <1>1, <1>2, SMT
  <2>2. OutSample(x) = y \div 2
    BY <1>2, SMT DEF OutSample, ConvertFloatToSInt16, y
  <2> QED  BY <2>1, <2>2, SMT
<1>3. CASE y < 0
  <2> DEFINE z == -y
  <2>1. z \in Nat /\ z <= 65536
    BY <1>1, <1>3, SMT
  <2> HIDE DEF z
  <2>2. z \div 2 \in Int /\ 0 <= z \div 2 /\ z \div 2 <= 32768
    BY <2>1, SMT
  <2>3. ~(y >= 0)
    BY <1>1, <1>3, SMT
  <2>4. OutSample(x) = -(z \div 2)
    BY <2>3, SMT DEF OutSample, ConvertFloatToSInt16, y, z
  <2> QED  BY <2>2, <2>4, SMT
<1> QED  BY <1>1, <1>2, <1>3, SMT

-----------------------------------------------------------------------------
(* The clip routine                                                        *)

\* The loop and what is left of it write each sample once.
LEMMA ConvertedAsAsked ==
  ASSUME NEW first \in Nat, NEW n \in Nat
  PROVE  Apart(Converted(first, n), Asked(first, n)) = {}
<1> DEFINE q == 4 * (n \div 4)
           r == n % 4
           b == first * Channels
<1>1. q \in Nat /\ r \in Nat /\ n = q + r /\ b \in Nat
  BY DEF Channels
<1>2. /\ Converted(first, n) = {b - 1 + i : i \in 1 .. q} \cup {b - 1 + q + i : i \in 1 .. r}
      /\ Asked(first, n) = b .. b + n - 1
  BY DEF Converted, BeforeFirst, Asked
<1> HIDE DEF q, r, b
<1>3. {b - 1 + i : i \in 1 .. q} \cup {b - 1 + q + i : i \in 1 .. r} = b .. b + n - 1
  <2>1. ASSUME NEW x \in {b - 1 + i : i \in 1 .. q} \cup {b - 1 + q + i : i \in 1 .. r}
        PROVE  x \in b .. b + n - 1
    BY <1>1
  <2>2. ASSUME NEW x \in b .. b + n - 1
        PROVE  x \in {b - 1 + i : i \in 1 .. q} \cup {b - 1 + q + i : i \in 1 .. r}
    <3>1. CASE x - b + 1 <= q
      <4>1. x - b + 1 \in 1 .. q /\ x = b - 1 + (x - b + 1)
        BY <1>1, <2>2, <3>1
      <4> QED BY <4>1
    <3>2. CASE x - b + 1 > q
      <4>1. x - b + 1 - q \in 1 .. r /\ x = b - 1 + q + (x - b + 1 - q)
        BY <1>1, <2>2, <3>2
      <4> QED BY <4>1
    <3> QED BY <1>1, <3>1, <3>2
  <2> QED BY <2>1, <2>2
<1> QED BY <1>2, <1>3 DEF Apart

\* Each volume has an entry in the table.
LEMMA EntryOfVolume ==
  \A v \in MinVolume .. MaxVolume : v \in LogTable /\ v # Wild
BY SMT DEF MinVolume, MaxVolume, LogTable, Wild

LEMMA ClipStep == TypeOK /\ ClipExact /\ [Next]_vars => ClipExact'
<1> SUFFICES ASSUME TypeOK, ClipExact, [Next]_vars  PROVE ClipExact'
  OBVIOUS
<1>1. CASE UNCHANGED clipVars
  BY <1>1 DEF clipVars, ClipExact
<1>2. CASE \E first, frames \in 0 .. MaxFrame : ClipOutputSamples(first, frames)
  <2>1. PICK first \in 0 .. MaxFrame, frames \in 0 .. MaxFrame : ClipOutputSamples(first, frames)
    BY <1>2
  <2>2. first \in Nat /\ frames * Channels \in Nat
    BY FrameAssumption DEF Channels
  <2>3. ~muted => astray' = {}
    BY <2>1, <2>2, ConvertedAsAsked DEF ClipOutputSamples
  <2>4. ~muted => adjustment' = volume /\ volume # Wild
    BY <2>1, EntryOfVolume DEF ClipOutputSamples, TypeOK
  <2>5. muted' = muted
    BY <2>1 DEF ClipOutputSamples
  <2> QED BY <2>3, <2>4, <2>5 DEF ClipExact
<1>3. CASE HandleMuteChange \/ \E value \in {MinVolume - 1, MaxVolume, MaxVolume + 1} : HandleVolumeChange(value)
  BY <1>3 DEF HandleMuteChange, HandleVolumeChange, ClipExact, Wild
<1> QED
  BY <1>1, <1>2, <1>3
  DEF Next, Advance, StartAudio, StopAudio, Expire, HandleTimerRead, HandleTimerWrite, vars

\* Unmuted, whatever range the family asks for, the samples are those of the range,
\* and the table has the entry that is used, whatever volume was last set.
THEOREM ClipAlwaysExact == Spec => []ClipExact
<1>1. Init => ClipExact
  BY DEF Init, ClipExact, Wild
<1> QED  BY <1>1, ClipStep, TypeCorrect, PTL DEF Spec

\* With the 32 descriptors that the driver has, the frame told to the family lies
\* in the buffer whether the engine runs or not.
THEOREM FrameAlwaysInBuffer ==
  ASSUME Part = 4
  PROVE  Spec => []FrameInBuffer
<1>1. TypeOK => FrameInBuffer
  <2> SUFFICES ASSUME TypeOK  PROVE FrameInBuffer
    OBVIOUS
  <2>1. 2 ^ 24 = 16777216 /\ 2 ^ 16 = 65536
    BY SMT
  <2>2. /\ Control \in {470286364, 487063580}
        /\ SampleBufferLength \div Descs = 2048
    BY <2>1, SMT DEF Control, TypeOK, SampleBufferLength, Descs
  <2>3. Control % 32 = 28 /\ Control \div 65536 \in {7176, 7432}
    BY <2>2, SMT
  <2>4. GetAudioPosition \in {28 * 2048 + 2048 - 7176, 28 * 2048 + 2048 - 7432}
    BY <2>1, <2>2, <2>3, SMT DEF GetAudioPosition, Played
  <2>5. GetCurrentSampleFrame \in 0 .. 16383
    BY <2>4, SMT DEF GetCurrentSampleFrame, BytesPerFrame, Channels
  <2> QED BY <2>5, SMT DEF FrameInBuffer, SampleBufferLength, BytesPerFrame, Channels
<1> QED  BY <1>1, TypeCorrect, PTL

\* As long as the engine runs, the position told to the family does not move: the
\* driver takes the pointer and the length from the control register, which plays
\* no part in where the device is.
THEOREM PositionNeverMoves ==
  ASSUME Part = 4
  PROVE  Spec => [](running => GetAudioPosition = 51960)
<1>1. TypeOK => (running => GetAudioPosition = 51960)
  <2> SUFFICES ASSUME running  PROVE GetAudioPosition = 51960
    OBVIOUS
  <2>1. 2 ^ 24 = 16777216 /\ 2 ^ 16 = 65536
    BY SMT
  <2>2. Control = 487063580 /\ SampleBufferLength \div Descs = 2048
    BY <2>1, SMT DEF Control, SampleBufferLength, Descs
  <2>3. Control % 32 = 28 /\ Control \div 65536 = 7432
    BY <2>2, SMT
  <2> QED BY <2>1, <2>2, <2>3, SMT DEF GetAudioPosition, Played
<1> QED  BY <1>1, TypeCorrect, PTL

-----------------------------------------------------------------------------
(* The timer                                                               *)

\* While the engine runs its timer is on: the next time is set, or handleTimer is
\* about to set it.
TimerStillOn == running => enabled /\ (armed \/ handler # "none")

\* However the timer's thread, which looks whether the timer is enabled before it
\* has the gate, comes between the stops and starts of the engine, the refills of
\* a running engine do not come to an end.
THEOREM TimerAlwaysOn == Spec => []TimerStillOn
<1>1. Init => TimerStillOn
  BY DEF Init, TimerStillOn
<1>2. TimerStillOn /\ [Next]_vars => TimerStillOn'
  <2> SUFFICES ASSUME TimerStillOn, [Next]_vars  PROVE TimerStillOn'
    OBVIOUS
  <2> USE DEF TimerStillOn, deviceVars, timerVars, clipVars
  <2>1. CASE Advance           BY <2>1 DEF Advance
  <2>2. CASE StartAudio        BY <2>2 DEF StartAudio
  <2>3. CASE StopAudio         BY <2>3 DEF StopAudio
  <2>4. CASE Expire            BY <2>4 DEF Expire
  <2>5. CASE HandleTimerRead   BY <2>5 DEF HandleTimerRead
  <2>6. CASE HandleTimerWrite  BY <2>6 DEF HandleTimerWrite, Rearm
  <2>7. CASE \E first, frames \in 0 .. MaxFrame : ClipOutputSamples(first, frames)
    BY <2>7 DEF ClipOutputSamples
  <2>8. CASE HandleMuteChange  BY <2>8 DEF HandleMuteChange
  <2>9. CASE \E value \in {MinVolume - 1, MaxVolume, MaxVolume + 1} : HandleVolumeChange(value)
    BY <2>9 DEF HandleVolumeChange
  <2>10. CASE UNCHANGED vars   BY <2>10 DEF vars
  <2> QED
    BY <2>1, <2>2, <2>3, <2>4, <2>5, <2>6, <2>7, <2>8, <2>9, <2>10 DEF Next
<1> QED  BY <1>1, <1>2, PTL DEF Spec
=============================================================================
