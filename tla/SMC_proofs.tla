----------------------------- MODULE SMC_proofs -----------------------------
(***************************************************************************)
(* Theorems about the SMC driver, for any number of threads that ask for   *)
(* the time, and without bounds on the messages; and about Div64_32, which *)
(* makes seconds of that time.                                             *)
(***************************************************************************)
EXTENDS SMC, Div64, SequenceTheorems, TLAPS

\* cancelPowerOff is called for the power button.
CancelsForPower == filterPc = "cancel" => msg.kind = "power"

\* A thread is between the two ends of getRTC's lock exactly if it is the owner,
\* and then _rtcSyncer is its own.
InCall == {"write", "sending", "fail", "wait"}
Held ==
  /\ \A r \in Readers : readerPc[r] \in InCall <=> rtcLock = r
  /\ rtcLock # Nobody => rtcSyncer = rtcLock

\* The places of a request or its answer on the way.
Sent   == smcCmd = "rtc"
Queued == \E i \in 1 .. Len(fifoIn) : fifoIn[i].kind = "rtc"
Taken  == filterPc = "handle" /\ msg.kind = "rtc"

\* There is one of them at a time, ...
OneOnTheWay ==
  /\ ~(Sent /\ Queued) /\ ~(Sent /\ Taken) /\ ~(Queued /\ Taken)
  /\ \A i, j \in 1 .. Len(fifoIn) :
       fifoIn[i].kind = "rtc" /\ fifoIn[j].kind = "rtc" => i = j

\* ... its owner waits for it, ...
OwnerWaits ==
  Sent \/ Queued \/ Taken =>
    /\ rtcLock # Nobody
    /\ readerPc[rtcLock] = "wait" /\ ~signalled[rtcLock]

\* ... and the answer is younger than the call.
AnswersYounger ==
  /\ \A r \in Readers : began[r] <= now
  /\ \A i \in 1 .. Len(fifoIn) :
       fifoIn[i].kind = "rtc" => fifoIn[i].time > began[rtcLock]
  /\ Taken => msg.time > began[rtcLock]

\* A syncer has both references until it is signalled.
BothReferences ==
  \A r \in Readers :
    /\ readerPc[r] \in {"lock", "write", "sending", "fail"} =>
         ~signalled[r] /\ refs[r] = 2
    /\ readerPc[r] = "wait" => refs[r] = (IF signalled[r] THEN 1 ELSE 2)

\* Who was signalled finds an answer younger than the call.
AnswerThere ==
  \A r \in Readers :
    readerPc[r] = "wait" /\ signalled[r] => rtcPresent /\ rtcValue > began[r]

\* What holds as long as the filter made no message up.
ClockInv ==
  OneOnTheWay /\ OwnerWaits /\ AnswersYounger /\ BothReferences /\ AnswerThere

\* Without interrupts for nothing, the filter finds a message.
MessageForInterrupt ==
  ~Spurious =>
    /\ ~stray
    /\ (intStatus /\ filterPc = "none") \/ filterPc = "read" => fifoIn # <<>>

\* Without timeouts nobody gives up.
GivenUp ==
  ~CanTimeout /\ ~stray =>
    \A r \in Readers :
      readerPc[r] # "fail" /\ (readerPc[r] = "idle" => refs[r] = 0)

\* The inductive invariant.
IInv ==
  /\ TypeOK
  /\ FilterNeverSpins
  /\ CancelsForPower
  /\ FlagsHaveWork
  /\ Held
  /\ ~stray => ClockInv
  /\ MessageForInterrupt
  /\ GivenUp

-----------------------------------------------------------------------------
(* Messages in the FIFO                                                    *)

LEMMA TakeMessage ==
  ASSUME NEW s \in Seq(Messages), s # <<>>
  PROVE  /\ Head(s) \in Messages /\ Head(s) = s[1]
         /\ Tail(s) \in Seq(Messages)
         /\ Len(s) \in Nat /\ Len(s) > 0 /\ Len(Tail(s)) = Len(s) - 1
         /\ \A i \in 1 .. Len(s) - 1 : Tail(s)[i] = s[i + 1]
<1>1. Len(s) \in Nat \ {0}
  BY EmptySeq
<1>2. Head(s) = s[1]
  OBVIOUS
<1> QED  BY <1>1, <1>2, HeadTailProperties

LEMMA MadeUp ==
  ASSUME NEW n \in Nat
  PROVE  /\ AsyncMessages \cup {Time(t) : t \in 1 .. n} \cup {NoMessage} \subseteq Messages
         /\ \A m \in AsyncMessages : m.kind \in {"power", "tilt"}
         /\ \A t \in Nat : Time(t) \in Messages /\ Time(t).kind = "rtc" /\ Time(t).time = t
BY DEF AsyncMessages, Async, Time, NoMessage, Messages

-----------------------------------------------------------------------------
(* The beginning                                                           *)

LEMMA InitInv == Init => IInv
<1> SUFFICES ASSUME Init PROVE IInv
  OBVIOUS
<1>1. /\ fifoIn \in Seq(Messages)
      /\ \A i \in 1 .. Len(fifoIn) : fifoIn[i].kind # "rtc"
  <2>1. CASE fifoIn = <<>>  BY <2>1
  <2>2. CASE \E m \in AsyncMessages : fifoIn = <<m>>
    <3>1. PICK m \in AsyncMessages : fifoIn = <<m>>  BY <2>2
    <3>2. m \in Messages /\ m.kind # "rtc"  BY MadeUp
    <3> QED  BY <3>1, <3>2
  <2> QED  BY <2>1, <2>2 DEF Init
<1>2. TypeOK
  <2>1. NoMessage \in Messages  BY MadeUp
  <2>2. /\ intStatus \in BOOLEAN /\ powerOffPending \in BOOLEAN /\ stray \in BOOLEAN
        /\ work \in BOOLEAN /\ powerPressed \in BOOLEAN /\ tiltPresent \in BOOLEAN
        /\ rtcPresent \in BOOLEAN
    BY Zenon DEF Init
  <2>3. /\ readerPc \in [Readers -> {"idle", "lock", "write", "sending", "fail", "wait"}]
        /\ refs \in [Readers -> Int] /\ began \in [Readers -> Nat]
        /\ signalled \in [Readers -> BOOLEAN]
    BY DEF Init
  <2> QED  BY <1>1, <2>1, <2>2, <2>3 DEF Init, TypeOK
<1>3. FilterNeverSpins /\ CancelsForPower /\ FlagsHaveWork
  BY DEF Init, FilterNeverSpins, CancelsForPower, FlagsHaveWork
<1>4. Held
  BY ActorsAssumption DEF Init, Held, InCall
<1>5. ClockInv
  BY <1>1 DEF Init, ClockInv, OneOnTheWay, OwnerWaits, AnswersYounger,
              BothReferences, AnswerThere, Sent, Queued, Taken
<1>6. MessageForInterrupt /\ GivenUp
  BY DEF Init, MessageForInterrupt, GivenUp
<1> QED  BY <1>2, <1>3, <1>4, <1>5, <1>6 DEF IInv

-----------------------------------------------------------------------------
(* Types                                                                   *)

LEMMA TypeStep == TypeOK /\ [Next]_vars => TypeOK'
<1> SUFFICES ASSUME TypeOK, [Next]_vars PROVE TypeOK'
  OBVIOUS
<1> USE DEF TypeOK, smcVars, filterVars, flagVars, rtcVars, Threads
<1>1. ASSUME NEW m \in AsyncMessages, Event(m)  PROVE TypeOK'
  <2>1. m \in Messages  BY MadeUp
  <2>2. fifoIn' \in Seq(Messages)  BY <1>1, <2>1, AppendProperties DEF Event
  <2> QED  BY <1>1, <2>2 DEF Event
<1>2. CASE Process
  <2>1. CASE smcCmd = "rtc"
    <3>1. now' \in Nat /\ fifoIn' = Append(fifoIn, Time(now'))
      BY <1>2, <2>1 DEF Process
    <3>2. fifoIn' \in Seq(Messages)  BY <3>1, MadeUp, AppendProperties
    <3> QED  BY <1>2, <2>1, <3>1, <3>2 DEF Process
  <2>2. CASE smcCmd # "rtc"  BY <1>2, <2>2 DEF Process
  <2> QED  BY <2>1, <2>2
<1>3. CASE FilterStep
  <2>1. CASE Interrupt    BY <2>1 DEF Interrupt
  <2>2. CASE FilterRead
    <3>1. CASE fifoIn # <<>>
      <4>1. fifoIn' = Tail(fifoIn) /\ msg' = Head(fifoIn)
        BY <2>2, <3>1 DEF FilterRead
      <4>2. fifoIn' \in Seq(Messages) /\ msg' \in Messages
        BY <3>1, <4>1, TakeMessage
      <4> QED  BY <2>2, <4>2 DEF FilterRead
    <3>2. CASE fifoIn = <<>>
      <4>1. fifoIn' = fifoIn /\ msg' \in Messages
        BY <2>2, <3>2, MadeUp DEF FilterRead
      <4> QED  BY <2>2, <4>1 DEF FilterRead
    <3> QED  BY <3>1, <3>2
  <2>3. CASE FilterPower  BY <2>3 DEF FilterPower
  <2>4. CASE FilterCancel
    BY <2>4 DEF FilterCancel, Send, SendTimeout, CancelPowerOff
  <2>5. CASE FilterTilt   BY <2>5 DEF FilterTilt
  <2>6. CASE FilterTime
    <3>1. rtcValue' \in Nat  BY <2>6 DEF FilterTime, Messages
    <3>2. refs' \in [Readers -> Int] /\ signalled' \in [Readers -> BOOLEAN]
      BY <2>6 DEF FilterTime, Signal
    <3> QED  BY <2>6, <3>1, <3>2 DEF FilterTime
  <2>7. CASE FilterOther  BY <2>7 DEF FilterOther
  <2>8. CASE FilterAck
    <3>1. intStatus' \in BOOLEAN /\ work' \in BOOLEAN
      BY <2>8, Zenon DEF FilterAck, NeedSecondary
    <3>2. msg' \in Messages  BY <2>8, MadeUp DEF FilterAck
    <3> QED  BY <2>8, <3>1, <3>2 DEF FilterAck
  <2> QED  BY <1>3, <2>1, <2>2, <2>3, <2>4, <2>5, <2>6, <2>7, <2>8 DEF FilterStep
<1>4. CASE SecondaryStep
  <2>1. CASE SecondaryStart
    <3>1. work' \in BOOLEAN  BY <2>1, Zenon DEF SecondaryStart
    <3> QED  BY <2>1, <3>1 DEF SecondaryStart
  <2>2. CASE SecondaryPower
    <3>1. powerPressed' \in BOOLEAN  BY <2>2, Zenon DEF SecondaryPower
    <3> QED  BY <2>2, <3>1 DEF SecondaryPower
  <2>3. CASE SecondaryReboot
    BY <2>3 DEF SecondaryReboot, TakeLock, Send, SendTimeout, RebootPowerOff
  <2>4. CASE SecondaryTilt
    <3>1. tiltPresent' \in BOOLEAN  BY <2>4, Zenon DEF SecondaryTilt
    <3> QED  BY <2>4, <3>1 DEF SecondaryTilt
  <2> QED  BY <1>4, <2>1, <2>2, <2>3, <2>4 DEF SecondaryStep
<1>5. CASE ClientSend
  BY <1>5 DEF ClientSend, TakeLock, Send, SendTimeout, ClientCommands, EjectTheMedia,
              PeHaltRestart, RebootPowerOff
<1>6. ASSUME NEW r \in Readers, RtcCall(r) \/ ReaderStep(r)  PROVE TypeOK'
  <2> USE DEF Goto
  <2>1. CASE RtcCall(r)    BY <2>1 DEF RtcCall
  <2>2. CASE RtcLock(r)    BY <2>2 DEF RtcLock
  <2>3. CASE RtcSend(r)
    <3>1. readerPc' \in [Readers -> {"idle", "lock", "write", "sending", "fail", "wait"}]
      BY <2>3 DEF RtcSend
    <3> QED  BY <2>3, <3>1 DEF RtcSend, TakeLock, Send, SendTimeout
  <2>4. CASE RtcFail(r)    BY <2>4 DEF RtcFail, RtcUnlock
  <2>5. CASE RtcReturn(r)
    <3>1. rtcPresent' \in BOOLEAN  BY <2>5, Zenon DEF RtcReturn
    <3> QED  BY <2>5, <3>1 DEF RtcReturn, RtcUnlock
  <2> QED  BY <1>6, <2>1, <2>2, <2>3, <2>4, <2>5 DEF ReaderStep
<1>7. CASE UNCHANGED vars  BY <1>7 DEF vars
<1> QED  BY <1>1, <1>2, <1>3, <1>4, <1>5, <1>6, <1>7 DEF Next

-----------------------------------------------------------------------------
(* The filter and the flags                                                *)

LEMMA FilterInv ==
  FilterNeverSpins /\ CancelsForPower /\ [Next]_vars
    => FilterNeverSpins' /\ CancelsForPower'
<1> SUFFICES ASSUME FilterNeverSpins, CancelsForPower, [Next]_vars
             PROVE  FilterNeverSpins' /\ CancelsForPower'
  OBVIOUS
<1> USE DEF FilterNeverSpins, CancelsForPower, filterVars
<1>1. ASSUME NEW m \in AsyncMessages, Event(m)
      PROVE  FilterNeverSpins' /\ CancelsForPower'
  BY <1>1 DEF Event
<1>2. CASE Process  BY <1>2 DEF Process
<1>3. CASE FilterStep
  <2>1. CASE Interrupt     BY <2>1 DEF Interrupt, InterruptsOn
  <2>2. CASE FilterRead    BY <2>2 DEF FilterRead
  <2>3. CASE FilterPower   BY <2>3 DEF FilterPower
  <2>4. CASE FilterCancel  BY <2>4 DEF FilterCancel, Send, SendTimeout
  <2>5. CASE FilterTilt    BY <2>5 DEF FilterTilt
  <2>6. CASE FilterTime    BY <2>6 DEF FilterTime
  <2>7. CASE FilterOther   BY <2>7 DEF FilterOther
  <2>8. CASE FilterAck     BY <2>8 DEF FilterAck
  <2> QED  BY <1>3, <2>1, <2>2, <2>3, <2>4, <2>5, <2>6, <2>7, <2>8 DEF FilterStep
<1>4. CASE SecondaryStep
  BY <1>4 DEF SecondaryStep, SecondaryStart, SecondaryPower, SecondaryReboot,
              SecondaryTilt, Scheduled
<1>5. CASE ClientSend  BY <1>5 DEF ClientSend, Scheduled
<1>6. ASSUME NEW r \in Readers, RtcCall(r) \/ ReaderStep(r)
      PROVE  FilterNeverSpins' /\ CancelsForPower'
  BY <1>6 DEF RtcCall, ReaderStep, RtcLock, RtcSend, RtcFail, RtcReturn, Scheduled
<1>7. CASE UNCHANGED vars  BY <1>7 DEF vars
<1> QED  BY <1>1, <1>2, <1>3, <1>4, <1>5, <1>6, <1>7 DEF Next

LEMMA FlagsInv ==
  CancelsForPower /\ FlagsHaveWork /\ [Next]_vars => FlagsHaveWork'
<1> SUFFICES ASSUME CancelsForPower, FlagsHaveWork, [Next]_vars
             PROVE  FlagsHaveWork'
  OBVIOUS
<1> USE DEF FlagsHaveWork, flagVars, filterVars
<1>1. ASSUME NEW m \in AsyncMessages, Event(m)  PROVE FlagsHaveWork'
  BY <1>1 DEF Event
<1>2. CASE Process  BY <1>2 DEF Process
<1>3. CASE FilterStep
  <2>1. CASE Interrupt     BY <2>1 DEF Interrupt
  <2>2. CASE FilterRead    BY <2>2 DEF FilterRead
  <2>3. CASE FilterPower   BY <2>3 DEF FilterPower
  <2>4. CASE FilterCancel  BY <2>4 DEF FilterCancel, CancelsForPower
  <2>5. CASE FilterTilt    BY <2>5 DEF FilterTilt
  <2>6. CASE FilterTime    BY <2>6 DEF FilterTime
  <2>7. CASE FilterOther   BY <2>7 DEF FilterOther
  <2>8. CASE FilterAck     BY <2>8 DEF FilterAck, NeedSecondary
  <2> QED  BY <1>3, <2>1, <2>2, <2>3, <2>4, <2>5, <2>6, <2>7, <2>8 DEF FilterStep
<1>4. CASE SecondaryStep
  <2>1. CASE SecondaryStart   BY <2>1 DEF SecondaryStart, Scheduled
  <2>2. CASE SecondaryPower   BY <2>2 DEF SecondaryPower, Scheduled
  <2>3. CASE SecondaryReboot  BY <2>3 DEF SecondaryReboot, Scheduled
  <2>4. CASE SecondaryTilt    BY <2>4 DEF SecondaryTilt, Scheduled
  <2> QED  BY <1>4, <2>1, <2>2, <2>3, <2>4 DEF SecondaryStep
<1>5. CASE ClientSend  BY <1>5 DEF ClientSend
<1>6. ASSUME NEW r \in Readers, RtcCall(r) \/ ReaderStep(r)  PROVE FlagsHaveWork'
  BY <1>6 DEF RtcCall, ReaderStep, RtcLock, RtcSend, RtcFail, RtcReturn
<1>7. CASE UNCHANGED vars  BY <1>7 DEF vars
<1> QED  BY <1>1, <1>2, <1>3, <1>4, <1>5, <1>6, <1>7 DEF Next

\* What the interrupt and the controller do to the messages.
LEMMA MessageInv ==
  TypeOK /\ MessageForInterrupt /\ [Next]_vars => MessageForInterrupt'
<1> SUFFICES ASSUME TypeOK, MessageForInterrupt, [Next]_vars
             PROVE  MessageForInterrupt'
  OBVIOUS
<1> USE DEF MessageForInterrupt, smcVars, filterVars
<1>1. ASSUME NEW m \in AsyncMessages, Event(m)  PROVE MessageForInterrupt'
  <2>1. m \in Messages  BY MadeUp
  <2>2. fifoIn' # <<>>  BY <1>1, <2>1, AppendProperties DEF Event, TypeOK
  <2> QED  BY <1>1, <2>2 DEF Event
<1>2. CASE Process
  <2>1. CASE smcCmd = "rtc"
    <3>1. now' \in Nat /\ fifoIn' = Append(fifoIn, Time(now'))
      BY <1>2, <2>1 DEF Process, TypeOK
    <3>2. fifoIn' # <<>>  BY <3>1, MadeUp, AppendProperties DEF TypeOK
    <3> QED  BY <1>2, <3>2 DEF Process
  <2>2. CASE smcCmd # "rtc"  BY <1>2, <2>2 DEF Process
  <2> QED  BY <2>1, <2>2
<1>3. CASE FilterStep
  <2>1. CASE Interrupt     BY <2>1 DEF Interrupt
  <2>2. CASE FilterRead    BY <2>2 DEF FilterRead
  <2>3. CASE FilterPower   BY <2>3 DEF FilterPower
  <2>4. CASE FilterCancel  BY <2>4 DEF FilterCancel
  <2>5. CASE FilterTilt    BY <2>5 DEF FilterTilt
  <2>6. CASE FilterTime    BY <2>6 DEF FilterTime
  <2>7. CASE FilterOther   BY <2>7 DEF FilterOther
  <2>8. CASE FilterAck     BY <2>8, Zenon DEF FilterAck
  <2> QED  BY <1>3, <2>1, <2>2, <2>3, <2>4, <2>5, <2>6, <2>7, <2>8 DEF FilterStep
<1>4. CASE SecondaryStep
  BY <1>4 DEF SecondaryStep, SecondaryStart, SecondaryPower, SecondaryReboot,
              SecondaryTilt
<1>5. CASE ClientSend  BY <1>5 DEF ClientSend
<1>6. ASSUME NEW r \in Readers, RtcCall(r) \/ ReaderStep(r)
      PROVE  MessageForInterrupt'
  BY <1>6 DEF RtcCall, ReaderStep, RtcLock, RtcSend, RtcFail, RtcReturn
<1>7. CASE UNCHANGED vars  BY <1>7 DEF vars
<1> QED  BY <1>1, <1>2, <1>3, <1>4, <1>5, <1>6, <1>7 DEF Next

-----------------------------------------------------------------------------
(* The lock of getRTC                                                      *)

\* Steps of others leave getRTC's calls alone.
LEMMA OthersStep ==
  ASSUME \/ \E m \in AsyncMessages : Event(m)
         \/ Process
         \/ FilterStep
         \/ SecondaryStep
         \/ ClientSend
         \/ UNCHANGED vars
  PROVE  UNCHANGED <<readerPc, rtcLock, rtcSyncer, began>>
BY DEF Event, Process, FilterStep, Interrupt, FilterRead, FilterPower, FilterCancel,
       FilterTilt, FilterTime, FilterOther, FilterAck, SecondaryStep, SecondaryStart,
       SecondaryPower, SecondaryReboot, SecondaryTilt, ClientSend, vars, rtcVars

LEMMA HeldInv == TypeOK /\ Held /\ [Next]_vars => Held'
<1> SUFFICES ASSUME TypeOK, Held, [Next]_vars PROVE Held'
  OBVIOUS
<1>1. ASSUME UNCHANGED <<readerPc, rtcLock, rtcSyncer>>  PROVE Held'
  BY <1>1 DEF Held
<1>2. ASSUME NEW r \in Readers, RtcCall(r) \/ ReaderStep(r)  PROVE Held'
  <2> USE ActorsAssumption DEF TypeOK, Held, InCall, Goto
  <2>1. CASE RtcCall(r)    BY <2>1 DEF RtcCall
  <2>2. CASE RtcLock(r)    BY <2>2 DEF RtcLock, RtcLockFree
  <2>3. CASE RtcSend(r)    BY <2>3 DEF RtcSend
  <2>4. CASE RtcFail(r)    BY <2>4 DEF RtcFail, RtcUnlock
  <2>5. CASE RtcReturn(r)  BY <2>5 DEF RtcReturn, RtcUnlock
  <2> QED  BY <1>2, <2>1, <2>2, <2>3, <2>4, <2>5 DEF ReaderStep
<1> QED  BY <1>1, <1>2, OthersStep DEF Next

-----------------------------------------------------------------------------
(* The answer to getRTC                                                    *)

\* A step that has nothing to do with the clock.
LEMMA QuietStep ==
  ASSUME ClockInv, UNCHANGED <<fifoIn, now, rtcVars>>,
         Sent' => Sent, Taken' => Taken /\ msg' = msg
  PROVE  ClockInv'
<1>1. Queued' <=> Queued  BY DEF Queued
<1>2. OneOnTheWay'     BY <1>1 DEF ClockInv, OneOnTheWay
<1>3. OwnerWaits'      BY <1>1 DEF ClockInv, OwnerWaits, rtcVars
<1>4. AnswersYounger'  BY DEF ClockInv, AnswersYounger, rtcVars
<1>5. BothReferences' /\ AnswerThere'
  BY DEF ClockInv, BothReferences, AnswerThere, rtcVars
<1> QED  BY <1>2, <1>3, <1>4, <1>5 DEF ClockInv

\* The controller adds a message: another one, or the answer to what was sent.
LEMMA AppendStep ==
  ASSUME TypeOK, Held, ClockInv, NEW m \in Messages,
         fifoIn' = Append(fifoIn, m), UNCHANGED <<filterPc, msg, rtcVars>>,
         \/ m.kind # "rtc" /\ UNCHANGED <<smcCmd, now>>
         \/ /\ Sent /\ ~Sent' /\ m.kind = "rtc"
            /\ now' = now + 1 /\ m.time = now + 1
  PROVE  ClockInv'
<1>1. /\ Len(fifoIn') = Len(fifoIn) + 1 /\ Len(fifoIn) \in Nat
      /\ \A i \in 1 .. Len(fifoIn) : fifoIn'[i] = fifoIn[i]
      /\ fifoIn'[Len(fifoIn) + 1] = m
  BY AppendProperties, LenProperties DEF TypeOK
<1>2. Queued' <=> Queued \/ m.kind = "rtc"  BY <1>1 DEF Queued
<1>3. Taken' <=> Taken  BY DEF Taken
<1>4. OneOnTheWay'
  <2>1. ~(Sent' /\ Queued') /\ ~(Sent' /\ Taken') /\ ~(Queued' /\ Taken')
    BY <1>2, <1>3 DEF ClockInv, OneOnTheWay, Sent
  <2>2. ASSUME NEW i \in 1 .. Len(fifoIn'), NEW j \in 1 .. Len(fifoIn'),
               fifoIn'[i].kind = "rtc", fifoIn'[j].kind = "rtc"
        PROVE  i = j
    <3>1. CASE Queued
      BY <1>1, <2>2, <3>1 DEF ClockInv, OneOnTheWay, Sent
    <3>2. CASE ~Queued  BY <1>1, <2>2, <3>2 DEF Queued
    <3> QED  BY <3>1, <3>2
  <2> QED  BY <2>1, <2>2 DEF OneOnTheWay
<1>5. OwnerWaits'
  BY <1>2, <1>3 DEF ClockInv, OwnerWaits, Sent, rtcVars
<1>6. AnswersYounger'
  <2>1. \A r \in Readers : began'[r] <= now'
    BY DEF ClockInv, AnswersYounger, rtcVars, TypeOK
  <2>2. ASSUME NEW i \in 1 .. Len(fifoIn'), fifoIn'[i].kind = "rtc"
        PROVE  fifoIn'[i].time > began'[rtcLock']
    <3>1. CASE i \in 1 .. Len(fifoIn)
      BY <1>1, <2>2, <3>1 DEF ClockInv, AnswersYounger, rtcVars
    <3>2. CASE i = Len(fifoIn) + 1
      <4>1. rtcLock \in Readers /\ m.time = now + 1
        BY <1>1, <2>2, <3>2 DEF ClockInv, OwnerWaits, TypeOK
      <4> QED  BY <1>1, <3>2, <4>1 DEF ClockInv, AnswersYounger, rtcVars, TypeOK
    <3> QED  BY <1>1, <3>1, <3>2
  <2> QED  BY <1>3, <2>1, <2>2 DEF AnswersYounger, ClockInv, rtcVars
<1>7. BothReferences' /\ AnswerThere'
  BY DEF ClockInv, BothReferences, AnswerThere, rtcVars
<1> QED  BY <1>4, <1>5, <1>6, <1>7 DEF ClockInv

\* The filter takes a message.
LEMMA ReadStep ==
  ASSUME TypeOK, ClockInv, FilterRead, ~stray'
  PROVE  ClockInv'
<1>1. /\ fifoIn # <<>> /\ msg' = Head(fifoIn) /\ fifoIn' = Tail(fifoIn)
      /\ filterPc = "read" /\ filterPc' = "handle"
      /\ UNCHANGED <<smcCmd, now, rtcVars>>
  BY DEF FilterRead
<1>2. /\ msg' = fifoIn[1]
      /\ Len(fifoIn) \in Nat /\ Len(fifoIn) > 0 /\ Len(fifoIn') = Len(fifoIn) - 1
      /\ \A i \in 1 .. Len(fifoIn) - 1 : fifoIn'[i] = fifoIn[i + 1]
  BY <1>1, TakeMessage DEF TypeOK
<1>3. Queued' => Queued  BY <1>2 DEF Queued
<1>4. Taken' => Queued  BY <1>2 DEF Taken, Queued
<1>5. ~(Queued' /\ Taken')
  <2>1. SUFFICES ASSUME Taken', NEW i \in 1 .. Len(fifoIn'), fifoIn'[i].kind = "rtc"
                 PROVE  FALSE
    BY DEF Queued
  <2>2. fifoIn[1].kind = "rtc" /\ fifoIn[i + 1].kind = "rtc" /\ i + 1 # 1
    BY <1>2, <2>1 DEF Taken
  <2> QED  BY <1>2, <2>1, <2>2 DEF ClockInv, OneOnTheWay
<1>6. OneOnTheWay'
  <2>1. \A i, j \in 1 .. Len(fifoIn') :
          fifoIn'[i].kind = "rtc" /\ fifoIn'[j].kind = "rtc" => i = j
    <3>1. SUFFICES ASSUME NEW i \in 1 .. Len(fifoIn'), NEW j \in 1 .. Len(fifoIn'),
                          fifoIn'[i].kind = "rtc", fifoIn'[j].kind = "rtc"
                   PROVE  i = j
      OBVIOUS
    <3>2. /\ i + 1 \in 1 .. Len(fifoIn) /\ j + 1 \in 1 .. Len(fifoIn)
          /\ fifoIn[i + 1].kind = "rtc" /\ fifoIn[j + 1].kind = "rtc"
      BY <1>2, <3>1
    <3>3. i + 1 = j + 1  BY <3>2 DEF ClockInv, OneOnTheWay
    <3> QED  BY <3>3
  <2> QED  BY <1>1, <1>3, <1>4, <1>5, <2>1 DEF ClockInv, OneOnTheWay, Sent
<1>7. OwnerWaits'
  BY <1>1, <1>3, <1>4 DEF ClockInv, OwnerWaits, Sent, rtcVars
<1>8. AnswersYounger'
  <2>1. ASSUME NEW i \in 1 .. Len(fifoIn'), fifoIn'[i].kind = "rtc"
        PROVE  fifoIn'[i].time > began'[rtcLock']
    <3>1. i + 1 \in 1 .. Len(fifoIn) /\ fifoIn'[i] = fifoIn[i + 1]
      BY <1>2
    <3> QED  BY <1>1, <2>1, <3>1 DEF ClockInv, AnswersYounger, rtcVars
  <2>2. Taken' => msg'.time > began'[rtcLock']
    BY <1>1, <1>2 DEF ClockInv, AnswersYounger, Taken, rtcVars
  <2> QED  BY <1>1, <2>1, <2>2 DEF ClockInv, AnswersYounger, rtcVars
<1>9. BothReferences' /\ AnswerThere'
  BY <1>1 DEF ClockInv, BothReferences, AnswerThere, rtcVars
<1> QED  BY <1>6, <1>7, <1>8, <1>9 DEF ClockInv

\* The filter hands the answer on.
LEMMA TimeStep ==
  ASSUME TypeOK, Held, ClockInv, FilterTime
  PROVE  ClockInv'
<1>1. /\ Taken /\ ~Taken' /\ (Queued' <=> Queued)
      /\ rtcLock \in Readers /\ rtcSyncer = rtcLock
      /\ readerPc[rtcLock] = "wait" /\ ~signalled[rtcLock]
      /\ UNCHANGED <<smcCmd, now, fifoIn, msg, readerPc, rtcLock, began>>
  BY DEF FilterTime, Taken, Queued, ClockInv, OwnerWaits, Held, TypeOK, smcVars
<1>2. OneOnTheWay'  BY <1>1 DEF ClockInv, OneOnTheWay, Sent
<1>3. OwnerWaits'   BY <1>1 DEF ClockInv, OneOnTheWay, OwnerWaits, Sent
<1>4. AnswersYounger'  BY <1>1 DEF ClockInv, AnswersYounger
<1>5. \A r \in Readers : readerPc[r] = "wait" => r = rtcLock
  BY DEF Held, InCall
<1>6. BothReferences'
  <2>1. refs[rtcLock] = 2  BY <1>1 DEF ClockInv, BothReferences
  <2>2. signalled'[rtcLock] /\ refs'[rtcLock] = 1
    <3>1. refs' = [r \in Readers |-> IF r = rtcSyncer THEN Signal(r) ELSE refs[r]]
      BY DEF FilterTime
    <3>2. signalled' = [r \in Readers |-> signalled[r] \/ r = rtcSyncer]
      BY DEF FilterTime
    <3>3. signalled'[rtcLock]  BY <1>1, <3>2, Zenon
    <3> QED  BY <1>1, <2>1, <3>1, <3>3 DEF Signal
  <2>3. \A r \in Readers \ {rtcLock} : signalled'[r] = signalled[r] /\ refs'[r] = refs[r]
    BY <1>1 DEF FilterTime, TypeOK
  <2> QED  BY <1>1, <1>5, <2>2, <2>3 DEF ClockInv, BothReferences
<1>7. AnswerThere'
  BY <1>1, <1>5 DEF ClockInv, AnswersYounger, AnswerThere, FilterTime, TypeOK
<1> QED  BY <1>2, <1>3, <1>4, <1>6, <1>7 DEF ClockInv

\* The threads in getRTC.
LEMMA ReaderInv ==
  ASSUME TypeOK, Held, ClockInv, NEW r \in Readers, RtcCall(r) \/ ReaderStep(r)
  PROVE  ClockInv'
<1> USE DEF ClockInv, TypeOK, Goto
<1>1. UNCHANGED <<fifoIn, now, filterPc, msg>>
  BY DEF RtcCall, ReaderStep, RtcLock, RtcSend, RtcFail, RtcReturn, smcVars, filterVars
<1>2. (Queued' <=> Queued) /\ (Taken' <=> Taken)
  BY <1>1 DEF Queued, Taken
<1>3. CASE RtcCall(r)
  <2>1. /\ UNCHANGED <<smcCmd, rtcLock, rtcValue, rtcPresent>> /\ readerPc[r] = "idle"
        /\ readerPc' = [readerPc EXCEPT ![r] = "lock"]
        /\ refs' = [refs EXCEPT ![r] = 2]
        /\ signalled' = [signalled EXCEPT ![r] = FALSE]
        /\ began' = [began EXCEPT ![r] = now]
    BY <1>3 DEF RtcCall, smcVars
  <2>2. rtcLock # r  BY <2>1 DEF Held, InCall
  <2>3. OneOnTheWay'  BY <1>1, <1>2, <2>1 DEF OneOnTheWay, Sent
  <2>4. OwnerWaits'   BY <1>2, <2>1, <2>2 DEF OwnerWaits, Sent
  <2>5. AnswersYounger'
    <3>1. \A q \in Readers : began'[q] <= now'  BY <1>1, <2>1 DEF AnswersYounger
    <3>2. Queued \/ Taken => began'[rtcLock'] = began[rtcLock]
      BY <2>1, <2>2 DEF OwnerWaits
    <3> QED  BY <1>1, <1>2, <3>1, <3>2 DEF AnswersYounger, Queued
  <2>6. BothReferences' /\ AnswerThere'  BY <2>1 DEF BothReferences, AnswerThere
  <2> QED  BY <2>3, <2>4, <2>5, <2>6
<1>4. CASE RtcLock(r)
  <2>1. /\ rtcLock = Nobody /\ UNCHANGED <<smcCmd, rtcValue, rtcPresent, refs, signalled, began>>
        /\ readerPc[r] = "lock" /\ readerPc' = [readerPc EXCEPT ![r] = "write"]
    BY <1>4 DEF RtcLock, RtcLockFree, smcVars
  <2>2. ~Sent /\ ~Queued /\ ~Taken  BY <2>1 DEF OwnerWaits
  <2>3. OneOnTheWay' /\ OwnerWaits' /\ AnswersYounger'
    BY <1>1, <1>2, <2>1, <2>2 DEF OneOnTheWay, OwnerWaits, AnswersYounger, Sent, Queued
  <2>4. BothReferences' /\ AnswerThere'  BY <2>1 DEF BothReferences, AnswerThere
  <2> QED  BY <2>3, <2>4
<1>5. CASE RtcSend(r)
  <2>1. /\ UNCHANGED <<rtcLock, rtcValue, rtcPresent, refs, signalled, began>>
        /\ readerPc[r] \in {"write", "sending"}
        /\ \E step \in {"sending", "fail", "wait"} :
             /\ readerPc' = [readerPc EXCEPT ![r] = step]
             /\ (step = "wait" /\ smcCmd' = "rtc") \/ smcCmd' = smcCmd
    BY <1>5 DEF RtcSend, Send
  <2>2. rtcLock = r /\ ~Sent /\ ~Queued /\ ~Taken
    BY <2>1 DEF OwnerWaits, Held, InCall
  <2>3. Sent' => readerPc'[r] = "wait"  BY <2>1, <2>2 DEF Sent
  <2>4. ~signalled[r] /\ refs[r] = 2  BY <2>1 DEF BothReferences
  <2>5. OneOnTheWay'  BY <1>1, <1>2, <2>2 DEF OneOnTheWay
  <2>6. OwnerWaits'
    BY <1>2, <2>1, <2>2, <2>3, <2>4, ActorsAssumption DEF OwnerWaits
  <2>7. AnswersYounger'  BY <1>1, <1>2, <2>1, <2>2 DEF AnswersYounger, Queued
  <2>8. BothReferences' /\ AnswerThere'
    BY <2>1, <2>4 DEF BothReferences, AnswerThere
  <2> QED  BY <2>5, <2>6, <2>7, <2>8
<1>6. CASE RtcFail(r) \/ RtcReturn(r)
  <2>1. /\ UNCHANGED <<smcCmd, rtcValue, signalled, began>> /\ rtcLock' = Nobody
        /\ readerPc[r] = "fail" \/ (readerPc[r] = "wait" /\ signalled[r])
        /\ readerPc' = [readerPc EXCEPT ![r] = "idle"]
        /\ refs' = [refs EXCEPT ![r] = refs[r] - 1]
    <3>1. CASE RtcFail(r)    BY <3>1 DEF RtcFail, RtcUnlock, smcVars
    <3>2. CASE RtcReturn(r)  BY <3>2 DEF RtcReturn, RtcUnlock, smcVars
    <3> QED  BY <1>6, <3>1, <3>2
  <2>2. rtcLock = r /\ \A q \in Readers \ {r} : readerPc[q] # "wait"
    BY <2>1 DEF Held, InCall
  <2>3. ~Sent /\ ~Queued /\ ~Taken  BY <2>1, <2>2 DEF OwnerWaits
  <2>4. OneOnTheWay' /\ OwnerWaits' /\ AnswersYounger'
    BY <1>1, <1>2, <2>1, <2>3 DEF OneOnTheWay, OwnerWaits, AnswersYounger, Sent, Queued
  <2>5. BothReferences' /\ AnswerThere'
    BY <2>1, <2>2 DEF BothReferences, AnswerThere
  <2> QED  BY <2>4, <2>5
<1> QED  BY <1>3, <1>4, <1>5, <1>6 DEF ReaderStep

LEMMA ClockStep ==
  TypeOK /\ Held /\ (~stray => ClockInv) /\ [Next]_vars => (~stray' => ClockInv')
<1> SUFFICES ASSUME TypeOK, Held, ~stray => ClockInv, [Next]_vars, ~stray'
             PROVE  ClockInv'
  OBVIOUS
<1>1. ClockInv
  BY DEF Next, Event, Process, FilterStep, Interrupt, FilterRead, FilterPower,
         FilterCancel, FilterTilt, FilterTime, FilterOther, FilterAck, SecondaryStep,
         SecondaryStart, SecondaryPower, SecondaryReboot, SecondaryTilt, ClientSend,
         RtcCall, ReaderStep, RtcLock, RtcSend, RtcFail, RtcReturn, filterVars, vars
<1>2. ASSUME UNCHANGED <<fifoIn, now, rtcVars>>, Sent' => Sent, Taken' => Taken,
             Taken' => msg' = msg
      PROVE  ClockInv'
  BY <1>1, <1>2, QuietStep
<1>3. ASSUME NEW m \in AsyncMessages, Event(m)  PROVE ClockInv'
  <2>1. m \in Messages /\ m.kind # "rtc"  BY MadeUp
  <2> QED  BY <1>1, <1>3, <2>1, AppendStep DEF Event, filterVars
<1>4. CASE Process
  <2>1. CASE smcCmd = "rtc"
    <3>1. now + 1 \in Nat  BY DEF TypeOK
    <3>2. Time(now + 1) \in Messages /\ Time(now + 1).kind = "rtc"
          /\ Time(now + 1).time = now + 1
      BY <3>1, MadeUp
    <3>3. /\ Sent /\ ~Sent' /\ now' = now + 1 /\ fifoIn' = Append(fifoIn, Time(now + 1))
          /\ UNCHANGED <<filterPc, msg, rtcVars>>
      BY <1>4, <2>1 DEF Process, Sent, filterVars
    <3> QED  BY <1>1, <3>2, <3>3, AppendStep
  <2>2. CASE smcCmd # "rtc"
    BY <1>2, <1>4, <2>2 DEF Process, Sent, Taken, filterVars
  <2> QED  BY <2>1, <2>2
<1>5. CASE FilterStep
  <2>1. CASE Interrupt    BY <1>2, <2>1 DEF Interrupt, Sent, Taken, smcVars
  <2>2. CASE FilterRead   BY <1>1, <2>2, ReadStep
  <2>3. CASE FilterPower  BY <1>2, <2>3 DEF FilterPower, Sent, Taken, smcVars
  <2>4. CASE FilterCancel
    BY <1>2, <2>4 DEF FilterCancel, Send, CancelPowerOff, Sent, Taken
  <2>5. CASE FilterTilt   BY <1>2, <2>5 DEF FilterTilt, Sent, Taken, smcVars
  <2>6. CASE FilterTime   BY <1>1, <2>6, TimeStep
  <2>7. CASE FilterOther  BY <1>2, <2>7 DEF FilterOther, Sent, Taken, smcVars
  <2>8. CASE FilterAck    BY <1>2, <2>8 DEF FilterAck, Sent, Taken
  <2> QED  BY <1>5, <2>1, <2>2, <2>3, <2>4, <2>5, <2>6, <2>7, <2>8 DEF FilterStep
<1>6. CASE SecondaryStep
  <2> USE DEF Sent, Taken, smcVars, filterVars
  <2>1. CASE SecondaryStart   BY <1>2, <2>1 DEF SecondaryStart
  <2>2. CASE SecondaryPower   BY <1>2, <2>2 DEF SecondaryPower
  <2>3. CASE SecondaryReboot
    BY <1>2, <2>3 DEF SecondaryReboot, Send, RebootPowerOff
  <2>4. CASE SecondaryTilt    BY <1>2, <2>4 DEF SecondaryTilt
  <2> QED  BY <1>6, <2>1, <2>2, <2>3, <2>4 DEF SecondaryStep
<1>7. CASE ClientSend
  BY <1>2, <1>7 DEF ClientSend, Send, ClientCommands, EjectTheMedia, PeHaltRestart,
                    RebootPowerOff, Sent, Taken, filterVars
<1>8. ASSUME NEW r \in Readers, RtcCall(r) \/ ReaderStep(r)  PROVE ClockInv'
  BY <1>1, <1>8, ReaderInv
<1>9. CASE UNCHANGED vars
  BY <1>2, <1>9 DEF vars, smcVars, filterVars, Sent, Taken
<1> QED  BY <1>3, <1>4, <1>5, <1>6, <1>7, <1>8, <1>9 DEF Next

-----------------------------------------------------------------------------
(* References are given up                                                 *)

\* Steps of others leave the references alone, the filter's signal excepted.
LEMMA OthersRefs ==
  ASSUME \/ \E m \in AsyncMessages : Event(m)
         \/ Process
         \/ FilterStep /\ ~FilterTime
         \/ SecondaryStep
         \/ ClientSend
         \/ UNCHANGED vars
  PROVE  UNCHANGED refs
BY DEF Event, Process, FilterStep, Interrupt, FilterRead, FilterPower, FilterCancel,
       FilterTilt, FilterOther, FilterAck, SecondaryStep, SecondaryStart,
       SecondaryPower, SecondaryReboot, SecondaryTilt, ClientSend, vars, rtcVars

LEMMA NotStrayBefore == TypeOK /\ [Next]_vars /\ ~stray' => ~stray
BY DEF Next, Event, Process, FilterStep, Interrupt, FilterRead, FilterPower,
       FilterCancel, FilterTilt, FilterTime, FilterOther, FilterAck, SecondaryStep,
       SecondaryStart, SecondaryPower, SecondaryReboot, SecondaryTilt, ClientSend,
       RtcCall, ReaderStep, RtcLock, RtcSend, RtcFail, RtcReturn, filterVars, vars

LEMMA GivenUpStep == IInv /\ [Next]_vars => GivenUp'
<1> SUFFICES ASSUME IInv, [Next]_vars, ~CanTimeout, ~stray'
             PROVE  \A r \in Readers :
                      readerPc'[r] # "fail" /\ (readerPc'[r] = "idle" => refs'[r] = 0)
  BY DEF GivenUp
<1> DEFINE Done(r) == readerPc[r] # "fail" /\ (readerPc[r] = "idle" => refs[r] = 0)
<1>1. ~stray /\ ClockInv /\ Held /\ TypeOK  BY NotStrayBefore DEF IInv
<1>2. \A r \in Readers : Done(r)  BY <1>1 DEF IInv, GivenUp
<1>3. CASE UNCHANGED <<readerPc, refs>>  BY <1>2, <1>3
<1>4. CASE FilterTime
  <2>1. rtcLock \in Readers /\ rtcSyncer = rtcLock /\ readerPc[rtcLock] = "wait"
    BY <1>1, <1>4 DEF FilterTime, Taken, ClockInv, OwnerWaits, Held, TypeOK
  <2>2. readerPc' = readerPc /\ \A r \in Readers \ {rtcLock} : refs'[r] = refs[r]
    BY <1>1, <1>4, <2>1 DEF FilterTime, TypeOK
  <2> QED  BY <1>2, <2>1, <2>2
<1>5. ASSUME NEW q \in Readers, RtcCall(q) \/ ReaderStep(q)
      PROVE  \A r \in Readers : Done(r)'
  <2> USE <1>1, <1>2 DEF TypeOK, Goto
  <2>1. CASE RtcCall(q)  BY <2>1 DEF RtcCall
  <2>2. CASE RtcLock(q)  BY <2>2 DEF RtcLock
  <2>3. CASE RtcSend(q)  BY <2>3 DEF RtcSend, SendTimeout
  <2>4. CASE RtcFail(q)  BY <2>4 DEF RtcFail
  <2>5. CASE RtcReturn(q)
    <3>1. refs[q] = 1  BY <2>5 DEF RtcReturn, ClockInv, BothReferences
    <3> QED  BY <2>5, <3>1 DEF RtcReturn
  <2> QED  BY <1>5, <2>1, <2>2, <2>3, <2>4, <2>5 DEF ReaderStep
<1> QED  BY <1>3, <1>4, <1>5, OthersStep, OthersRefs DEF Next

-----------------------------------------------------------------------------
(* Theorems                                                                *)

LEMMA Invariance == Spec => []IInv
<1>1. IInv /\ [Next]_vars => IInv'
  BY TypeStep, FilterInv, FlagsInv, HeldInv, ClockStep, MessageInv, GivenUpStep DEF IInv
<1> QED  BY InitInv, <1>1, PTL DEF Spec

\* The driver's state keeps its types.
THEOREM TypeCorrect == Spec => []TypeOK
<1>1. IInv => TypeOK  BY DEF IInv
<1> QED  BY Invariance, <1>1, PTL

\* The filter never meets _lock in the hands of the thread it interrupted.
THEOREM NeverSpins == Spec => []FilterNeverSpins
<1>1. IInv => FilterNeverSpins  BY DEF IInv
<1> QED  BY Invariance, <1>1, PTL

\* No event that the filter noted is without its flag and a run of handleInterrupt to
\* come, until a test has seen the flag or it was cleared with one that a test saw.
THEOREM FlagsNotForgotten == Spec => []FlagsHaveWork
<1>1. IInv => FlagsHaveWork  BY DEF IInv
<1> QED  BY Invariance, <1>1, PTL

\* getRTC returns a time that is younger than the call, whoever else asks.
THEOREM AnswersFresh == Spec => []RtcFresh
<1>1. IInv => RtcFresh  BY DEF IInv, ClockInv, AnswerThere, RtcFresh
<1> QED  BY Invariance, <1>1, PTL

\* The filter signals no syncer that was released.
THEOREM SignalsLive == Spec => []SignalOnLiveSyncer
<1>1. ASSUME IInv, filterPc = "handle", msg.kind = "rtc", ~stray
      PROVE  rtcSyncer # Nobody /\ refs[rtcSyncer] > 0
  <2>1. ClockInv /\ Taken /\ Held /\ TypeOK  BY <1>1 DEF IInv, Taken
  <2>2. /\ rtcLock \in Readers /\ rtcSyncer = rtcLock
        /\ readerPc[rtcLock] = "wait" /\ ~signalled[rtcLock]
    BY <2>1 DEF ClockInv, OwnerWaits, Held, TypeOK
  <2> QED  BY <2>1, <2>2, ActorsAssumption DEF ClockInv, BothReferences
<1>2. IInv => SignalOnLiveSyncer  BY <1>1 DEF SignalOnLiveSyncer
<1> QED  BY Invariance, <1>2, PTL

\* Without timeouts and interrupts for nothing, a call that is over has given up
\* both references of its syncer.
THEOREM CallsRelease ==
  ASSUME ~CanTimeout, ~Spurious
  PROVE  Spec => []SyncersReleased
<1>1. IInv => SyncersReleased
  BY DEF IInv, MessageForInterrupt, GivenUp, SyncersReleased
<1> QED  BY Invariance, <1>1, PTL

-----------------------------------------------------------------------------
(* No request and no press is lost                                         *)

\* A message stays in the FIFO until the filter takes it.
LEMMA QueuedStays ==
  ASSUME TypeOK, [Next]_vars, NEW i \in 1 .. Len(fifoIn)
  PROVE  \/ \E j \in 1 .. Len(fifoIn') : fifoIn'[j].kind = fifoIn[i].kind
         \/ FilterRead /\ msg'.kind = fifoIn[i].kind
<1>1. CASE UNCHANGED fifoIn  BY <1>1
<1>2. ASSUME NEW m \in Messages, fifoIn' = Append(fifoIn, m)
      PROVE  \E j \in 1 .. Len(fifoIn') : fifoIn'[j].kind = fifoIn[i].kind
  <2>1. i \in 1 .. Len(fifoIn') /\ fifoIn'[i] = fifoIn[i]
    BY <1>2, AppendProperties, LenProperties DEF TypeOK
  <2> QED  BY <2>1
<1>3. ASSUME NEW m \in AsyncMessages, Event(m)
      PROVE  \E j \in 1 .. Len(fifoIn') : fifoIn'[j].kind = fifoIn[i].kind
  BY <1>2, <1>3, MadeUp DEF Event
<1>4. CASE Process
  <2>1. CASE smcCmd = "rtc"
    <3>1. now + 1 \in Nat /\ fifoIn' = Append(fifoIn, Time(now + 1))
      BY <1>4, <2>1 DEF Process, TypeOK
    <3>2. Time(now + 1) \in Messages  BY <3>1, MadeUp
    <3> QED  BY <1>2, <3>1, <3>2
  <2>2. CASE smcCmd # "rtc"  BY <1>1, <1>4, <2>2 DEF Process
  <2> QED  BY <2>1, <2>2
<1>5. CASE FilterRead
  <2>1. fifoIn # <<>>
    BY EmptySeq DEF TypeOK
  <2>2. /\ msg' = fifoIn[1] /\ Len(fifoIn) \in Nat /\ Len(fifoIn') = Len(fifoIn) - 1
        /\ \A j \in 1 .. Len(fifoIn) - 1 : fifoIn'[j] = fifoIn[j + 1]
    BY <1>5, <2>1, TakeMessage DEF FilterRead, TypeOK
  <2>3. CASE i = 1  BY <1>5, <2>2, <2>3
  <2>4. CASE i # 1
    <3>1. i - 1 \in 1 .. Len(fifoIn') /\ fifoIn'[i - 1] = fifoIn[i]
      BY <2>2, <2>4
    <3> QED  BY <3>1
  <2> QED  BY <2>3, <2>4
<1>6. CASE FilterStep /\ ~FilterRead
  BY <1>1, <1>6 DEF FilterStep, Interrupt, FilterPower, FilterCancel, FilterTilt,
                    FilterTime, FilterOther, FilterAck, smcVars
<1>7. CASE SecondaryStep \/ ClientSend
  BY <1>1, <1>7 DEF SecondaryStep, SecondaryStart, SecondaryPower, SecondaryReboot,
                    SecondaryTilt, ClientSend, smcVars
<1>8. CASE \E r \in Readers : RtcCall(r) \/ ReaderStep(r)
  BY <1>1, <1>8 DEF RtcCall, ReaderStep, RtcLock, RtcSend, RtcFail, RtcReturn, smcVars
<1>9. CASE UNCHANGED vars  BY <1>1, <1>9 DEF vars, smcVars
<1> QED  BY <1>3, <1>4, <1>5, <1>6, <1>7, <1>8, <1>9 DEF Next

\* What the filter took it works on until it is done with it.
LEMMA TakenStays ==
  [Next]_vars /\ filterPc \in {"handle", "cancel"} =>
    UNCHANGED <<filterPc, msg>> \/ FilterStep
BY DEF Next, Event, Process, SecondaryStep, SecondaryStart, SecondaryPower,
       SecondaryReboot, SecondaryTilt, ClientSend, RtcCall, ReaderStep, RtcLock,
       RtcSend, RtcFail, RtcReturn, Scheduled, filterVars, vars

\* A command stays with the controller until it is processed.
LEMMA CommandStays ==
  [Next]_vars /\ smcCmd # "none" => smcCmd' = smcCmd \/ Process
BY DEF Next, Event, FilterStep, Interrupt, FilterRead, FilterPower, FilterCancel,
       FilterTilt, FilterTime, FilterOther, FilterAck, SecondaryStep, SecondaryStart,
       SecondaryPower, SecondaryReboot, SecondaryTilt, ClientSend, RtcCall, ReaderStep,
       RtcLock, RtcSend, RtcFail, RtcReturn, Send, SendTimeout, smcVars, vars

\* Who waits in getRTC and was not signalled has a request or its answer on the way.
RequestKept ==
  ~stray => \A r \in Readers :
              readerPc[r] = "wait" /\ ~signalled[r] => Sent \/ Queued \/ Taken

LEMMA RequestStep == IInv /\ IInv' /\ RequestKept /\ [Next]_vars => RequestKept'
<1> SUFFICES ASSUME IInv, IInv', RequestKept, [Next]_vars, ~stray',
                    NEW r \in Readers, readerPc'[r] = "wait", ~signalled'[r]
             PROVE  Sent' \/ Queued' \/ Taken'
  BY DEF RequestKept
<1>1. TypeOK /\ TypeOK' /\ Held /\ ~stray  BY NotStrayBefore DEF IInv
<1>2. CASE readerPc[r] # "wait"
  <2>1. PICK q \in Readers : RtcCall(q) \/ ReaderStep(q)
    BY <1>2, OthersStep DEF Next
  <2>2. RtcSend(q) /\ q = r
    BY <1>1, <1>2, <2>1 DEF RtcCall, ReaderStep, RtcLock, RtcSend, RtcFail, RtcReturn,
                            Goto, TypeOK
  <2>3. smcCmd' = "rtc"
    BY <1>1, <2>2 DEF RtcSend, Goto, Send, TypeOK
  <2> QED  BY <2>3 DEF Sent
<1>3. CASE readerPc[r] = "wait"
  <2>1. rtcLock = r /\ rtcSyncer = r
    BY <1>1, <1>3, ActorsAssumption DEF Held, InCall
  <2>2. CASE signalled[r]
    <3>1. CASE \E q \in Readers : RtcCall(q)
      BY <1>1, <1>3, <2>2, <3>1 DEF RtcCall, TypeOK
    <3>2. CASE FilterTime  BY <1>1, <2>2, <3>2 DEF FilterTime
    <3>3. CASE UNCHANGED signalled  BY <2>2, <3>3
    <3> QED
      BY <3>1, <3>2, <3>3
      DEF Next, Event, Process, FilterStep, Interrupt, FilterRead, FilterPower,
          FilterCancel, FilterTilt, FilterOther, FilterAck, SecondaryStep,
          SecondaryStart, SecondaryPower, SecondaryReboot, SecondaryTilt, ClientSend,
          ReaderStep, RtcLock, RtcSend, RtcFail, RtcReturn, rtcVars, vars
  <2>3. CASE ~signalled[r]
    <3>1. Sent \/ Queued \/ Taken  BY <1>1, <1>3, <2>3 DEF RequestKept
    <3>2. CASE Sent
      <4>1. CASE Process
        <5>1. now + 1 \in Nat /\ fifoIn' = Append(fifoIn, Time(now + 1))
          BY <1>1, <3>2, <4>1 DEF Sent, Process, TypeOK
        <5>2. Time(now + 1) \in Messages /\ Time(now + 1).kind = "rtc"
          BY <5>1, MadeUp
        <5>3. Len(fifoIn) + 1 \in 1 .. Len(fifoIn')
              /\ fifoIn'[Len(fifoIn) + 1] = Time(now + 1)
          BY <1>1, <5>1, <5>2, AppendProperties, LenProperties DEF TypeOK
        <5> QED  BY <5>2, <5>3 DEF Queued
      <4> QED  BY <3>2, <4>1, CommandStays DEF Sent
    <3>3. CASE Queued
      <4>1. PICK i \in 1 .. Len(fifoIn) : fifoIn[i].kind = "rtc"  BY <3>3 DEF Queued
      <4>2. CASE \E j \in 1 .. Len(fifoIn') : fifoIn'[j].kind = fifoIn[i].kind
        BY <4>1, <4>2 DEF Queued
      <4>3. CASE FilterRead /\ msg'.kind = fifoIn[i].kind
        BY <4>1, <4>3 DEF FilterRead, Taken
      <4> QED  BY <1>1, <4>2, <4>3, QueuedStays
    <3>4. CASE Taken
      <4>1. CASE FilterStep
        <5>1. FilterTime
          BY <3>4, <4>1 DEF Taken, FilterStep, Interrupt, FilterRead, FilterPower,
                            FilterCancel, FilterTilt, FilterOther, FilterAck
        <5>2. signalled' = [q \in Readers |-> signalled[q] \/ q = rtcSyncer]
          BY <5>1 DEF FilterTime
        <5>3. signalled'[r]  BY <2>1, <5>2, Zenon
        <5> QED  BY <5>3
      <4>2. CASE UNCHANGED <<filterPc, msg>>  BY <3>4, <4>2 DEF Taken
      <4> QED  BY <3>4, <4>1, <4>2, TakenStays DEF Taken
    <3> QED  BY <3>1, <3>2, <3>3, <3>4
  <2> QED  BY <2>2, <2>3
<1> QED  BY <1>2, <1>3

\* wait() has no timeout, and none is needed: as long as the filter made no message
\* up, a thread that waits has its request at the controller, or the answer in the
\* FIFO or in the filter's hands.
THEOREM RequestNeverLost == Spec => []RequestKept
<1>1. Init => RequestKept  BY DEF Init, RequestKept
<1> QED  BY Invariance, InitInv, <1>1, RequestStep, PTL DEF Spec

\* A press of the power button is on its way to the controller's ears: the message,
\* the filter that has it, or the command that cancels the power off.
PressKept ==
  powerOffPending =>
    \/ smcCmd = "cancel"
    \/ \E i \in 1 .. Len(fifoIn) : fifoIn[i].kind = "power"
    \/ filterPc \in {"handle", "cancel"} /\ msg.kind = "power"

LEMMA PressStep ==
  ASSUME ~CanTimeout, IInv, PressKept, [Next]_vars  PROVE PressKept'
<1>1. TypeOK /\ CancelsForPower  BY DEF IInv
<1>2. CASE powerOffPending
  <2>1. CASE smcCmd = "cancel"
    <3>1. CASE Process  BY <2>1, <3>1 DEF Process, PressKept
    <3> QED  BY <2>1, <3>1, CommandStays DEF PressKept
  <2>2. ASSUME NEW i \in 1 .. Len(fifoIn), fifoIn[i].kind = "power"  PROVE PressKept'
    <3>1. CASE \E j \in 1 .. Len(fifoIn') : fifoIn'[j].kind = fifoIn[i].kind
      BY <2>2, <3>1 DEF PressKept
    <3>2. CASE FilterRead /\ msg'.kind = fifoIn[i].kind
      BY <2>2, <3>2 DEF FilterRead, PressKept
    <3> QED  BY <1>1, <3>1, <3>2, QueuedStays
  <2>3. CASE filterPc \in {"handle", "cancel"} /\ msg.kind = "power"
    <3>1. CASE UNCHANGED <<filterPc, msg>>  BY <2>3, <3>1 DEF PressKept
    <3>2. CASE FilterStep
      <4>1. FilterPower \/ FilterCancel
        BY <2>3, <3>2 DEF FilterStep, Interrupt, FilterRead, FilterTilt, FilterTime,
                          FilterOther, FilterAck
      <4>2. CASE FilterPower  BY <2>3, <4>2 DEF FilterPower, PressKept
      <4>3. CASE FilterCancel
        BY <4>3 DEF FilterCancel, Send, SendTimeout, CancelPowerOff, PressKept
      <4> QED  BY <4>1, <4>2, <4>3
    <3> QED  BY <2>3, <3>1, <3>2, TakenStays
  <2> QED  BY <1>2, <2>1, <2>2, <2>3 DEF PressKept
<1>3. CASE ~powerOffPending
  <2>1. ASSUME NEW m \in AsyncMessages, Event(m)  PROVE PressKept'
    <3>1. CASE m = Async("power")
      <4>1. m \in Messages /\ m.kind = "power"  BY <3>1, MadeUp DEF Async
      <4>2. fifoIn' = Append(fifoIn, m)  BY <2>1 DEF Event
      <4>3. Len(fifoIn) + 1 \in 1 .. Len(fifoIn') /\ fifoIn'[Len(fifoIn) + 1] = m
        BY <1>1, <4>1, <4>2, AppendProperties, LenProperties DEF TypeOK
      <4> QED  BY <4>1, <4>3 DEF PressKept
    <3>2. CASE m # Async("power")
      <4>1. ~powerOffPending'  BY <1>3, <2>1, <3>2 DEF Event
      <4> QED  BY <4>1 DEF PressKept
    <3> QED  BY <3>1, <3>2
  <2>2. CASE Process
    <3>1. ~powerOffPending'  BY <1>3, <2>2 DEF Process
    <3> QED  BY <3>1 DEF PressKept
  <2>3. CASE UNCHANGED powerOffPending  BY <1>3, <2>3 DEF PressKept
  <2> QED
    BY <2>1, <2>2, <2>3
    DEF Next, FilterStep, Interrupt, FilterRead, FilterPower, FilterCancel, FilterTilt,
        FilterTime, FilterOther, FilterAck, SecondaryStep, SecondaryStart,
        SecondaryPower, SecondaryReboot, SecondaryTilt, ClientSend, RtcCall, ReaderStep,
        RtcLock, RtcSend, RtcFail, RtcReturn, smcVars, vars
<1> QED  BY <1>2, <1>3

\* As long as no command times out, a press is not lost between the FIFO, the filter
\* and the controller, not even when the filter acts on messages that nobody sent.
THEOREM PressNeverLost ==
  ASSUME ~CanTimeout
  PROVE  Spec => []PressKept
<1>1. Init => PressKept
  <2>1. ASSUME Init, powerOffPending
        PROVE  1 \in 1 .. Len(fifoIn) /\ fifoIn[1].kind = "power"
    <3>1. fifoIn = <<Async("power")>>  BY <2>1, Zenon DEF Init
    <3> QED  BY <3>1 DEF Async
  <2> QED  BY <2>1 DEF PressKept
<1>2. IInv /\ PressKept /\ [Next]_vars => PressKept'
  BY PressStep
<1> QED  BY Invariance, <1>1, <1>2, PTL DEF Spec

-----------------------------------------------------------------------------
(* Div64_32 is the quotient, cut to a word, as long as the divisor fits a  *)
(* half word: no step of the long division overflows then.                 *)

\* What \div and % are.
LEMMA Division ==
  ASSUME NEW a \in Nat, NEW d \in Nat \ {0}
  PROVE  /\ a \div d \in Nat /\ a % d \in Nat
         /\ a = d * (a \div d) + (a % d)
         /\ a % d < d
<1> DEFINE q == a \div d
           r == a % d
<1>1. q \in Nat /\ r \in Nat /\ r < d
  BY SMT
<1>2. a % d = a - d * (a \div d)
  BY Z3
<1>3. d * q \in Int
  BY <1>1, SMT
<1>4. r = a - d * q
  BY <1>2
<1> HIDE DEF q, r
<1>5. a = d * q + r
  BY <1>1, <1>3, <1>4, SMT
<1> QED  BY <1>1, <1>5, Zenon DEF q, r

\* A product of naturals is one, and a factor more does not make it smaller.
LEMMA Growing ==
  ASSUME NEW x \in Nat, NEW y \in Nat, NEW d \in Nat, x <= y
  PROVE  d * x \in Nat /\ d * y \in Nat /\ d * x <= d * y
<1>1. PICK k \in Nat : y = x + k
  BY SMT
<1>2. d * y = d * x + d * k /\ d * k \in Nat /\ d * x \in Nat
  BY <1>1, SMT
<1> QED  BY <1>2, SMT

\* There is one quotient and one remainder.
LEMMA Unique ==
  ASSUME NEW d \in Nat \ {0}, NEW q \in Nat, NEW r \in Nat, r < d,
         NEW p \in Nat, NEW s \in Nat, s < d,
         d * q + r = d * p + s
  PROVE  q = p /\ r = s
<1>1. CASE q < p
  <2>1. d * (q + 1) <= d * p
    BY <1>1, Growing, SMT
  <2>2. d * (q + 1) = d * q + d
    BY SMT
  <2>3. d * q \in Nat /\ d * p \in Nat
    BY Growing, SMT
  <2> QED  BY <2>1, <2>2, <2>3, SMT
<1>2. CASE p < q
  <2>1. d * (p + 1) <= d * q
    BY <1>2, Growing, SMT
  <2>2. d * (p + 1) = d * p + d
    BY SMT
  <2>3. d * q \in Nat /\ d * p \in Nat
    BY Growing, SMT
  <2> QED  BY <2>1, <2>2, <2>3, SMT
<1>3. CASE q = p
  <2>1. d * q \in Nat
    BY Growing, SMT
  <2> QED  BY <1>3, <2>1, SMT
<1> QED  BY <1>1, <1>2, <1>3, SMT

\* The quotient and the remainder of a number written as a multiple and a rest.
LEMMA Quotient ==
  ASSUME NEW d \in Nat \ {0}, NEW q \in Nat, NEW r \in Nat, r < d, NEW a \in Nat,
         a = d * q + r
  PROVE  a \div d = q /\ a % d = r
<1> DEFINE p == a \div d
           s == a % d
<1>1. p \in Nat /\ s \in Nat /\ a = d * p + s /\ s < d
  BY Division
<1> HIDE DEF p, s
<1>2. q = p /\ r = s
  BY <1>1, Unique
<1> QED  BY <1>2 DEF p, s

\* Shifting down twice is shifting down by two halves.
LEMMA Shift ==
  ASSUME NEW a \in Nat, NEW m \in Nat \ {0}, NEW B \in Nat \ {0}
  PROVE  m * B \in Nat \ {0} /\ a \div (m * B) = (a \div m) \div B
<1> DEFINE q == a \div m
           r == a % m
           p == q \div B
           s == q % B
<1>1. q \in Nat /\ r \in Nat /\ a = m * q + r /\ r < m
  BY Division
<1> HIDE DEF q, r
<1>2. p \in Nat /\ s \in Nat /\ q = B * p + s /\ s < B
  BY <1>1, Division
<1> HIDE DEF p, s
<1>3. m * q = (m * B) * p + m * s
  <2>1. m * q = m * (B * p + s)
    BY <1>2
  <2>2. m * (B * p + s) = m * (B * p) + m * s
    BY <1>2, SMT
  <2>3. m * (B * p) = (m * B) * p
    BY <1>2, SMT
  <2> QED  BY <2>1, <2>2, <2>3
<1>4. m * (s + 1) <= m * B /\ m * (s + 1) = m * s + m
  BY <1>2, Growing, SMT
<1>5. m * B \in Nat \ {0} /\ m * s \in Nat /\ (m * B) * p \in Nat
  BY <1>2, SMT
<1>6. m * s + r \in Nat /\ m * s + r < m * B
  BY <1>1, <1>4, <1>5, SMT
<1>7. a = (m * B) * p + (m * s + r)
  BY <1>1, <1>3, <1>5, SMT
<1>8. a \div (m * B) = p
  BY <1>2, <1>5, <1>6, <1>7, Quotient
<1> QED  BY <1>5, <1>8 DEF p, q

\* What a step of the long division of a number brings down.
Down(B, d, whole) == BringDown(B, whole % B, (whole \div B) % d)

\* BringDown: the half brought down beside the remainder gives the next half
\* of the quotient, and the remainder of the number down to that half.
LEMMA StepOf ==
  ASSUME NEW B \in Nat \ {0}, NEW d \in 1 .. B, NEW whole \in Nat
  PROVE  /\ Down(B, d, whole) \in Nat
         /\ whole \div d = ((whole \div B) \div d) * B + Down(B, d, whole) \div d
         /\ whole % d = Down(B, d, whole) % d
<1> DEFINE above == whole \div B
           half  == whole % B
           y     == Down(B, d, whole)
<1>a. above \in Nat /\ half \in Nat /\ half < B /\ whole = B * above + half
  BY Division
<1>b. y = BringDown(B, half, above % d)
  BY DEF Down
<1> HIDE DEF half, above, y
<1>c. whole = above * B + half
  BY <1>a, SMT
<1> DEFINE q == above \div d
           r == above % d
           z == half + r * B
<1>1. q \in Nat /\ r \in Nat /\ above = d * q + r /\ r < d /\ d \in Nat \ {0} /\ d <= B
  BY <1>a, Division
<1> HIDE DEF q, r
<1>2. z \in Nat /\ z < B * B
  <2>1. B * (r + 1) <= B * B
    BY <1>a, <1>1, Growing, SMT
  <2>2. B * (r + 1) = r * B + B /\ r * B \in Nat
    BY <1>a, <1>1, Growing, SMT
  <2> QED  BY <1>a, <1>1, <2>1, <2>2, SMT
<1>3. BringDown(B, half, r) = z
  <2>1. B * B \in Nat \ {0}
    BY <1>2, SMT
  <2> HIDE DEF z
  <2>2. z = (B * B) * 0 + z
    BY <1>2, <2>1, SMT
  <2>3. z % (B * B) = z
    BY <1>2, <2>1, <2>2, Quotient
  <2> QED  BY <2>3 DEF BringDown, z
<1> DEFINE p == z \div d
           s == z % d
<1>4. p \in Nat /\ s \in Nat /\ z = d * p + s /\ s < d
  BY <1>1, <1>2, Division
<1> HIDE DEF p, s
<1>5. above * B + half = d * (q * B + p) + s
  <2>1. above * B = (d * q + r) * B
    BY <1>a, <1>1
  <2>2. (d * q + r) * B = (d * q) * B + r * B
    BY <1>a, <1>1, SMT
  <2>3. (d * q) * B = d * (q * B)
    BY <1>a, <1>1, SMT
  <2>4. d * (q * B + p) = d * (q * B) + d * p
    BY <1>a, <1>1, <1>4, SMT
  <2>5. above * B \in Nat /\ r * B \in Nat /\ d * (q * B) \in Nat /\ d * p \in Nat /\ q * B \in Nat
    BY <1>a, <1>1, <1>4, SMT
  <2> DEFINE u == above * B  v == r * B  w == d * (q * B)  t == d * p
  <2>6. u = w + v /\ d * (q * B + p) = w + t /\ half + v = t + s
    BY <1>a, <1>4, <2>1, <2>2, <2>3, <2>4
  <2>7. u \in Nat /\ v \in Nat /\ w \in Nat /\ t \in Nat
    BY <2>5
  <2> HIDE DEF u, v, w, t
  <2>8. u + half = (w + t) + s
    BY <1>a, <1>4, <2>6, <2>7, SMT
  <2> QED  BY <2>6, <2>8 DEF u
<1>6. q * B + p \in Nat /\ above * B + half \in Nat
  BY <1>a, <1>1, <1>4, SMT
<1>7. (above * B + half) \div d = q * B + p /\ (above * B + half) % d = s
  <2> DEFINE n == above * B + half
             m == q * B + p
  <2>1. n \in Nat /\ m \in Nat /\ n = d * m + s
    BY <1>5, <1>6
  <2> HIDE DEF n, m
  <2>2. n \div d = m /\ n % d = s
    BY <1>1, <1>4, <2>1, Quotient
  <2> QED  BY <2>2 DEF n, m
<1>8. y = z
  BY <1>b, <1>3, Zenon DEF r
<1>9. /\ y \in Nat
      /\ whole \div d = (above \div d) * B + y \div d
      /\ whole % d = y % d
  BY <1>c, <1>2, <1>7, <1>8, Zenon DEF q, p, s
<1> QED  BY <1>9, Zenon DEF above, y

\* Div64_32: for a dividend of four halves and a divisor that fits one, the
\* result is the quotient, cut to two halves as the UInt32 it is returned in.
THEOREM QuotientCut ==
  ASSUME NEW B \in Nat \ {0}, NEW dividend \in Nat, NEW d \in 1 .. B
  PROVE  Div64_32(B, dividend, d) = (dividend \div d) % (B * B)
<1> DEFINE high == dividend \div (B * B * B)
           two  == dividend \div (B * B)
           one  == dividend \div B
           midHigh == Down(B, d, two)
           midLow  == Down(B, d, one)
           low     == Down(B, d, dividend)
<1>1. two \in Nat /\ one \in Nat /\ two = one \div B /\ high = two \div B
  <2>1. B * B \in Nat \ {0} /\ two = one \div B
    BY Shift
  <2>2. high = two \div B
    BY <2>1, Shift
  <2>3. two \in Nat /\ one \in Nat
    BY <2>1, Division
  <2> QED  BY <2>1, <2>2, <2>3
<1>2. /\ two \div d = (high \div d) * B + midHigh \div d
      /\ two % d = midHigh % d
  <2> HIDE DEF high, two, one
  <2>1. /\ two \div d = ((two \div B) \div d) * B + Down(B, d, two) \div d
        /\ two % d = Down(B, d, two) % d
    BY <1>1, StepOf, Zenon
  <2> QED  BY <1>1, <2>1, Zenon
<1>3. /\ one \div d = (two \div d) * B + midLow \div d
      /\ one % d = midLow % d
  <2> HIDE DEF high, two, one
  <2>1. /\ one \div d = ((one \div B) \div d) * B + Down(B, d, one) \div d
        /\ one % d = Down(B, d, one) % d
    BY <1>1, StepOf, Zenon
  <2> QED  BY <1>1, <2>1, Zenon
<1>4. dividend \div d = (one \div d) * B + low \div d
  BY StepOf, Zenon
<1>5. /\ midHigh = BringDown(B, two % B, high % d)
      /\ midLow = BringDown(B, one % B, midHigh % d)
      /\ low = BringDown(B, dividend % B, midLow % d)
  <2> HIDE DEF high, two
  <2>1. midHigh = BringDown(B, two % B, high % d)
    BY <1>1 DEF Down
  <2>2. midLow = BringDown(B, one % B, two % d)
    <3> HIDE DEF one, midHigh
    <3> QED  BY <1>1 DEF Down
  <2>3. low = BringDown(B, dividend % B, one % d)
    BY DEF Down
  <2> QED  BY <1>2, <1>3, <2>1, <2>2, <2>3, Zenon
<1> HIDE DEF midHigh, midLow, low
<1>6. Div64_32(B, dividend, d)
        = ((((high \div d) * B + midHigh \div d) * B + midLow \div d) * B + low \div d) % (B * B)
  BY <1>5, Zenon DEF Div64_32
<1> QED
  <2> HIDE DEF high, two, one
  <2> QED  BY <1>2, <1>3, <1>4, <1>6, Zenon
=============================================================================
