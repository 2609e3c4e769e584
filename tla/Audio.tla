-------------------------------- MODULE Audio --------------------------------
(***************************************************************************)
(* The output ring of XenonAudioDevice: the timer that follows the         *)
(* device's read pointer, moves its write pointer and takes the time       *)
(* stamps, the start and the stop of the engine, and the clip routine.     *)
(*                                                                         *)
(* start, stop and the timer's action run on the workloop's gate.  The     *)
(* device plays at the same time, and the timer may be late by any amount. *)
(* IOTimerEventSource looks whether it is enabled before it waits for the  *)
(* gate, and a time that is set while it is disabled counts from enable(). *)
(***************************************************************************)
EXTENDS Integers

CONSTANTS
  Part,      \* kXenonAudioDescCount / 8, the descriptors of one refill
  MaxFrame   \* bound: first frame and number of frames given to the clip routine

ASSUME PartAssumption  == Part \in Nat \ {0}
ASSUME FrameAssumption == MaxFrame \in Nat

MinVolume == 0
MaxVolume == 99

\* The entries that createVolumeLogTable fills, one for each volume.  The factors
\* that they hold are left out.
LogTable == 0 .. 99

Descs    == 8 * Part     \* kXenonAudioDescCount
Channels == 2            \* kXenonAudioNumChannels

VARIABLES
  readPtr, writePtr,  \* the device: the two fields of kXenonAudioRegState
  running,            \* the device: kXenonAudioRegControlRun
  owed,               \* laps of the device less loop time stamps taken
  enabled, armed,     \* the timer: enabled, and a time is set
  handler, reg,       \* handleTimer and the read pointer it read
  last,               \* _lastReadPtr
  muted, volume,      \* _currentMute, _currentVolume
  astray, adjustment  \* the last clip call: samples it wrote outside its range or
                      \* left out, and the entry of the table it used

deviceVars == <<readPtr, writePtr, running>>
timerVars  == <<enabled, armed, handler, reg, last>>
clipVars   == <<muted, volume, astray, adjustment>>
vars == <<deviceVars, owed, timerVars, clipVars>>

Ptr == 0 .. Descs - 1

\* readPtr % (kXenonAudioDescCount / 8) = 0, for a pointer into the ring.
Boundary == {0, Part, 2 * Part, 3 * Part, 4 * Part, 5 * Part, 6 * Part, 7 * Part}

TypeOK ==
  /\ readPtr \in Ptr /\ writePtr \in Boundary
  /\ running \in BOOLEAN
  /\ owed \in Int
  /\ enabled \in BOOLEAN /\ armed \in BOOLEAN
  /\ handler \in {"none", "gate", "write"}
  /\ reg \in Ptr /\ last \in Ptr
  /\ muted \in BOOLEAN /\ volume \in MinVolume .. MaxVolume

\* setupSampleDescriptors resets the device before any engine exists.
Init ==
  /\ readPtr = 0 /\ writePtr = 0 /\ running = FALSE
  /\ owed = 0
  /\ enabled = TRUE /\ armed = FALSE
  /\ handler = "none" /\ reg = 0 /\ last = 0
  /\ muted = FALSE /\ volume = MaxVolume
  /\ astray = {} /\ adjustment = 0

-----------------------------------------------------------------------------
\* The device plays the next descriptor, up to the write pointer.
Advance ==
  /\ running /\ readPtr # writePtr
  /\ readPtr' = IF readPtr = Descs - 1 THEN 0 ELSE readPtr + 1
  /\ owed' = IF readPtr' = 0 THEN owed + 1 ELSE owed
  /\ UNCHANGED <<writePtr, running, timerVars, clipVars>>

-----------------------------------------------------------------------------
(* The play position                                                       *)

SampleBufferLength == 65536
BytesPerFrame      == 2 * Channels

\* kXenonAudioRegControl as setupSampleDescriptors leaves it, 0x1C08001C, with
\* kXenonAudioRegControlRun while the engine runs.
Control == 28 * 2 ^ 24 + 8 * 2 ^ 16 + 28 + (IF running THEN 2 ^ 24 ELSE 0)

\* Mutant: the descriptor's length is added to its end.
PastEnd(share, length) == share + length
\* How far the descriptor is played, from what is left of it.
Played(share, length) == share - length

\* The read pointer and the length are taken from Control.
GetAudioPosition ==
  LET share == SampleBufferLength \div Descs
  IN (Control % 32) * share + Played(share, Control \div 2 ^ 16)

GetCurrentSampleFrame == GetAudioPosition \div BytesPerFrame

-----------------------------------------------------------------------------
GateFree == handler # "write"

\* performAudioEngineStart, startAudio.
StartAudio ==
  /\ ~running /\ GateFree
  /\ running' = TRUE
  /\ enabled' = TRUE /\ armed' = TRUE
  /\ UNCHANGED <<readPtr, writePtr, owed, handler, reg, last, clipVars>>

\* performAudioEngineStop, stopAudio.
StopAudio ==
  /\ running /\ GateFree
  /\ enabled' = FALSE /\ armed' = FALSE
  /\ running' = FALSE
  /\ UNCHANGED <<readPtr, writePtr, owed, handler, reg, last, clipVars>>

\* The timer goes off, and its thread waits for the gate.
Expire ==
  /\ handler = "none"
  /\ enabled /\ armed
  /\ armed' = FALSE
  /\ handler' = "gate"
  /\ UNCHANGED <<deviceVars, owed, enabled, reg, last, clipVars>>

\* handleTimer: the read pointer, and the time stamp of a lap.
HandleTimerRead ==
  /\ handler = "gate"
  /\ owed' = IF readPtr = 0 /\ last # 0 THEN owed - 1 ELSE owed
  /\ reg' = readPtr /\ last' = readPtr
  /\ handler' = "write"
  /\ UNCHANGED <<deviceVars, enabled, armed, clipVars>>

\* Mutant: two parts are refilled at a time.
RefillTwice(p) == (p + 2 * Part) % Descs
Refill(p) == IF p = 7 * Part THEN 0 ELSE p + Part

\* Mutant: the timer is set again only with a refill.
RearmAtBoundary == reg \in Boundary
Rearm == TRUE

\* handleTimer: the write pointer, and the next time.
HandleTimerWrite ==
  /\ handler = "write"
  /\ writePtr' = IF reg \in Boundary THEN Refill(reg) ELSE writePtr
  /\ armed' = Rearm
  /\ handler' = "none"
  /\ UNCHANGED <<readPtr, running, owed, enabled, reg, last, clipVars>>

-----------------------------------------------------------------------------
(* clipOutputSamples                                                       *)

\* Mutant: the first sample is written before the pointer moves.
BeforeFirstLate(first) == first * Channels
\* Both pointers stand one before the first sample.
BeforeFirst(first) == first * Channels - 1

\* Four samples at a time, then what is left, each after a step of the pointer.
Converted(first, n) ==
  {BeforeFirst(first) + i : i \in 1 .. 4 * (n \div 4)}
    \cup {BeforeFirst(first) + 4 * (n \div 4) + i : i \in 1 .. n % 4}

\* bzero at the pointer.
Cleared(first, n) == {BeforeFirst(first) + i : i \in 0 .. n - 1}

Asked(first, n) == first * Channels .. first * Channels + n - 1
Apart(S, T)     == (S \ T) \cup (T \ S)

\* What lies behind the table.
Wild == -1

\* A sample, in units of half the least bit of 16: brought into the range, then cut
\* towards zero.
ClipFloatValue(x) == IF x > 65534 THEN 65534 ELSE IF x < -65536 THEN -65536 ELSE x
ConvertFloatToSInt16(x) == IF x >= 0 THEN x \div 2 ELSE -((-x) \div 2)
OutSample(x) == ConvertFloatToSInt16(ClipFloatValue(x))

ClipOutputSamples(first, frames) ==
  LET n == frames * Channels IN
  /\ astray' = Apart(IF muted THEN Cleared(first, n) ELSE Converted(first, n),
                     Asked(first, n))
  /\ adjustment' = IF muted THEN 0
                    ELSE IF volume \in LogTable THEN volume ELSE Wild
  /\ UNCHANGED <<deviceVars, owed, timerVars, muted, volume>>

\* The record of the last call goes with the settings it was made under.
HandleMuteChange ==
  /\ muted' = ~muted
  /\ astray' = {} /\ adjustment' = 0
  /\ UNCHANGED <<deviceVars, owed, timerVars, volume>>

\* Mutant: a value above the range is taken as it is.
ClampedBelow(value) == IF value < MinVolume THEN MinVolume ELSE value
Clamped(value) ==
  IF value > MaxVolume THEN MaxVolume ELSE IF value < MinVolume THEN MinVolume ELSE value

HandleVolumeChange(newValue) ==
  /\ volume' = Clamped(newValue)
  /\ astray' = {} /\ adjustment' = 0
  /\ UNCHANGED <<deviceVars, owed, timerVars, muted>>

-----------------------------------------------------------------------------
Next ==
  \/ Advance
  \/ StartAudio
  \/ StopAudio
  \/ Expire
  \/ HandleTimerRead
  \/ HandleTimerWrite
  \/ \E first, frames \in 0 .. MaxFrame : ClipOutputSamples(first, frames)
  \/ HandleMuteChange
  \/ \E value \in {MinVolume - 1, MaxVolume, MaxVolume + 1} : HandleVolumeChange(value)

Spec == Init /\ [][Next]_vars

\* The device plays, and the timer goes off and is served sometime.
LiveSpec ==
  /\ Spec
  /\ WF_vars(Advance)
  /\ WF_vars(Expire)
  /\ WF_vars(HandleTimerRead) /\ WF_vars(HandleTimerWrite)

-----------------------------------------------------------------------------
(* Properties                                                              *)

\* Every lap of the device gets exactly one loop time stamp, and gets it before
\* the device plays on, however late the timer is and whenever the engine is
\* stopped and started: the write pointer holds the device at the start of the
\* buffer until handleTimer has been there.
OneStampPerLap == owed = (IF readPtr = 0 /\ last # 0 THEN 1 ELSE 0)

\* Round the ring, the write pointer is never more than one part ahead of the
\* device, which stops at it: a device that had passed it would find the rest of a
\* lap ahead of it, and play samples that the timer has not granted.
HeldToGrant ==
  LET ahead == IF writePtr >= readPtr THEN writePtr - readPtr
                                      ELSE writePtr + Descs - readPtr
  IN ahead <= Part

\* Unmuted, the clip routine writes each sample of its range and no other, for
\* every number of samples, multiples of four or not, and scales them by an entry
\* that the table has, whatever volumes it was told.
ClipExact == ~muted => astray = {} /\ adjustment # Wild

\* The frame that the audio family believes is playing lies in the buffer: it
\* goes as far as that to move its erase head.  (It is not the frame that plays:
\* the position is taken from the control register.)
FrameInBuffer == GetCurrentSampleFrame \in 0 .. SampleBufferLength \div BytesPerFrame - 1

\* An engine that is not stopped goes round the buffer again and again.
KeepsPlaying == <>[]running => []<>(readPtr = Part)
=============================================================================
