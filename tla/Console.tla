------------------------------- MODULE Console -------------------------------
(***************************************************************************)
(* The video console: XenonPE copies the framebuffer to the buffer the     *)
(* display shows, from a timer; XenosController takes over and lets the    *)
(* GPU draw it, with a frame of commands in its ring every 15 ms.          *)
(*                                                                         *)
(* XenonPE::start, XenosController::start, the two timers' handlers, the   *)
(* GPU and the writer of the framebuffer run concurrently.                 *)
(***************************************************************************)
EXTENDS Integers, Sequences, FiniteSets

CONSTANTS
  RingLength,     \* kXenosRingbufferLength, in words
  Backlog,        \* bound: words the GPU has left to read when the timer goes off
  Width, Height,  \* the display
  FbWords         \* kXenosFramebufferLength, in words

ASSUME RingAssumption    == RingLength \in Nat \ {0} /\ Backlog \in Nat
ASSUME DisplayAssumption == Width \in Nat /\ Height \in Nat /\ Width % 32 = 0
ASSUME BufferAssumption  == FbWords \in Nat

VARIABLES
  pe,                            \* where XenonPE::start is
  surface, spoiled,              \* the surface register; pixels mapGPU garbles
  peEnabled, peArmed, peHandler, \* _gpuTimerEventSource and its handler
  stopped,                       \* the last call was PlatformStopFB
  xc,                            \* where XenosController::start is
  gpuAddr, fbAddr,               \* its _gpuPhysAddr and _fbPhysAddr
  ring, memory,                  \* ring words, as written and as the GPU reads them
  writePtr,                      \* _ringBufferWritePtr
  xcArmed, xcHandler,            \* _timerEventSource and its handler
  firmware,                      \* the command processor runs its firmware
  regPtr, readPtr, mode, lost,   \* GPU: write and read pointer, RB_MODECONTROL,
                                 \* and that it read no command where one starts
  stale, old                     \* parts of the picture that the display and the
                                 \* GPU's own buffer do not show yet

peVars   == <<pe, surface, spoiled>>
timer    == <<peEnabled, peArmed, peHandler, stopped>>
xcVars   == <<gpuAddr, fbAddr, firmware>>
ringVars == <<ring, memory, writePtr>>
xcTimer  == <<xcArmed, xcHandler>>
gpuVars  == <<regPtr, readPtr, mode, lost>>
picture  == <<stale, old>>
vars == <<peVars, timer, xc, xcVars, ringVars, xcTimer, gpuVars, picture>>

Regions == 1 .. 2
Slots   == 0 .. RingLength - 1
Pixels  == (0 .. Width - 1) \X (0 .. Height - 1)

\* Addresses, in units of kXenosFramebufferLength.
LoaderSurface == 1     \* what the display showed before
BufferAfter(addr) == addr + 1
BufferBefore(addr) == addr - 1

\* A word of the ring: a command and the number of words it says follow it, or
\* one of those words.
Body == <<"body", 0>>
Words == {"body", "set", "depth", "strip", "copy", "rect"} \X Nat

TypeOK ==
  /\ pe \in {"map", "start", "patch", "up", "failed", "unmapped"}
  /\ surface \in 1 .. 2 /\ spoiled \subseteq Pixels
  /\ peEnabled \in BOOLEAN /\ peArmed \in BOOLEAN
  /\ peHandler \in {"none", "gate", "first", "second", "rearm"}
  /\ stopped \in BOOLEAN
  /\ xc \in {"off", "shaders", "hardware", "sync", "kick", "framebuffer", "timer",
             "stop", "cancel", "arm", "running", "failed", "wild"}
  /\ gpuAddr \in 0 .. 2 /\ fbAddr \in 0 .. 1
  /\ ring \in [Slots -> Words] /\ memory \in [Slots -> Words]
  /\ writePtr \in Slots /\ regPtr \in Slots /\ readPtr \in Slots
  /\ xcArmed \in BOOLEAN /\ xcHandler \in {"none", "sync", "kick"}
  /\ mode \in {"none", "depth", "copy"}
  /\ {firmware, lost} \subseteq BOOLEAN
  /\ stale \subseteq Regions /\ old \subseteq Regions

Init ==
  /\ pe = "map" /\ surface = LoaderSurface /\ spoiled = {}
  /\ peEnabled = FALSE /\ peArmed = FALSE /\ peHandler = "none" /\ stopped = FALSE
  /\ xc = "off" /\ gpuAddr = 0 /\ fbAddr = 0
  /\ ring = [i \in Slots |-> Body] /\ memory = ring /\ writePtr = 0
  /\ xcArmed = FALSE /\ xcHandler = "none"
  /\ firmware = FALSE
  /\ regPtr = 0 /\ readPtr = 0 /\ mode = "none" /\ lost = FALSE
  /\ stale = {} /\ old = Regions

-----------------------------------------------------------------------------
(* XenonPE                                                                 *)

\* Mutant: only half of a tile's rows are told apart.
TileShort(x, y) ==
  (y \div 32) * 32 * Width + (x \div 32) * 1024
    + (x % 4) + 4 * (y % 2) + 8 * ((x % 32) \div 4) + 64 * ((y % 16) \div 2)

\* Where the GPU keeps a pixel, before the last step: bit 5 is flipped for the
\* rows with bit 3 set.
Tile(x, y) ==
  (y \div 32) * 32 * Width + (x \div 32) * 1024
    + (x % 4) + 4 * (y % 2) + 8 * ((x % 32) \div 4) + 64 * ((y % 32) \div 2)

Flip(i) == IF (i \div 32) % 2 = 1 THEN i - 32 ELSE i + 32

Index(x, y) == IF (y \div 8) % 2 = 1 THEN Flip(Tile(x, y)) ELSE Tile(x, y)

\* prepGraphicsFramebuffer takes every pixel of the loader's picture out of its
\* tile, and refreshFramebuffer puts it back: what is shared or outside is lost.
Garbled ==
  LET used == {Index(p[1], p[2]) : p \in Pixels}
  IN IF Cardinality(used) = Cardinality(Pixels) /\ \A i \in used : i < FbWords
     THEN {} ELSE Pixels

\* Mutant: the display is left on the buffer it showed.
SurfaceKept(addr) == addr
\* The buffer behind the framebuffer, which the display shows from now on.
SurfaceSwitched(addr) == BufferAfter(addr)

MapGPU ==
  /\ pe = "map"
  /\ \/ /\ pe' = "unmapped"
        /\ UNCHANGED <<surface, spoiled, timer, picture>>
     \/ /\ pe' = "start"
        /\ peEnabled' = TRUE
        /\ spoiled' = Garbled
        /\ stale' = {} /\ UNCHANGED old
        /\ surface' = SurfaceSwitched(surface)
        /\ UNCHANGED <<peArmed, peHandler, stopped>>
  /\ UNCHANGED <<xc, xcVars, ringVars, xcTimer, gpuVars>>

\* setTimeoutMS(20), enable.
StartFramebuffer ==
  /\ peArmed' = TRUE /\ peEnabled' = TRUE
  /\ stopped' = FALSE
  /\ UNCHANGED peHandler

PEStartFramebuffer ==
  /\ pe = "start" /\ pe' = "patch"
  /\ StartFramebuffer
  /\ UNCHANGED <<surface, spoiled, xc, xcVars, ringVars, xcTimer, gpuVars, picture>>

\* The rest of start: a failure shows the log once more; the timer goes on.
PEFinish ==
  /\ pe = "patch"
  /\ \/ pe' = "up" /\ UNCHANGED picture
     \/ pe' = "failed" /\ stale' = {} /\ UNCHANGED old
  /\ UNCHANGED <<surface, spoiled, timer, xc, xcVars, ringVars, xcTimer, gpuVars>>

\* PlatformStartFB, from outside: no driver here calls it.
CallStartFB ==
  /\ pe = "up" /\ stopped
  /\ StartFramebuffer
  /\ UNCHANGED <<peVars, xc, xcVars, ringVars, xcTimer, gpuVars, picture>>

\* The timer goes off: IOTimerEventSource looks whether it is enabled, then
\* waits for the gate.
PEExpire ==
  /\ peHandler = "none"
  /\ peEnabled /\ peArmed
  /\ peArmed' = FALSE /\ peHandler' = "gate"
  /\ UNCHANGED <<peVars, peEnabled, stopped, xc, xcVars, ringVars, xcTimer, gpuVars,
                 picture>>

\* refreshFramebuffer, in two parts.
RefreshFramebuffer ==
  /\ \/ peHandler = "gate" /\ peHandler' = "first" /\ UNCHANGED stale
     \/ peHandler = "first" /\ stale' = stale \ {1} /\ peHandler' = "second"
     \/ peHandler = "second" /\ stale' = stale \ {2} /\ peHandler' = "rearm"
  /\ UNCHANGED <<peVars, peEnabled, peArmed, stopped, xc, xcVars, ringVars, xcTimer,
                 gpuVars, old>>

\* Mutant: the timer is not set again.
PERearmForgotten == peArmed
\* setTimeoutMS(500): the time is kept while the timer is disabled.
PERearm == TRUE

HandleFramebufferTimer ==
  /\ peHandler = "rearm" /\ peHandler' = "none"
  /\ peArmed' = PERearm
  /\ UNCHANGED <<peVars, peEnabled, stopped, xc, xcVars, ringVars, xcTimer, gpuVars,
                 picture>>

-----------------------------------------------------------------------------
(* The ring                                                                *)

\* A command that says n words follow it, and the w words written after it.
P(op, n, w) == <<<<op, n>>>> \o [i \in 1 .. w |-> Body]

Set(n) == P("set", n, n)

\* Mutant: the header counts the words less two.
InitMEShort == P("set", 17, 18)
\* 0xc0114800, and the words that follow.
InitME == P("set", 18, 18)

\* The lengths the headers of initFramebuffer give.
InitState ==
  Set(1) \o Set(1) \o Set(2) \o Set(2) \o Set(3) \o Set(2) \o Set(2) \o Set(2) \o Set(2)
    \o Set(2) \o Set(2) \o Set(2) \o Set(5) \o Set(2) \o Set(2) \o Set(5) \o Set(2) \o Set(2)

InitTargets ==
  Set(3) \o Set(3) \o Set(2) \o Set(2) \o Set(2) \o Set(2) \o Set(4) \o Set(1) \o Set(2)
    \o Set(2) \o Set(3) \o Set(4) \o Set(7) \o Set(7) \o Set(5)

\* The two shaders: two words before 21, and before 12, words of code.
InitPrograms == P("set", 2 + 21, 2 + 7 * 3) \o Set(2) \o P("set", 2 + 12, 2 + 4 * 3)

\* A frame: the picture as a strip of triangles, and its copy to the display.
Frame == P("depth", 2, 2) \o P("strip", 2, 2) \o P("copy", 2, 2) \o P("rect", 2, 2)

\* The ring holds all that is written before the GPU is told of any of it, and
\* all it has left to read when the next frame is written.
RingHolds ==
  LET written == Len(InitState \o InitTargets \o InitPrograms) + Len(Frame)
  IN Len(InitME) + written < RingLength /\ Backlog + written < RingLength
ASSUME RoomAssumption == RingHolds

Wrap(p) == p % RingLength

\* How many words after the one at p that at q is.
Distance(p, q) == (q - p) % RingLength

\* writeRing, word by word: never more words than the ring has.
WriteRing(words) ==
  /\ ring' = [i \in Slots |-> IF Distance(writePtr, i) < Len(words)
                              THEN words[Distance(writePtr, i) + 1] ELSE ring[i]]
  /\ writePtr' = Wrap(writePtr + Len(words))
  /\ UNCHANGED memory

\* syncData over the whole ring.
SyncData ==
  /\ memory' = ring
  /\ UNCHANGED <<ring, writePtr>>

Unread == Distance(readPtr, regPtr)

-----------------------------------------------------------------------------
(* XenosController                                                         *)

\* The addresses are taken from the surface that the platform expert chose.
MapRegisters ==
  /\ xc = "off" /\ pe = "up"
  /\ \/ xc' = "failed" /\ UNCHANGED <<gpuAddr, fbAddr>>
     \/ xc' = "shaders" /\ gpuAddr' = surface /\ fbAddr' = BufferBefore(surface)
  /\ UNCHANGED <<peVars, timer, firmware, ringVars, xcTimer, gpuVars, picture>>

InitShaders ==
  /\ xc = "shaders"
  /\ xc' \in {"hardware", "failed"}
  /\ UNCHANGED <<peVars, timer, xcVars, ringVars, xcTimer, gpuVars, picture>>

\* loadFirmware: only the second of the two microcodes is read back and compared.
LoadFirmware == BOOLEAN

\* What loadFirmware and initHardware return is not looked at: without memory
\* for the ring, initFramebuffer writes through a null pointer.
InitHardware ==
  /\ xc = "hardware"
  /\ \/ xc' = "wild" /\ UNCHANGED <<firmware, ringVars, gpuVars>>
     \/ /\ xc' = "sync"
        /\ firmware' \in LoadFirmware
        /\ regPtr' = 0 /\ readPtr' = 0 /\ UNCHANGED <<mode, lost>>
        /\ WriteRing(InitME)
  /\ UNCHANGED <<peVars, timer, gpuAddr, fbAddr, xcTimer, picture>>

\* syncRingBuffer: the words, then the write pointer.
SyncHardware ==
  /\ xc = "sync" /\ xc' = "kick"
  /\ SyncData
  /\ UNCHANGED <<peVars, timer, xcVars, xcTimer, gpuVars, picture>>

KickHardware ==
  /\ xc = "kick" /\ xc' = "framebuffer"
  /\ regPtr' = writePtr
  /\ UNCHANGED <<peVars, timer, xcVars, ringVars, xcTimer, readPtr, mode, lost, picture>>

\* The GPU is told of these words with the first frame.
InitFramebuffer ==
  /\ xc = "framebuffer" /\ xc' = "timer"
  /\ WriteRing(InitState \o InitTargets \o InitPrograms)
  /\ UNCHANGED <<peVars, timer, xcVars, xcTimer, gpuVars, picture>>

InitTimer ==
  /\ xc = "timer"
  /\ xc' \in {"stop", "failed"}
  /\ UNCHANGED <<peVars, timer, xcVars, ringVars, xcTimer, gpuVars, picture>>

\* Mutant: stopFramebuffer only cancels the time that is set.
DisableForgotten == peEnabled
Disabled == FALSE

\* PlatformStopFB: stopFramebuffer disables the timer ...
StopFramebuffer ==
  /\ xc = "stop" /\ xc' = "cancel"
  /\ peEnabled' = Disabled
  /\ UNCHANGED <<peVars, peArmed, peHandler, stopped, xcVars, ringVars, xcTimer, gpuVars,
                 picture>>

\* ... and cancels the time that is set.
CancelFramebuffer ==
  /\ xc = "cancel" /\ xc' = "arm"
  /\ peArmed' = FALSE /\ stopped' = TRUE
  /\ UNCHANGED <<peVars, peEnabled, peHandler, xcVars, ringVars, xcTimer, gpuVars, picture>>

ArmTimer ==
  /\ xc = "arm" /\ xc' = "running"
  /\ xcArmed' = TRUE
  /\ UNCHANGED <<peVars, timer, xcVars, ringVars, xcHandler, gpuVars, picture>>

\* handleTimer.  The GPU is taken to be done with all but Backlog words by then.
HandleTimer ==
  /\ xcArmed /\ (firmware => Unread <= Backlog)
  /\ xcArmed' = FALSE /\ xcHandler' = "sync"
  /\ WriteRing(Frame)
  /\ UNCHANGED <<peVars, timer, xc, xcVars, gpuVars, picture>>

SyncTimer ==
  /\ xcHandler = "sync" /\ xcHandler' = "kick"
  /\ SyncData
  /\ UNCHANGED <<peVars, timer, xc, xcVars, xcArmed, gpuVars, picture>>

\* The write pointer, and setTimeoutMS(15).
KickTimer ==
  /\ xcHandler = "kick" /\ xcHandler' = "none"
  /\ regPtr' = writePtr
  /\ xcArmed' = TRUE
  /\ UNCHANGED <<peVars, timer, xc, xcVars, ringVars, readPtr, mode, lost, picture>>

-----------------------------------------------------------------------------
(* The GPU, and who draws into the framebuffer                             *)

GpuStep ==
  LET op == memory[readPtr][1]
      n  == memory[readPtr][2]
  IN
  /\ firmware /\ ~lost /\ readPtr # regPtr
  /\ IF op = "body" \/ Unread < n + 1
     THEN /\ lost' = TRUE
          /\ UNCHANGED <<readPtr, mode, picture>>
     ELSE /\ readPtr' = Wrap(readPtr + n + 1)
          /\ mode'  = IF op \in {"depth", "copy"} THEN op ELSE mode
          /\ old'   = IF op = "strip" /\ mode = "depth" THEN {} ELSE old
          /\ stale' = IF op = "rect" /\ mode = "copy" THEN old ELSE stale
          /\ UNCHANGED lost
  /\ UNCHANGED <<peVars, timer, xc, xcVars, ringVars, xcTimer, regPtr>>

\* A part is drawn again only once it was shown: the last drawing is what counts.
Draw ==
  /\ pe \notin {"map", "unmapped"}
  /\ \E r \in Regions \ stale : stale' = stale \cup {r} /\ old' = old \cup {r}
  /\ UNCHANGED <<peVars, timer, xc, xcVars, ringVars, xcTimer, gpuVars>>

-----------------------------------------------------------------------------
PETimer == PEExpire \/ RefreshFramebuffer \/ HandleFramebufferTimer
XCTimer == HandleTimer \/ SyncTimer \/ KickTimer
XCStart ==
  \/ MapRegisters \/ InitShaders \/ InitHardware \/ SyncHardware \/ KickHardware
  \/ InitFramebuffer \/ InitTimer \/ StopFramebuffer \/ CancelFramebuffer \/ ArmTimer

Next ==
  \/ MapGPU \/ PEStartFramebuffer \/ PEFinish \/ CallStartFB
  \/ PETimer
  \/ XCStart
  \/ XCTimer
  \/ GpuStep
  \/ Draw

Spec == Init /\ [][Next]_vars

\* Timers go off and are served, start goes on once begun, the GPU reads.
LiveSpec ==
  /\ Spec
  /\ WF_vars(PEStartFramebuffer) /\ WF_vars(PETimer)
  /\ WF_vars(XCStart)
  /\ WF_vars(XCTimer)
  /\ WF_vars(GpuStep)

-----------------------------------------------------------------------------
(* Properties                                                              *)

\* The GPU finds a command wherever it looks for one, all the words of which it
\* can read: the lengths in the headers are the lengths written, the ring wraps
\* for both at the same word, and the words are in memory before the pointer.
GpuInStep == ~lost

\* mapGPU keeps the picture: prepGraphicsFramebuffer and refreshFramebuffer find
\* each pixel of a display of any number of rows at a place of its own.
ImageKept == spoiled = {}

\* The controller draws from the buffer that the console is drawn in, to the one
\* the display shows.
BuffersAgree ==
  xc \notin {"off", "failed"} => fbAddr = LoaderSurface /\ gpuAddr = surface

\* Once stopFramebuffer is through, the platform expert's timer stays quiet,
\* though its handler may be running meanwhile and sets it again.
StopHolds == stopped => ~(peEnabled /\ peArmed)

\* What is drawn on the console gets on the display, also while the controller
\* takes over and wherever its start fails, unless the GPU runs no firmware.
ScreenRefreshed ==
  \A r \in Regions : r \in stale ~> r \notin stale \/ (stopped /\ ~firmware)
=============================================================================
