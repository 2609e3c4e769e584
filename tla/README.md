# A TLA+ model of the osx360 drivers

This directory models the drivers that let Mac OS X 10.4 run on an Xbox 360
(`src/`: kernel extensions in C++ on IOKit). The code has no tests, runs in the
kernel and against hardware that is documented only by its register headers; what
goes wrong in it goes wrong between an interrupt, a workloop and a device. That is
what the modules are about.

    tlc -workers 2 -config MCTxRing_ring.cfg MCTxRing     model-check one run
    tlapm TxRing_proofs.tla                               check the proofs

`PROJECT.json` lists the components, the runs, the source lines every definition
models, the mutants that show each property can fail, the hazards and the theorems.

## The system

All kernel extensions run on one processor: `XenonCPU` registers the boot CPU only
(`startCPU` is a TODO). Within it code runs in three contexts: the primary interrupt
context (`XenonInterruptController::handleInterrupt` and interrupt filters), workloop
threads (event source actions, gated output queues), and other kernel threads. The
devices run at the same time as all of them.

| Component | State | Operations | Interacts with | Correct when |
|---|---|---|---|---|
| **Ethernet transmit ring** `XenonEthernet_TransmitReceive.cpp` | 256 descriptors shared with the controller, `_txDescStates`, read and write index | `outputPacket`/`sendTxPacket`, `handleTxInterrupt` | output queue (stall, service), controller (Owner flags, Poll bit, interrupt status) | every mbuf is freed once and only after it was sent; the controller never sees a half built packet; no completion, stall or doorbell is lost |
| **Ethernet receive ring** same file | 256 descriptors, `_rxPackets`, `_rxIndex` | `initTransmitReceiveBuffers`, `handleRxInterrupt` | network stack (`inputPacket`), allocator, controller | DMA only into mbufs the ring holds; frames delivered once, in order; the ring stays closed |
| **Ethernet life cycle and PHY** `XenonEthernet.cpp`, `_HW.cpp`, `_PHY.cpp` | `_isEnabled`, the provider's open state, one PHY access register | `start`, `enable`, `disable`, `initHardware`, `phyProbe`, `phyUpdateLinkStatus` | network interface, both rings | the interface can be taken down and up; the link reported is the link there is |
| **SMC** `XenonSMC*.cpp` | message FIFO registers, `_lock`, `_rtcLock`, `_rtcSyncer`, `_rtcValue`, the two flags for the workloop | `writeMessage`, `readMessage`, `filterInterrupt`, `handleInterrupt`, `getRTC`, LED/tray/mute/reboot commands | every driver that sends a command, the platform expert (time, reboot) | the filter never waits for the thread it interrupted; `getRTC` ends with a fresh time; a button press is answered |
| **Interrupt controller** `XenonInterruptController.cpp` | per vector `interruptRegistered`, `interruptDisabledSoft`, `interruptDisabledHard`; the bridge's mask registers | `handleInterrupt`, `disableVectorHard`, `enableVector` | IOKit's `IOInterruptController` and event sources, all devices | an enabled vector is not left masked; a line that stays up does not hang the processor |
| **Audio** `XenonAudioDevice.cpp`, `XenonAudioEngine*.cpp` | 32 DMA descriptors with a read and a write pointer in the device, `_lastReadPtr`, mute and volume | `startAudio`, `stopAudio`, `handleTimer`, `getAudioPosition`, `clipOutputSamples`, the controls | audio family (time stamps, erase head), SMC (mute) | the device never plays what was not granted; one time stamp per lap; the clip routine writes its range and no more |
| **Platform expert, processor** `XenonPE.cpp`, `XenonPE_GPU.cpp`, `XenonCPU.cpp` | framebuffer timer, tiling, the surface the display shows | `mapGPU`, `handleFramebufferTimer`, `startFramebuffer`, `stopFramebuffer`, `initCPU`, `getGMTTimeOfDay` | XenosController (takes the screen over), interrupt controller, clock | the timer stays stopped; the picture survives the tiling; the two starts that wait for each other end |
| **GPU command ring** `XenosController*` | ring of 32-bit words, write pointer, firmware loaded | `start`, `writeRing`, `syncRingBuffer`, `initFramebuffer`, `handleTimer` | GPU, platform expert | the GPU finds a command where it looks for one; what is drawn gets on the screen |
| **Kernel patcher** `XenonPE_Patcher.cpp` | the kernel's symbol table, code and trampolines | `findKernelMachHeader`, `resolveKernelSymbol`, `createTrampoline`, `routeFunction` | threads of the running kernel | a call of a routed function runs it whole, whenever it is made |
| **PCI bridge** `XenonPCI.*` | configuration registers behind one lock | `configRead*`, `configWrite*`, `configure` | IOKit's PCI classes, all PCI drivers | a register reads back what was written, and no other is touched |
| **SATA and DVD** `XenonSATA.cpp`, `XenonDVDDevice.cpp` | register maps, packet configuration of two units | `start`, `free`, `configureTFPointers`, `executeCommand`, eject | IOKit's ATA classes, SMC | everything that was given to others is there; a failed start gives back all but the open provider |
| **Helpers, build tools** `include/`, `tools/`, `common/` | none | `Div64_32`, logging, archive layout | | the division is exact |

What is hard here: stores to shared descriptors in the right order, flags acknowledged
between a read and a test, a filter that takes locks, timers that set themselves again
while they are stopped, a screen handed from one driver to another in the middle of a
start, code written over while it runs, results of calls that are not looked at, the End
marks of the rings, and device behaviour after a failure. The list, line by line, is
"hazards" in `PROJECT.json`.

## Modules

| Module | Models | State |
|---|---|---|
| `TxRing` | transmit ring, one action per run of stores that the controller cannot tell apart, and the controller's walk | checked, safety and refinement proved |
| `PacketFifo` | what the transmit half promises: a bounded FIFO that sends and frees in the order of acceptance | refined by `TxRing` |
| `RxRing` | receive ring, allocator and stack | checked, safety proved |
| `EthernetLink` | the PHY in `start`, `enable`, `disable`, `initHardware`, the link interrupt and `phyUpdateLinkStatus` | checked, safety proved |
| `SMC` | message FIFOs, filter, workloop, `getRTC` and another client | checked, safety proved |
| `InterruptController` | flags, bridge masks, event sources and threads | checked, safety proved |
| `Audio` | output ring, refill timer, position, controls, clip routine | checked, safety proved |
| `Console` | framebuffer timer and tiling of the platform expert, XenosController with its ring, the GPU | checked, safety proved |
| `Startup` | the start and free functions of all drivers | part of `Boot` |
| `Patcher` | the kernel patcher and a thread that calls what it patches | part of `Boot` |
| `PCIConfig` | configuration accesses of the PCI bridge, as operators on memory | part of `Boot`, proved |
| `SATAConfig` | what the SATA driver overrides of IOKit's ATA controller, as operators | part of `Boot`, evaluated |
| `Boot` | composes `Startup` and `Patcher` over `PCIConfig` and `SATAConfig` | checked, safety proved |
| `Div64` | `Div64_32` and the time of day, as operators | part of `MCSMC`, proved |
| `MC*` | symmetry sets and constants for TLC | |
| `*_proofs` | theorems and their proofs | |

Definitions named `...Skipped`, `...Forgotten` and so on, commented `Mutant:`, are
plausible bugs. They are not used by the specifications; each is put in the place of the
definition that follows it to see that the property it is listed with finds it.

### TxRing

Slots are `0..DescCount-1`. A descriptor is split into the fields the driver stores at
different times: `owner`, `endMark` (the high bit of the length), `span` (the packet
length, as the number of descriptors the controller has to collect) and `seg` (address
and length, as packet and segment number). `packetOf` and `segsOf` are `_txDescStates`.
`pc` runs through `sendTxPacket` (`output`, `fill`, `handoff`, `poll`) and through
`handleInterrupt` with `handleTxInterrupt` (`ack`, `drain`); one `pc` is enough because
the output queue is gated by the workloop the event source is on. The controller is
external: it is modelled from the register header's comments and what the driver relies
on. It walks from descriptor to descriptor, returns to 0 after one with the End mark,
gives back only a packet's first descriptor and goes to sleep on one that it does not own.

`sendTxPacket` sets the End mark through `desc`, which after a packet of one segment is
uninitialised (line 182): `WildSlots` are the slots this store may hit, next to the
possibility that it hits none. The runs have the last slot, which is what the line is meant
to hit. The ring's bookkeeping survives any `WildSlots`; what the controller reads does not: a
mark set on a slot inside another packet sends the controller back to descriptor 0 in the
middle of that packet. The theorems about it say so in a hypothesis (see Proofs).

Left out: checksum and pad flags, and the order in which this weakly ordered processor
makes its stores visible (the driver has no barrier between the chain and its first Owner
flag; the model takes program order).

### RxRing

`owner`, `endMark`, `buf`, `rxPackets` and `rxIndex` as in the code. `allocated` is what the
allocator gave out, `inStack` what `inputPacket` handed on, `content` the number of the
frame in each mbuf. `replaceOrCopyPacket` is the three outcomes it has: `Replace`, `Copy`,
`NoneLeft`. `ArmFailed` is `setRxDescriptorPacket` failing, in which case `scattered` is
set and the properties about mbufs say nothing more: the driver frees an mbuf that stays
in the ring. Both end in `inputPacket(NULL)`, where the model stops, because what the
kernel does with it is not in the repository. A controller that finds its next descriptor
with the driver halts (`NicHalt`) and raises RxHalt, which `handleInterrupt` ignores; it may look
at the descriptor again (`NicResume`) and may stay halted for ever.

### EthernetLink

The model begins in `start`, after the event source was enabled: `ProbeNext`, `ProbeFound`
and `GetSupportedMediums` are the PHY accesses of `phyProbe` and of the mediums' list. The
firmware is taken to leave the controller's interrupts masked, so that no link interrupt
mixes its accesses with these. After that the interface calls `enable` and `disable` on the
workloop. `opened`, `isEnabled` and `built` are the owner of the provider, `_isEnabled` and
the rings filled by `initTransmitReceiveBuffers`; `held` counts the packets in the transmit
ring, whose inside is TxRing. `EnableOpen` to `Return` are the steps of `enable`, `ReadStatus`
to `Return` those of the link interrupt; both go through `phyUpdateLinkStatus` (`ReadLink`,
`ReadAnar`, `ReadAnlp`). The provider is IOKit's, external: `open` fails while it has an owner.
The cable (`Plug`, `Unplug`) moves at any time. A PHY access is one step, which may time out,
also when the answer came at the last poll.

### SMC

One processor: a thread that holds `_lock` has interrupts off, the filter runs to its end,
and only the controller runs beside them (`Scheduled`, `InterruptsOn`). `smcCmd` is the
outbound message that the controller has not processed, `fifoIn` its messages to the
driver, `intStatus` the status. The acknowledge clears the status even if messages are
left; whether the hardware raises it again is not known, so both happen. `RtcCall` to
`RtcReturn` are the steps of `getRTC`, with the reference count of the `IOSyncer` each call
creates. If the filter runs without a message, `readMessage` fails, the filter does not
look at its result, and `msg` is whatever was on the stack; `stray` records that it
happened, and properties that do not survive it say so. The commands that other drivers
ask for (eject, mute, LED, restart through `PE_halt_restart` and `callPlatformFunction`) are
those of `Client`.

### InterruptController

The flags of `IOInterruptVector` are sets of vectors. `handleInterrupt` is `Acknowledge`,
`TestEnabled` or `TestDisabled` with `DisableVectorHard`, `CallHandler`, `Leave`; each
vector has a driver thread that registers, services its device and re-enables its vector
in the steps of `IOInterruptController::enableInterrupt`, which is external and modelled
from what the class's overrides and flags require. The bridge may send a vector again before
its EOI. `interruptActive` and the priority register are left out, as only another
processor or a nested interrupt would look at them; so are the vectors the bridge cannot
mask.

### Audio

`readPtr` and `writePtr` are the fields of the device's state register; the device plays
descriptor after descriptor up to the write pointer. `HandleTimerRead` and `HandleTimerWrite`
are the two halves of `handleTimer`, which the device plays between; `owed` counts the laps
of the device less the loop time stamps. The timer may be late by any amount, and an
engine may be stopped and started at any point of a lap. `Part` is the number of descriptors
of one refill (4 in the code).

`ClipOutputSamples` gives for every call the difference between the samples it was asked for
and those it wrote, and the entry of the volume table it used; what the entries hold is left out. The
values of the samples are `OutSample`, in
halves of the least bit. `Control` is the register that `getAudioPosition` reads, with the
value the driver wrote to it.

### Console

`XenonPE::start` (`MapGPU`, `PEStartFramebuffer`, `PEFinish`), its framebuffer timer,
`XenosController::start` (`MapRegisters` to `ArmTimer`), its timer and the GPU run concurrently.
The picture is two parts that the console draws into at any time: `stale` are those that the
display does not show yet, `old` those that the GPU's own buffer does not have yet. The ring is
word by word: a command is its header with the number of words that the header says follow
it, the words after it are `Body`. `InitME`, `InitState`, `InitTargets`, `InitPrograms` and `Frame`
list the headers the code writes and the words it writes after each. `ring` is what was
written, `memory` what the GPU sees after `syncData`. `Tile`, `Flip` and `Index` are the tiling
of `refreshFramebuffer`, over the pixels of the display. The GPU and whoever draws are
external, and so is the timer going off; `IOTimerEventSource` looks whether it is enabled
before it waits for the gate.

### Startup, Patcher and Boot

`Startup` has each start function as a sequence of steps: what it takes, any of which may not
be had (`Get`), what others can use from then on (`Give`), and what it waits for, without a limit
(`Await`) or for 30 seconds (`AwaitFor`). The order is that of the code, with the functions it
calls put in. A failed start lets go of its driver, whose `free` gives back what the code of
that class gives back (`Free`); the rest stays taken. Registrations after which nothing of the
start can fail, and which nobody here looks for, are left out; the module names them. The threads on which IOKit starts the drivers are
external.

`Patcher` begins with one of several symbol tables. `FindKernelMachHeader` and
`ResolveKernelSymbol` find what the code finds: the nearest header with a text segment, the
first entry that begins with the name. `CreateTrampoline`, `InterruptsOff`, `WriteWord` and
`InterruptsOn` are the routing of one function, word by word; meanwhile a thread calls the
functions and runs them instruction by instruction, with the registers that the jump uses.
The code relies on no thread being between the first and the fifth instruction of a function
when its jump is written, and so does the model.

`Boot` lets `initPatcher` run inside the step of `PEStart` that calls it. `PCIConfig` and
`SATAConfig` are operators; `Boot` has TLC evaluate instances of what they promise.

## Runs

| Run | Bounds | What it shows |
|---|---|---|
| `tx_ring` | 4 descriptors, packets of 1 or 2 segments, 3 mbufs | TxRing's invariants, the refinement of `PacketFifo`, liveness |
| `tx_endmark` | the same | expected to fail: the End mark is lost |
| `rx_ring` | 2 descriptors, 4 mbufs, 4 frames | RxRing's invariants, also after failures; every frame in a buffer is delivered, a halted controller gets its descriptor back |
| `link` | PHY at the second of three addresses, all mediums advertised, any partner, 2 packets | the link reported, and the rings built once |
| `link_medium` | the same | expected to fail: the partner's abilities are not read |
| `link_again` | the same | expected to fail: no second `enable` |
| `smc_safety` | 2 readers, 2 time responses, events while fewer than 2 messages wait; timeouts; filter without message | SMC's invariants |
| `smc_live` | the same with 1 message, no timeouts, no filter without message | answers, and references given up |
| `ic` | one event source, one filter | flags, masks, storms, service |
| `audio` | the real ring of 32 descriptors; ranges of up to 3 frames from the first 4 | the lap's time stamp, the grant, the clip routine, and that it keeps playing |
| `console` | a ring of 204 words, the GPU up to 8 words behind, a display of 64 by 48 | the ring, the tiling, the hand-over of the screen, and that it is refreshed |
| `boot` | one start fails, at any of its resources; four symbol tables | starts that end, nothing given out too early, calls of patched functions |

Why these bounds are enough: four slots with packets of two segments give every position
of a packet relative to the end of the ring, a full ring, and a packet that wraps; three
mbufs are more than the ring accepts at once. Four frames go round a ring of two twice,
and four mbufs run out. Two readers queue for `_rtcLock`, and the second can meet
the first one's value and syncer. In `ic` vectors meet only in `handleInterrupt`, one of
each kind; the theorems hold for any set of vectors. Ranges of 0 to 3 frames of two
channels have 0 to 6 samples, every remainder of a division by four with and without a
round of four. The set-up takes most of a ring of 204 words, so that the frames after it
wrap in several places; the tiling repeats every 32 pixels in both directions. `MaxFailures`
is one because a start that fails ends there, and what two failed starts leave is what
each leaves; `PhyAt` is neither the first nor the last address.

`CHECK_DEADLOCK FALSE` where the system may stop: RxRing at `inputPacket(NULL)` and when
the wire and the stack are quiet, SMC when its clock has reached `MaxTime`,
InterruptController when all devices are quiet, Console when `mapGPU` fails, Boot when all
starts are over.

### Properties worth a second look

* `ChainsTile`: the segment counts recorded in `_txDescStates` tile the used slots. The loop
  of `handleTxInterrupt` has no other guard against spinning or passing the write index.
* `HandedOffFrozen`: what the controller owns is not stored to. It holds although the driver
  sets the Owner flag of a packet's later descriptors before their address and length.
* `ImplementsFifo`: the whole ring, in the middle of any hand-off or walk, is a FIFO.
* `FilterNeverSpins`: `filterInterrupt` takes `_lock`, which is only safe because every
  thread takes it with interrupts off.
* `FlagsHaveWork`: an event that no test of `handleInterrupt` has seen keeps its flag and a run to
  come. Which events those are is not in the flags, so the model keeps them in `unread`, a
  history variable that no step of the driver reads.
* `RtcFresh`, `SignalOnLiveSyncer`: `_rtcSyncer` is never cleared and one flag serves every
  caller; `_rtcLock` is what makes this right.
* `EnabledNotMasked`, `StormBounded`: the lazy disable of level triggered vectors.
* `OneStampPerLap`: the time stamp is taken if the timer sees the read pointer at 0 and did
  not see it there before, which a late timer should miss. It does not, because the
  write pointer, which only the timer moves, holds the device at the start of the buffer.
* `StopHolds`: the handler sets the timer again while another thread stops it; that the
  time is kept but the timer disabled is what makes it stay stopped.
* `ScreenRefreshed`, `BuffersAgree`: the controller takes its addresses from the surface that the
  platform expert chose, and stops the other's timer late in its start.
* `CallsWhole`: a call that is under way while four instructions are replaced.
* `FoundIsReady`, `FreedAfterFailure`, `StartsEnd`: the order of ten start functions.
  `FreedAfterFailure` says driver by driver what a failed start leaves (`LeftAfterFailure`).
* `FrameDelivered`: the driver's part of reception, not that the controller goes on.

### What does not hold

Expected to fail, each a finding in `PROJECT.json`:

* `LastDescriptorMarked` (`tx_endmark`): the driver erases the End mark of the last transmit
  descriptor when it fills it, and does not put it back. The liveness properties of TxRing
  therefore except the state in which the controller has walked out of the ring
  (`nicPos = NoSlot`).
* `MediumCommon` (`link_medium`): `phyGetActiveMedium` reads its own advertisement twice, so that
  the medium reported does not depend on the partner.
* `EnableAgain` (`link_again`): `disable` leaves the provider open and the next `enable` fails.
  `RingsBuiltOnce` shows that this also hides something: closing the provider alone would let
  `initHardware` empty rings that hold mbufs.

Limits of the code that the properties state as exceptions, or that the models have as a
behaviour:

* SMC: with a timeout in `writeMessage`, `getRTC` gives up one of its two references
  (`SyncersReleased` is checked and proved without timeouts), and the filter drops the result
  of `cancelPowerOff` (`PressAnswered` likewise). A message left in the FIFO without an interrupt
  (`LeftBehind`): the filter reads one per interrupt and acknowledges for all; if the hardware
  does not raise the status again, `getRTC` waits until the next event. After the filter acted
  on a message that nobody sent, a syncer may be released once too often, and `getRTC` may
  return an old time or, let go too early, fail. What the filter notes between the workloop's test of a
  flag and its clear (`XenonSMC_Private.cpp:85`, `:96`) is erased unseen: for the power button the
  reboot follows anyway (`PressReboots`), a state of the tilt switch is not logged.
* Receive ring: RxHalt is unmasked and acknowledged and nothing is done about it. `src/README.md:84`
  says that "receiving packets may stop working"; a controller that does not go on by itself would
  do that, and frames that come while it is halted are lost. `FrameDelivered` promises neither.
* Audio: `getAudioPosition` takes the read pointer and the length from the control register
  instead of the state register. The position it gives is therefore constant: byte 51960
  (frame 12990) while the engine runs. `FrameInBuffer` says that at least it lies in the buffer.
  `clipOutputSamples` moves its pointer back before it clears a muted buffer and clears one
  sample too early (`XenonAudioEngine_Clip.cpp:66`); `ClipExact` is about unmuted calls.
  `setAudioMute` ignores its argument. A start takes a time stamp although the device goes on
  where it stopped.
* Console: what `loadFirmware` and `initHardware` return is not looked at. With firmware that did
  not load, the screen freezes once the platform expert's timer is stopped (the exception in
  `ScreenRefreshed`); without memory for the ring, the set-up writes through a null pointer
  (`wild`). `handleTimer` never looks at the read pointer: that the GPU keeps up (`Backlog`) is an
  assumption. A failed `XenonPE::start` leaves its timer running. No driver calls
  `PlatformStartFB`. The tiling is one-to-one for widths that are a multiple of 32; of the
  usual ones 848, 1360 and 1680 are not.
* Patcher: a routed symbol that is not found counts as address 0, which is then patched, and
  the first symbol that begins with the name is taken for it.
* Startup: a failed start of the SMC or SATA driver leaves the provider open; one of the sound
  driver leaks the timer and the engine with its controls; the platform expert, the processor,
  the interrupt controller and the Ethernet driver have no `free` that releases anything
  (`XenonEthernet.cpp:94` only calls its superclass), so that all they took is leaked. Of these the
  interrupt source of the Ethernet driver stays enabled, which is harmless only because of
  that. `XenonPCI::start` registers the bridge before `super::start` (`XenonPCI.cpp:34`); when that
  fails, `free` releases the lock and the registers of a service that was given out, which
  `FoundIsReady` excepts.

## Fairness

* TxRing, RxRing: code that was entered runs on, and the controller keeps working (weak
  fairness), but nothing makes a halted receiver go on. The event source of a workloop whose
  gate is taken again and again by the output queue gets it in the end: strong fairness on
  `ReadStatus` in TxRing. Nothing makes the stack send, frames arrive, or the stack free mbufs.
* EthernetLink: code that was entered runs on (weak), and the event source gets the workloop
  although the interface calls the driver again and again (strong).
* SMC: the controller processes commands and a thread holding `_lock` finishes (weak). The
  filter, the workloop and the readers compete for the processor and for locks, each gets
  its turn in the end (strong). Buttons need not be pressed.
* InterruptController: a handler that was entered returns (weak). Vectors compete for
  `handleInterrupt`, and threads run only between interrupts (strong for each vector).
* Audio: the device plays on, the timer goes off, and its handler goes on once entered
  (weak). Nobody has to start or stop the engine: `KeepsPlaying` is about an engine that stays
  on.
* Console: timers go off and their handlers go on, a start that was begun goes on, the GPU
  reads (weak). Nothing makes anybody draw.
* Boot: every start has a thread. One weak fairness over all of them is enough in Startup,
  as none goes round. In Boot the patcher and the starts beside it compete with a thread
  that calls functions for ever (strong).

## Proofs

TLC checks the instances of the last section; the following hold for every value of the
constants that the modules' assumptions allow.

| Module | Theorems | Statement |
|---|---|---|
| `TxRing_proofs` | `TypeCorrect`, `ChainsAlwaysTile`, `MbufsAlwaysConserved`, `HandedOffAlwaysFrozen`, `DmaAlwaysReadsHeldPacket`, `RingImplementsFifo`, `NothingEverForgotten` | `Spec => []` of `TypeOK` with `Filling`, `ChainsTile`, `MbufsConserved`; and, if wild stores hit the last descriptor only, `HandedOffFrozen`, `[]DmaReadsHeldPacket`, `Fifo!Spec` and `[]NothingForgotten` |
| `RxRing_proofs` | `TypeCorrect`, `MbufsConserved`, `DmaHeld`, `StaysClosed`, `InOrder`, `FrameNeverLeft` | `Spec => []` of `TypeOK` and the controller in the ring, `RxMbufsConserved`, `DmaIntoHeldBuffer`, `RingClosed`, `DeliveredInOrder`, `NoFrameLeft` |
| `EthernetLink_proofs` | `TypeCorrect`, `NeverStale`, `BuiltOnce`, `PartnerIgnored`, `NeverEnabledAgain` | `Spec => []` of `TypeOK`, `LinkNotStale`, `OwnBest`; `Spec => RingsBuiltOnce`, `Spec => EnabledOnce` |
| `SMC_proofs` | `TypeCorrect`, `NeverSpins`, `FlagsNotForgotten`, `AnswersFresh`, `SignalsLive`, `CallsRelease`, `RequestNeverLost`, `PressNeverLost` | `Spec => []` of `TypeOK`, `FilterNeverSpins`, `FlagsHaveWork`, `RtcFresh`, `SignalOnLiveSyncer`, `RequestKept`; of `PressKept` if nothing times out, and of `SyncersReleased` if besides the filter is not called for nothing |
| `SMC_proofs` | `QuotientCut` | `Div64_32`, which makes seconds of the time, is the quotient modulo the size of a word, for a divisor that fits in half a word (it is called with 1000) |
| `InterruptController_proofs` | `TypeCorrect`, `EnabledStaysUnmasked`, `StormsBounded`, `LineNeverDead` | `Spec => []` of `TypeOK`, `EnabledNotMasked`, `StormBounded`, `NoLineDead` |
| `Audio_proofs` | `TypeCorrect`, `EveryLapStamped`, `NeverPastGrant`, `ClipAlwaysExact`, `TimerAlwaysOn`, `FrameAlwaysInBuffer`, `PositionNeverMoves`, `SamplesFit` | `Spec => []` of `TypeOK`, `OneStampPerLap`, `HeldToGrant`, `ClipExact`, `TimerStillOn`, and of `FrameInBuffer` and a constant position for the ring of 32 descriptors; every converted sample fits in 16 bits |
| `Console_proofs` | `TypeCorrect`, `TimerStaysQuiet`, `BuffersAlwaysAgree`, `GpuAlwaysInStep`, `ImageAlwaysKept`, `ScreenAlwaysTimed` | `Spec => []` of `TypeOK` with `Phases`, `StopHolds`, `BuffersAgree`, `GpuInStep`, `ScreenTimed`, and of `ImageKept` if the buffer holds the rows of the display rounded up to tiles |
| `Boot_proofs` | `AlwaysReady`, `AlwaysFreed`, `CallsAlwaysWhole` | `BootSpec => []` of `FoundIsReady`, `FreedAfterFailure`, `CallsWhole` |
| `Boot_proofs` | `ReadsBack8`, `ReadsBack16`, `ReadsBack32`, `OthersKept` | a configuration register reads back what was written to it; no write changes a register of another function |

*TxRing*, for every ring size, segment bound, set of mbufs and set of wild slots. `ChainsTile`
is not inductive by itself: that the counts tile the ring after `Record` needs the room that
`sendTxPacket` checked to be still there, so the invariant carries the room through `fill` and
relates the filled segments, the count and `pc`. The lemmas before it are about ring arithmetic
(`Advance` and `TX_USED` are inverse to each other, a chain that starts inside the used part
stays inside), because the provers know little about `%`. `MbufsConserved` needs `ChainsTile`: a
slot has an mbuf exactly if it has a count, and only used slots have one.

The packet that the controller walks is followed by `DmaInv`: the descriptors of a recorded
packet hold its segments and its length (`ChainsFilled`); the controller stands where a packet
starts or will start, or as far behind the start of the one it walks as it has read segments
(`NicAtChain`); the packets from there on are its own, the one of a hand-off under way counted in
(`OwnedFromNic`). The End mark that line 182 puts behind the last descriptor never
misleads it: that packet starts in the last descriptor, which has no mark then, so that the
controller leaves the ring before it gets there (`StrayEndBehindLast`). `HandedOffFrozen` needs less,
that the slots `sendTxPacket` stores to belong to no recorded packet. From `DmaInv`
`DmaReadsHeldPacket` follows, and the refinement: `Record` is `Accept`, `NicWriteBack` is
`Transmit`, `FreeSent` is `Free`, all else a stutter. `PacketFifo` orders the packets by a relation
rather than a sequence, so that the order can be read off the distances from the read index.
The hypothesis `WildHarmless` cannot be dropped: with five slots and wild stores anywhere TLC
finds `DmaReadsHeldPacket` violated.

*RxRing*, for every ring size and any number of mbufs. The invariant adds that the End
mark is on the last descriptor and nowhere else (`EndMarks`), what `handleRxInterrupt` holds at
each point (`Handling`), and that a failure of `setRxDescriptorPacket` is followed by nothing but
`inputPacket(NULL)` (`FailureEnds`). For the order of delivery it counts the slots from the first
one that was filled and not handed on: the filled ones follow each other up to the
controller's position, and so do the frames in them (`FilledTile`, `FramesInOrder`).

*EthernetLink*, for any PHY and any mediums: while the advertisement is read the link is
still up or another interrupt has come (`LinkRead`), and before the provider was opened nothing
is built, after which it stays open (`NotBuiltBefore`): this keeps `initHardware` from running
twice.

*SMC*, for any number of readers, with timeouts and with interrupts for nothing. The invariant has
what each party holds (`Held`), that at most one request for the time is on its way between the
reader with `_rtcLock`, the controller, the FIFO, the filter and `_rtcValue` (`OneOnTheWay`), that
whoever waits owns the lock and the syncer (`OwnerWaits`), and that an answer is younger than the
call it will end (`AnswersYounger`); they hold until the filter acts on an invented message.
`CallsRelease` uses further that without invented messages an interrupt finds one
(`MessageForInterrupt`).

*InterruptController*, for any set of vectors. `EnabledNotMasked` follows from three facts that are
inductive together: a masked vector has its hard flag or its thread is at `unmask`
(`MaskedIsHard`); the hard flag of a soft-enabled vector means that its thread is at `test`
(`HardIsSoft`); what the handler is about to mask has its hard flag (`MaskingHard`).
`StormsBounded` counts the interrupts on the way to the mask (`MaskedSoon`).

*Audio*, for a ring of any length and a timer late by any amount: the write pointer is at most a
part ahead of the device (`Granted`), between the two halves of the handler the device is between
the pointer that was read and the write pointer (`Follows`), and the device stands at the start
of the buffer until the timer was there and comes round to it only when the timer has seen it
elsewhere (`Stamped`).

The clip routine needs no strengthening but the type of the volume; that its two loops write
what was asked for is `ConvertedAsAsked`, for any number of samples. `FrameAlwaysInBuffer` assumes
`Part = 4`, the constant of the code: the position is computed from the control register, and
rings of other lengths would put it outside the buffer.

*Console*, for a ring and a display of any size. `Phases` says what the two starts and the timers
hold at each point; `StopHolds` and `BuffersAgree` follow from it. For `GpuInStep` the invariant
(`CommandInv`) says that from the word the GPU reads next to the last one written the ring holds
whole commands, those that the GPU was told of also in memory, and that the driver has not come
round to the first of them (`Chained`), and how much is written and not told at each point of
the driver (`Lagging`). The headers the code writes tell their lengths, which is shown for each list
of commands once. That the ring holds what is written before the GPU is told of it, with the
frames it is behind, is an assumption of the module (`RoomAssumption`), because the code never
looks at the read pointer. `ImageAlwaysKept` shows that `Index` is one-to-one: the tile of a pixel and its spot in
the tile can be read back from the index, by the bits of `Tile` and `Flip`. Its hypothesis
`DisplayFits` is that the buffer has room for the last row of tiles.

*Boot*. `StartInv` says of every start function that what it has taken or given out is what its
script says up to the step it is at, and that a failed start stands at what it could not take; who
gives out a name is found in the scripts (`Givers`), and behind it everything that is needed
has been taken. The scripts are data of the module, so the lemmas `PESteps` to `AudioSteps` list
them; the order of the starts, their failures and what they meet are arbitrary. `PatchInv` says
which functions have a jump, how much of it is written, and what is in each trampoline (`CodeInv`,
`OrgInv`), and of the caller what its registers and its trace are at each instruction of the
function, of the jump and of the trampoline (`CallerInv`, `Loaded`). A jump is only seen whole
because interrupts are off while it is written and the caller is not inside the four words.

*PCIConfig* and *Div64* are about operators: the bytes of a register are apart from those of any
other because a function's page is (`At`), and each of the four steps of the long division keeps
its remainder below the divisor, so that no intermediate sum exceeds a word.

### Lost wake-ups, and what the findings come to

That something happens in the end cannot be proved here, but what would keep it from
happening can be excluded: a state in which somebody waits and nothing is under way. For each
liveness property but that of Boot a theorem says that there is no such state, so that the
fairness assumed has a step to work with. A liveness property needs besides that the steps
under way come to an end and that each makes progress; that is left to TLC.

* `NothingForgotten` (`StallServiced`, `MbufReturned`): the driver acknowledges before it walks, so
  that a completion it does not see raises the cause again (`DoneTold`); a doorbell is rung
  behind each hand-off (`DoorbellKept`); the queue stalls only on a ring with packets in it
  (`StallHeld`). `nicPos # NoSlot` leaves out the controller that has walked out of the ring
  (`LastDescriptorMarked`).
* `NoFrameLeft` (`FrameDelivered`): a frame behind the driver's position raised the cause after the
  last acknowledge (`Told`). It says nothing of a controller that is halted.
* `RequestKept`, `PressKept` (`RtcReturns`, `PressAnswered`): a message is not lost between the
  controller, the FIFO and the filter (`QueuedStays`, `TakenStays`, `CommandStays`). What can happen
  to it is `LeftBehind`, which the liveness properties except.
* `FlagsHaveWork` (`PressReboots`), up to the test that sees the flag, and `LinkNotStale`
  (`LinkReported`) say it of the flags of the SMC's filter and of the link; both are also
  invariants of runs.
* `NoLineDead` (`DeviceServiced`): a soft-disabled vector is one whose thread was signalled or is on
  its way to enable it (`WillEnable`), and an enabled one is not masked (`MaskedIsHard`, `HardIsSoft`).
* `TimerStillOn` (`KeepsPlaying`) and `ScreenTimed` (`ScreenRefreshed`): a timer is set, or its
  handler, which sets it again, is running.

Two findings are shown by runs as one counterexample each; what they come to is proved for every
behaviour. `PartnerIgnored`: the medium reported is the best this end advertises, whatever the
partner does. `NeverEnabledAgain`: an adapter that is open and neither enabled nor about to be
stays so; a `disable()`, or an `enable()` that failed in `initHardware`, is for ever.
`PositionNeverMoves` likewise: while the engine runs, the position told to the family does not
depend on where the device is.

Every invariant and every action property that a passing run checks is proved. Only
model-checked is all liveness (`StallServiced`, `MbufReturned`, `PressAnswered`, `PressReboots`,
`RtcReturns`, `FrameDelivered`, `DeviceServiced`, `LinkReported`, `ScreenRefreshed`, `KeepsPlaying`,
`StartsEnd`): liveness under fairness, `ENABLED`, and what recursive definitions compute are out of
the prover's reach. The operators of `SATAConfig` are evaluated by TLC.

## Not modelled

Vendored adreno headers, GPU microcode, register tables, `common/`, makefiles, the CI
configuration and documentation have no behaviour: they are more than a third of the lines,
and what the drivers use of them (packet headers, message kinds, register fields) is in the
modules that use it. `make-mkext.py` lays out an archive once, at build time. The
weak memory order of the processor and a second processor are not modelled. Of the modelled
parts the following is left out: the audio format and the strings; the checksum flags and
the MAC address of the Ethernet driver; `phyReset` and `phyWriteWithAddr`, which nothing
calls; `quiesceCPU`, `startCPU` and `haltCPU`, which are empty; `ipiHandler`, which calls the
kernel; the vectors the bridge cannot mask.

## Plan

What is left, in order of use:

1. Check the rings with stores that become visible out of order, up to the barriers the code
   has (`eieio`), which the transmit path lacks.
2. Compose `InterruptController` with one driver's rings, so that a completion is followed from
   the bridge to the stack.
3. State of the receive ring, as of the transmit ring, that it implements a queue, and prove it.
