------------------------------- MODULE Startup -------------------------------
(***************************************************************************)
(* The start functions of the drivers, which IOKit runs on threads of      *)
(* their own: what each takes, what it gives to others and what it waits   *)
(* for, in the order of the code; and what its free() gives back when the  *)
(* start failed.                                                           *)
(*                                                                         *)
(* A driver is started when its provider is there.  IOKit registers an     *)
(* interrupt once the controller it is routed to is registered, and the    *)
(* processor's controller takes one once the processor's interrupts are    *)
(* enabled: until then the caller waits, without a limit.                  *)
(*                                                                         *)
(* Three registrations are left out, those of the processor, the interrupt *)
(* controller as a service and the Ethernet interface (XenonCPU.cpp:104,   *)
(* XenonInterruptController.cpp:150, XenonEthernet.cpp:84): no step of the *)
(* start that can fail comes after them, and no driver looks for them.     *)
(***************************************************************************)
EXTENDS Integers, Sequences, FiniteSets

CONSTANT MaxFailures   \* bound: resources that cannot be had, in one behaviour

ASSUME FailuresAssumption == MaxFailures \in Nat

\* Resources that are taken in this order, any of which may not be had.
Get(s)  == [kind |-> "get", what |-> s]
\* What others can use from now on.
Give(s) == [kind |-> "give", what |-> s]
\* A wait without a limit, and one of 30 seconds.
Await(s)    == [kind |-> "await", what |-> <<s>>]
AwaitFor(s) == [kind |-> "awaitFor", what |-> <<s>>]

-----------------------------------------------------------------------------
(* The start functions                                                     *)

\* mapGPU, startFramebuffer, initPatcher; super::start creates the root power
\* domain and the nubs of the device tree.
PEStart == <<
  Get(<<"registers", "framebuffer", "gpuBuffer", "workLoop", "timer">>), Give(<<"console">>),
  Get(<<"patcher", "super">>), Give(<<"rootDomain", "platform", "IONVRAM">>),
  Await("rootDomain")>>

\* initCPU.  Mutant: the processor's interrupts are enabled last.
InitCPULate == <<Await("XenonIC"), Give(<<"ipi", "cpuInterrupts">>)>>
\* initCPU: the processor takes interrupts before the IPI is registered.
InitCPU == <<Give(<<"cpuInterrupts">>), Await("XenonIC"), Give(<<"ipi">>)>>

\* Up to processor_start, which calls initCPU.
CPUStart ==
  <<Get(<<"super", "cpus", "reg", "state", "gCPUIC", "cpuController">>), Give(<<"CPUIC">>),
    Get(<<"processor">>)>> \o InitCPU

\* Called by the interrupt controller, and allowed to fail between the two: the
\* pages stay allocated then.
MapMemory == <<"pages", "registers">>

\* The interrupt of the controller itself is registered before the controller is.
ICStart == <<
  Get(<<"super", "name">> \o MapMemory \o <<"bridge", "biu", "vectors", "locks">>),
  Await("CPUIC"), Await("cpuInterrupts"), Give(<<"XenonIC">>)>>

\* The bridge is registered before super::start, which looks for the devices of
\* both buses and may fail.
PCIStart == <<
  Get(<<"lock", "config">>), Give(<<"XenonPCI">>), Get(<<"super">>), Give(<<"devices">>)>>

\* Mutant: the hooks and the service come before the interrupt source.
SMCStartEarly == <<
  Get(<<"super", "device", "open", "mmio", "lock", "rtcLock">>), Give(<<"hooks">>),
  Give(<<"IORTC", "XenonSMC">>), Await("XenonIC"), Get(<<"source">>), Give(<<"smcInterrupt">>)>>
SMCStart == <<
  Get(<<"super", "device", "open", "mmio", "lock", "rtcLock">>),
  Await("XenonIC"), Get(<<"source">>), Give(<<"smcInterrupt">>),
  Give(<<"hooks">>), Give(<<"IORTC", "XenonSMC">>)>>

\* super::start keeps the workloop that the first getWorkLoop() made, and calls
\* configureTFPointers.
SATAGetWorkLoop     == <<"workLoop">>
ConfigureTFPointers == <<"mmio", "bmdma">>

SATAStart == <<
  Get(<<"device", "open">> \o SATAGetWorkLoop \o ConfigureTFPointers \o <<"super">>),
  Await("XenonIC"), Get(<<"source">>), Give(<<"sataInterrupt">>), Give(<<"drives">>)>>

DVDStart == <<AwaitFor("XenonSMC"), Get(<<"super">>)>>

\* super::start calls createWorkLoop and createOutputQueue.
CreateWorkLoop      == <<"workLoop">>
CreateOutputQueue   == <<"outputQueue">>
AllocateTxRxBuffers == <<"rings", "cursors">>

EthernetStart == <<
  Get(<<"device">> \o CreateWorkLoop \o CreateOutputQueue \o <<"super", "mmio", "queue">>
        \o AllocateTxRxBuffers),
  Await("XenonIC"), Get(<<"source">>), Give(<<"ethernetInterrupt">>),
  Get(<<"phy", "mediums", "interface">>)>>

AllocateSampleDescriptors == <<"descriptors", "samples">>

\* The engine's init makes its controls.
CreateControls    == <<"volumeControl", "muteControl">>
EngineInit        == <<"engineSuper">> \o CreateControls
CreateAudioEngine == <<"engine">> \o EngineInit

CreateAudioPorts == <<"outputPort", "outputSelector", "attached">>

\* What it returns is not looked at.
SetAudioMute == <<AwaitFor("XenonSMC")>>

\* initHardware, called by super::start.
AudioStart ==
  <<Get(<<"super", "device", "mmio">> \o AllocateSampleDescriptors \o <<"timer">>
          \o CreateAudioEngine \o CreateAudioPorts)>>
    \o SetAudioMute \o <<Give(<<"activated">>)>>

\* The engine's initHardware: without it there is no sound, but the driver stays.
EngineInitHardware == <<Get(<<"super", "audioStream", "streamInit">>), Give(<<"sound">>)>>

\* getGMTTimeOfDay, which the kernel calls for the time of day.
GetGMTTimeOfDay == <<AwaitFor("IORTC")>>

Script ==
  [pe |-> PEStart, cpu |-> CPUStart, ic |-> ICStart, pci |-> PCIStart, smc |-> SMCStart,
   sata |-> SATAStart, dvd |-> DVDStart, ethernet |-> EthernetStart, audio |-> AudioStart,
   engine |-> EngineInitHardware, gmt |-> GetGMTTimeOfDay]

Drivers == DOMAIN Script

\* Whose nub each is started on.
Provider ==
  [pe |-> "root", cpu |-> "platform", ic |-> "platform", pci |-> "platform",
   smc |-> "devices", sata |-> "devices", dvd |-> "drives", ethernet |-> "devices",
   audio |-> "devices", engine |-> "activated", gmt |-> "platform"]

-----------------------------------------------------------------------------
(* What a failed start gives back                                          *)

EngineParts == {"engine", "engineSuper", "volumeControl", "muteControl"}

\* A function that fails half-way gives back what it took: the engine goes with
\* the controls it made, a port that is not attached and a stream without its
\* init go as well.
Together == {EngineParts, {"outputPort", "attached"}, {"audioStream", "streamInit"}}

Kept(taken) == taken \ UNION {group \in Together : ~(group \subseteq taken)}

\* The free functions.

\* Mutant: the register map is not released.
SMCFreeLess == {"super", "source", "rtcLock", "lock", "device"}
SMCFree == {"super", "source", "rtcLock", "lock", "mmio", "device"}

PCIFree   == {"super", "config", "lock"}
SATAFree  == {"super", "workLoop", "source", "mmio", "bmdma", "device"}
DVDFree   == {"super", "XenonSMC"}
AudioFree == {"super", "descriptors", "samples", "mmio", "device"}

\* Nothing but what the superclass holds.
EthernetFree == {"super"}

Free(d) ==
  CASE d = "smc" -> SMCFree [] d = "pci" -> PCIFree [] d = "sata" -> SATAFree
    [] d = "dvd" -> DVDFree [] d = "audio" -> AudioFree [] d = "ethernet" -> EthernetFree
    [] OTHER -> {"super"}

-----------------------------------------------------------------------------
VARIABLES
  at,        \* the step of its start that each driver is at
  held,      \* what each has taken
  world,     \* what was given
  failed     \* the drivers whose start failed

startVars == <<at, held, world, failed>>

\* IOKit starts a driver when its provider is there.
Running(d) == Provider[d] \in world /\ at[d] <= Len(Script[d]) /\ d \notin failed
Step(d)    == Script[d][at[d]]
Names(s)   == {s[i] : i \in 1 .. Len(s)}

StartInit ==
  /\ at = [d \in Drivers |-> 1]
  /\ held = [d \in Drivers |-> {}]
  /\ world = {"root"}
  /\ failed = {}

Advance(d) == at' = [at EXCEPT ![d] = @ + 1]

Acquire(d) ==
  /\ Running(d) /\ Step(d).kind = "get"
  /\ held' = [held EXCEPT ![d] = @ \cup Names(Step(d).what)]
  /\ Advance(d)
  /\ UNCHANGED <<world, failed>>

\* The resource after the k-th cannot be had: start returns false, and IOKit
\* lets go of the driver, whose free() is called.
Fail(d) ==
  /\ Running(d) /\ Step(d).kind = "get"
  /\ \E k \in 0 .. Len(Step(d).what) - 1 :
       held' = [held EXCEPT ![d] = Kept(@ \cup Names(SubSeq(Step(d).what, 1, k))) \ Free(d)]
  /\ failed' = failed \cup {d}
  /\ UNCHANGED <<at, world>>

Publish(d) ==
  /\ Running(d) /\ Step(d).kind = "give"
  /\ world' = world \cup Names(Step(d).what)
  /\ Advance(d)
  /\ UNCHANGED <<held, failed>>

Arrive(d) ==
  /\ Running(d) /\ Step(d).kind \in {"await", "awaitFor"}
  /\ Names(Step(d).what) \subseteq world
  /\ Advance(d)
  /\ UNCHANGED <<held, world, failed>>

\* The 30 seconds are over: start goes on without.
TimeOut(d) ==
  /\ Running(d) /\ Step(d).kind = "awaitFor"
  /\ Advance(d)
  /\ UNCHANGED <<held, world, failed>>

Proceed(d) == Acquire(d) \/ Publish(d) \/ Arrive(d) \/ TimeOut(d)

Start(d) == Proceed(d) \/ (Cardinality(failed) < MaxFailures /\ Fail(d))

StartNext == \E d \in Drivers : Start(d)

\* Every start has a thread.  None goes round, so that it is enough to ask that
\* one of them goes on as long as one can.
StartSpec ==
  StartInit /\ [][StartNext]_startVars /\ WF_startVars(\E d \in Drivers : Proceed(d))

-----------------------------------------------------------------------------
(* Properties                                                              *)

\* What each driver must still hold once something was given to others.
Needs == {
  <<"console", "pe", {"registers", "framebuffer", "gpuBuffer", "workLoop", "timer"}>>,
  <<"platform", "pe", {"patcher"}>>,
  <<"CPUIC", "cpu", {"cpuController"}>>,
  <<"XenonIC", "ic", {"registers", "bridge", "vectors", "locks"}>>,
  <<"XenonPCI", "pci", {"lock", "config"}>>,
  <<"devices", "pci", {"lock", "config"}>>,
  <<"smcInterrupt", "smc", {"mmio", "lock", "source"}>>,
  <<"hooks", "smc", {"mmio", "lock", "rtcLock", "source"}>>,
  <<"sataInterrupt", "sata", {"mmio", "bmdma", "super"}>>,
  <<"ethernetInterrupt", "ethernet", {"mmio", "rings", "source"}>>,
  <<"sound", "audio", {"mmio", "descriptors", "samples", "timer", "engine", "outputPort"}>>,
  <<"sound", "engine", {"audioStream"}>>}

\* Whoever finds a service, is called by a hook, a timer or an interrupt, finds
\* all that takes: nothing is given out before it is set up, and the clock is found
\* only with its hook in place.  What was given out is kept when the start fails
\* later, with one exception: XenonPCI::start registers the bridge before
\* super::start (XenonPCI.cpp:34, 36), and when that fails free() releases the lock
\* and the registers of a bridge that was registered.  Whether anybody still finds
\* it is up to IOKit; no driver here looks for it.
FoundIsReady ==
  /\ \A n \in Needs : n[1] \in world =>
       n[3] \subseteq held[n[2]] \/ (n[1] = "XenonPCI" /\ "pci" \in failed)
  /\ {"IORTC", "XenonSMC"} \cap world # {} => "hooks" \in world

\* What the free functions do not release, of the drivers that have one that does
\* more than call its superclass: the open provider, and of the sound driver the
\* timer and the engine, which holds its controls and the selector of its port.  The
\* engine's initHardware gives back all it took.
LeftAfterFailure ==
  [smc |-> {"open"}, sata |-> {"open"}, pci |-> {}, dvd |-> {}, engine |-> {},
   audio |-> {"timer", "outputSelector"} \cup EngineParts]

\* After a failed start, the SMC, SATA, PCI, DVD and sound drivers and the sound
\* engine hold no more than that.  The platform expert, the processor, the interrupt
\* controller and the Ethernet driver give nothing back: what their finished steps
\* took stays taken, which is a leak, and what keeps an Ethernet interrupt that is
\* enabled before the start fails from reaching freed memory.
FreedAfterFailure ==
  /\ \A d \in failed \cap DOMAIN LeftAfterFailure : held[d] \subseteq LeftAfterFailure[d]
  /\ \A d \in failed \ DOMAIN LeftAfterFailure : \A j \in 1 .. at[d] - 1 :
       Script[d][j].kind = "get" => Names(Script[d][j].what) \ {"super"} \subseteq held[d]

\* Every start ends, although the SMC may never show up: the processor and the
\* interrupt controller, each of which waits for the other, get by, and only a
\* start of theirs that failed can hold up the drivers with an interrupt.
StartsEnd == <>[](\A d \in Drivers : Running(d) => {"cpu", "ic"} \cap failed # {})
=============================================================================
