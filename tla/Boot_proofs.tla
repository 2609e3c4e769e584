------------------------------ MODULE Boot_proofs ------------------------------
(***************************************************************************)
(* Theorems about the boot: whoever finds a service finds all it takes,     *)
(* what a failed start leaves taken, a call of a function that is being    *)
(* patched runs it whole; and the configuration registers of PCIConfig are *)
(* a memory of their own for each function of each bus.                    *)
(***************************************************************************)
EXTENDS Boot, SequenceTheorems, TLAPS

-----------------------------------------------------------------------------
(* The configuration registers.                                            *)

\* Two functions are at least a page apart.
LEMMA PagesApart ==
  ASSUME NEW s \in Space, NEW t \in Space, s # t
  PROVE  /\ GetConfigAddress(s) \in Nat /\ GetConfigAddress(t) \in Nat
         /\ \/ GetConfigAddress(s) + 4096 <= GetConfigAddress(t)
            \/ GetConfigAddress(t) + 4096 <= GetConfigAddress(s)
<1>1. /\ s.busNum \in 0 .. 1 /\ s.deviceNum \in 0 .. 31 /\ s.functionNum \in 0 .. 7
      /\ t.busNum \in 0 .. 1 /\ t.deviceNum \in 0 .. 31 /\ t.functionNum \in 0 .. 7
  BY DEF Space, FirstBusNum, LastBusNum
<1>2. s.busNum # t.busNum \/ s.deviceNum # t.deviceNum \/ s.functionNum # t.functionNum
  BY DEF Space
<1> DEFINE b == s.busNum  d == s.deviceNum  f == s.functionNum
           c == t.busNum  e == t.deviceNum  g == t.functionNum
<1>3. /\ GetConfigAddress(s) = (b * 256 + d * 8 + f) * 4096
      /\ GetConfigAddress(t) = (c * 256 + e * 8 + g) * 4096
  BY SMT DEF GetConfigAddress
<1>4. b \in 0 .. 1 /\ c \in 0 .. 1 /\ d \in 0 .. 31 /\ e \in 0 .. 31
        /\ f \in 0 .. 7 /\ g \in 0 .. 7
  BY <1>1
<1>5. b # c \/ d # e \/ f # g
  BY <1>2
<1> HIDE DEF b, c, d, e, f, g
<1> QED  BY <1>3, <1>4, <1>5, SMT

\* An address is a natural number, and every byte is one.
LEMMA Typed ==
  ASSUME NEW space \in Space, NEW offset \in Offset
  PROVE  At(space, offset) \in Nat
  BY DEF At, GetConfigAddress, Space, Offset, Byte, FirstBusNum, LastBusNum

\* configWrite8 and configRead8: a byte that is written is read back.
THEOREM ReadsBack8 ==
  ASSUME NEW memory \in Memory, NEW space \in Space, NEW offset \in Offset,
         NEW data \in Byte
  PROVE  ConfigRead8(ConfigWrite8(memory, space, offset, data), space, offset) = data
  BY Typed, SMT DEF ConfigRead8, ConfigWrite8, Memory

\* configWrite16 and configRead16: so is a half word, aligned or not.
THEOREM ReadsBack16 ==
  ASSUME NEW memory \in Memory, NEW space \in Space, NEW offset \in Offset,
         NEW data \in Nat, data < 65536
  PROVE  ConfigRead16(ConfigWrite16(memory, space, offset, data), space, offset) = data
<1> DEFINE a == At(space, offset)
           written == ConfigWrite16(memory, space, offset, data)
<1>1. a \in Nat  BY Typed
<1>2. written[a] = data % 256 /\ written[a + 1] = data \div 256
  BY <1>1, SMT DEF ConfigWrite16, Memory
<1>3. data = (data % 256) + 256 * (data \div 256)  BY SMT
<1> QED  BY <1>2, <1>3, SMT DEF ConfigRead16

\* configWrite32 and configRead32: and a word.
THEOREM ReadsBack32 ==
  ASSUME NEW memory \in Memory, NEW space \in Space, NEW offset \in Offset,
         NEW data \in Nat, data \div 65536 < 65536
  PROVE  ConfigRead32(ConfigWrite32(memory, space, offset, data), space, offset) = data
<1> DEFINE a == At(space, offset)
           written == ConfigWrite32(memory, space, offset, data)
<1>1. a \in Nat  BY Typed
<1>2. /\ written[a] = data % 256
      /\ written[a + 1] = (data \div 256) % 256
      /\ written[a + 2] = (data \div 65536) % 256
      /\ written[a + 3] = (data \div 65536) \div 256
  BY <1>1, SMT DEF ConfigWrite32, Memory
<1>3. data = (data % 256) + 256 * ((data \div 256) % 256)
              + 65536 * (((data \div 65536) % 256) + 256 * ((data \div 65536) \div 256))
  BY SMT
<1> QED  BY <1>2, <1>3, SMT DEF ConfigRead16, ConfigRead32

\* A write to one function leaves every register of the others alone, although a
\* word written at the last offset goes past the registers an offset can name.
THEOREM OthersKept ==
  ASSUME NEW memory \in Memory, NEW space \in Space, NEW offset \in Offset,
         NEW data \in Nat, NEW other \in Space, other # space, NEW register \in 0 .. 4095
  PROVE  /\ ConfigWrite8(memory, space, offset, data)[At(other, register)]
              = memory[At(other, register)]
         /\ ConfigWrite16(memory, space, offset, data)[At(other, register)]
              = memory[At(other, register)]
         /\ ConfigWrite32(memory, space, offset, data)[At(other, register)]
              = memory[At(other, register)]
<1> DEFINE a == At(space, offset)
           b == At(other, register)
<1> DEFINE x == GetConfigAddress(space)
           y == GetConfigAddress(other)
<1>0. x \in Nat /\ y \in Nat /\ (x + 4096 <= y \/ y + 4096 <= x)
  BY PagesApart
<1>1. a = x + offset /\ b = y + register /\ offset \in 0 .. 255
  BY DEF At, Offset, Byte
<1> HIDE DEF x, y
<1>2. a \in Nat /\ b \in Nat /\ b # a /\ b # a + 1 /\ b # a + 2 /\ b # a + 3
  BY <1>0, <1>1, SMT
<1> HIDE DEF a, b
<1> QED  BY <1>2, SMT DEF a, b, ConfigWrite8, ConfigWrite16, ConfigWrite32, Memory

-----------------------------------------------------------------------------
(* What the start functions are, step by step.                             *)

Takes(d, j, names) == Script[d][j].kind = "get" /\ Names(Script[d][j].what) = names
Gives(d, j, names) == Script[d][j].kind = "give" /\ Names(Script[d][j].what) = names
Waits(d, j)        == Script[d][j].kind \in {"await", "awaitFor"}

LEMMA DriversAre ==
  Drivers = {"pe", "cpu", "ic", "pci", "smc", "sata", "dvd", "ethernet", "audio", "engine", "gmt"}
BY DEF Drivers, Script

\* What the start functions that are put together from parts take.
Resources == {
  "super", "name", "pages", "registers", "bridge", "biu", "vectors", "locks", "device", "open",
  "workLoop", "mmio", "bmdma", "outputQueue", "queue", "rings", "cursors", "descriptors",
  "samples", "timer", "engine", "engineSuper", "volumeControl", "muteControl", "outputPort",
  "outputSelector", "attached"}

LEMMA Names1 ==
  (\A a : Names(<<a>>) = {a}) /\ \A S : \A a \in S : <<a>> \in Seq(S)
BY DEF Names

LEMMA Names2 ==
  (\A a, b : Names(<<a, b>>) = {a, b}) /\ \A S : \A a, b \in S : <<a, b>> \in Seq(S)
BY DEF Names

LEMMA NamesThree ==
  /\ \A a, b, c : Names(<<a, b, c>>) = {a, b, c}
  /\ \A S : \A a, b, c \in S : <<a, b, c>> \in Seq(S)
BY DEF Names

LEMMA Names4 ==
  /\ \A a, b, c, d : Names(<<a, b, c, d>>) = {a, b, c, d}
  /\ \A S : \A a, b, c, d \in S : <<a, b, c, d>> \in Seq(S)
BY DEF Names

LEMMA Names5 == \A a, b, c, d, e : Names(<<a, b, c, d, e>>) = {a, b, c, d, e}
BY DEF Names

LEMMA Names6 == \A a, b, c, d, e, f : Names(<<a, b, c, d, e, f>>) = {a, b, c, d, e, f}
BY DEF Names

LEMMA NamesTogether ==
  ASSUME NEW s \in Seq(Resources), NEW t \in Seq(Resources)
  PROVE  s \o t \in Seq(Resources) /\ Names(s \o t) = Names(s) \cup Names(t)
<1>1. s \o t \in Seq(Resources) /\ Len(s \o t) = Len(s) + Len(t)
  OBVIOUS
<1>2. \A i \in 1 .. Len(s) : (s \o t)[i] = s[i]
  OBVIOUS
<1>3. \A i \in 1 .. Len(t) : i + Len(s) \in 1 .. Len(s) + Len(t) /\ (s \o t)[i + Len(s)] = t[i]
  OBVIOUS
<1>4. \A i \in 1 .. Len(s) + Len(t) : i \in 1 .. Len(s) \/ i - Len(s) \in 1 .. Len(t)
  OBVIOUS
<1>5. ASSUME NEW w \in Names(s \o t)  PROVE w \in Names(s) \cup Names(t)
  BY <1>1, <1>2, <1>3, <1>4, SMT DEF Names
<1>6. ASSUME NEW w \in Names(s) \cup Names(t)  PROVE w \in Names(s \o t)
  BY <1>1, <1>2, <1>3, SMT DEF Names
<1> QED BY <1>1, <1>5, <1>6

LEMMA PESteps ==
  /\ Len(Script["pe"]) = 5
  /\ Takes("pe", 1, {"registers", "framebuffer", "gpuBuffer", "workLoop", "timer"})
  /\ Gives("pe", 2, {"console"})
  /\ Takes("pe", 3, {"patcher", "super"})
  /\ Gives("pe", 4, {"rootDomain", "platform", "IONVRAM"})
  /\ Waits("pe", 5)
<1>1. Script["pe"] = PEStart  BY DEF Script
<1>2. /\ Len(PEStart) = 5
      /\ PEStart[1].kind = "get" /\ PEStart[1].what = <<"registers", "framebuffer",
              "gpuBuffer", "workLoop", "timer">>
      /\ PEStart[2].kind = "give" /\ PEStart[2].what = <<"console">>
      /\ PEStart[3].kind = "get" /\ PEStart[3].what = <<"patcher", "super">>
      /\ PEStart[4].kind = "give" /\ PEStart[4].what = <<"rootDomain", "platform", "IONVRAM">>
      /\ PEStart[5].kind = "await"
  BY DEF PEStart, Get, Give, Await
<1>3. /\ Names(<<"registers", "framebuffer", "gpuBuffer", "workLoop",
              "timer">>) = {"registers", "framebuffer", "gpuBuffer", "workLoop", "timer"}
      /\ Names(<<"console">>) = {"console"}
      /\ Names(<<"patcher", "super">>) = {"patcher", "super"}
      /\ Names(<<"rootDomain", "platform", "IONVRAM">>) = {"rootDomain", "platform", "IONVRAM"}
  BY Names1, Names2, Names5, NamesThree
<1> QED BY <1>1, <1>2, <1>3 DEF Takes, Gives, Waits

LEMMA CPUSteps ==
  /\ Len(Script["cpu"]) = 6
  /\ Takes("cpu", 1, {"super", "cpus", "reg", "state", "gCPUIC", "cpuController"})
  /\ Gives("cpu", 2, {"CPUIC"})
  /\ Takes("cpu", 3, {"processor"})
  /\ Gives("cpu", 4, {"cpuInterrupts"})
  /\ Waits("cpu", 5)
  /\ Gives("cpu", 6, {"ipi"})
<1>1. Script["cpu"] = CPUStart  BY DEF Script
<1>2. /\ Len(CPUStart) = 6
      /\ CPUStart[1].kind = "get" /\ CPUStart[1].what = <<"super", "cpus", "reg", "state",
              "gCPUIC", "cpuController">>
      /\ CPUStart[2].kind = "give" /\ CPUStart[2].what = <<"CPUIC">>
      /\ CPUStart[3].kind = "get" /\ CPUStart[3].what = <<"processor">>
      /\ CPUStart[4].kind = "give" /\ CPUStart[4].what = <<"cpuInterrupts">>
      /\ CPUStart[5].kind = "await"
      /\ CPUStart[6].kind = "give" /\ CPUStart[6].what = <<"ipi">>
  BY DEF CPUStart, InitCPU, Get, Give, Await
<1>3. /\ Names(<<"super", "cpus", "reg", "state", "gCPUIC", "cpuController">>) = {"super",
              "cpus", "reg", "state", "gCPUIC", "cpuController"}
      /\ Names(<<"CPUIC">>) = {"CPUIC"}
      /\ Names(<<"processor">>) = {"processor"}
      /\ Names(<<"cpuInterrupts">>) = {"cpuInterrupts"}
      /\ Names(<<"ipi">>) = {"ipi"}
  BY Names1, Names6
<1> QED BY <1>1, <1>2, <1>3 DEF Takes, Gives, Waits

LEMMA PCISteps ==
  /\ Len(Script["pci"]) = 4
  /\ Takes("pci", 1, {"lock", "config"})
  /\ Gives("pci", 2, {"XenonPCI"})
  /\ Takes("pci", 3, {"super"})
  /\ Gives("pci", 4, {"devices"})
<1>1. Script["pci"] = PCIStart  BY DEF Script
<1>2. /\ Len(PCIStart) = 4
      /\ PCIStart[1].kind = "get" /\ PCIStart[1].what = <<"lock", "config">>
      /\ PCIStart[2].kind = "give" /\ PCIStart[2].what = <<"XenonPCI">>
      /\ PCIStart[3].kind = "get" /\ PCIStart[3].what = <<"super">>
      /\ PCIStart[4].kind = "give" /\ PCIStart[4].what = <<"devices">>
  BY DEF PCIStart, Get, Give
<1>3. /\ Names(<<"lock", "config">>) = {"lock", "config"}
      /\ Names(<<"XenonPCI">>) = {"XenonPCI"}
      /\ Names(<<"super">>) = {"super"}
      /\ Names(<<"devices">>) = {"devices"}
  BY Names1, Names2
<1> QED BY <1>1, <1>2, <1>3 DEF Takes, Gives

LEMMA SMCSteps ==
  /\ Len(Script["smc"]) = 6
  /\ Takes("smc", 1, {"super", "device", "open", "mmio", "lock", "rtcLock"})
  /\ Waits("smc", 2)
  /\ Takes("smc", 3, {"source"})
  /\ Gives("smc", 4, {"smcInterrupt"})
  /\ Gives("smc", 5, {"hooks"})
  /\ Gives("smc", 6, {"IORTC", "XenonSMC"})
<1>1. Script["smc"] = SMCStart  BY DEF Script
<1>2. /\ Len(SMCStart) = 6
      /\ SMCStart[1].kind = "get" /\ SMCStart[1].what = <<"super", "device", "open", "mmio",
              "lock", "rtcLock">>
      /\ SMCStart[2].kind = "await"
      /\ SMCStart[3].kind = "get" /\ SMCStart[3].what = <<"source">>
      /\ SMCStart[4].kind = "give" /\ SMCStart[4].what = <<"smcInterrupt">>
      /\ SMCStart[5].kind = "give" /\ SMCStart[5].what = <<"hooks">>
      /\ SMCStart[6].kind = "give" /\ SMCStart[6].what = <<"IORTC", "XenonSMC">>
  BY DEF SMCStart, Get, Await, Give
<1>3. /\ Names(<<"super", "device", "open", "mmio", "lock", "rtcLock">>) = {"super", "device",
              "open", "mmio", "lock", "rtcLock"}
      /\ Names(<<"source">>) = {"source"}
      /\ Names(<<"smcInterrupt">>) = {"smcInterrupt"}
      /\ Names(<<"hooks">>) = {"hooks"}
      /\ Names(<<"IORTC", "XenonSMC">>) = {"IORTC", "XenonSMC"}
  BY Names1, Names2, Names6
<1> QED BY <1>1, <1>2, <1>3 DEF Takes, Gives, Waits

LEMMA DVDSteps ==
  /\ Len(Script["dvd"]) = 2
  /\ Waits("dvd", 1)
  /\ Takes("dvd", 2, {"super"})
<1>1. Script["dvd"] = DVDStart  BY DEF Script
<1>2. /\ Len(DVDStart) = 2
      /\ DVDStart[1].kind = "awaitFor"
      /\ DVDStart[2].kind = "get" /\ DVDStart[2].what = <<"super">>
  BY DEF DVDStart, AwaitFor, Get
<1>3. /\ Names(<<"super">>) = {"super"}
  BY Names1
<1> QED BY <1>1, <1>2, <1>3 DEF Takes, Waits

LEMMA EngineSteps ==
  /\ Len(Script["engine"]) = 2
  /\ Takes("engine", 1, {"super", "audioStream", "streamInit"})
  /\ \A i \in 1 .. Len(Script["engine"][1].what) - 1 : Script["engine"][1].what[i] # "streamInit"
  /\ Gives("engine", 2, {"sound"})
<1>1. Script["engine"] = EngineInitHardware  BY DEF Script
<1>2. /\ Len(EngineInitHardware) = 2
      /\ EngineInitHardware[1].kind = "get" /\ EngineInitHardware[1].what = <<"super",
              "audioStream", "streamInit">>
      /\ EngineInitHardware[2].kind = "give" /\ EngineInitHardware[2].what = <<"sound">>
  BY DEF EngineInitHardware, Get, Give
<1>3. /\ Names(<<"super", "audioStream", "streamInit">>) = {"super", "audioStream",
              "streamInit"}
      /\ Names(<<"sound">>) = {"sound"}
  BY Names1, NamesThree
<1> QED BY <1>1, <1>2, <1>3 DEF Takes, Gives

LEMMA GMTSteps == Len(Script["gmt"]) = 1 /\ Waits("gmt", 1)
<1>1. Script["gmt"] = GetGMTTimeOfDay  BY DEF Script
<1> QED BY <1>1 DEF GetGMTTimeOfDay, AwaitFor, Waits

LEMMA ICSteps ==
  /\ Len(Script["ic"]) = 4
  /\ Takes("ic", 1, {"super", "name", "pages", "registers", "bridge", "biu", "vectors",
                     "locks"})
  /\ Waits("ic", 2)
  /\ Waits("ic", 3)
  /\ Gives("ic", 4, {"XenonIC"})
<1>1. Script["ic"] = ICStart  BY DEF Script
<1> DEFINE a == <<"super", "name">>
           b == MapMemory
           c == <<"bridge", "biu", "vectors", "locks">>
<1>2. /\ a \in Seq(Resources)
      /\ b \in Seq(Resources)
      /\ c \in Seq(Resources)
  BY Names2, Names4 DEF MapMemory, Resources
<1>0. /\ Names(a) = {"super", "name"}
      /\ Names(b) = {"pages", "registers"}
      /\ Names(c) = {"bridge", "biu", "vectors", "locks"}
  BY Names2, Names4 DEF MapMemory
<1>3. /\ Len(ICStart) = 4
      /\ ICStart[1].kind = "get" /\ ICStart[1].what = a \o b \o c
      /\ ICStart[2].kind = "await"
      /\ ICStart[3].kind = "await"
      /\ ICStart[4].kind = "give" /\ ICStart[4].what = <<"XenonIC">>
  BY DEF ICStart, Get, Await, Give
<1> HIDE DEF a, b, c
<1>4. /\ a \o b \in Seq(Resources)
      /\ Names(a \o b) = {"super", "name", "pages", "registers"}
  <2>1. /\ a \o b \in Seq(Resources)
        /\ Names(a \o b) = Names(a) \cup Names(b)
    BY <1>2, NamesTogether
  <2> QED BY <1>0, <2>1
<1>5. /\ a \o b \o c \in Seq(Resources)
      /\ Names(a \o b \o c) = {"super", "name", "pages", "registers", "bridge", "biu",
                               "vectors", "locks"}
  <2>1. /\ a \o b \o c \in Seq(Resources)
        /\ Names(a \o b \o c) = Names(a \o b) \cup Names(c)
    BY <1>2, <1>4, NamesTogether
  <2> QED BY <1>0, <1>4, <2>1
<1>6. /\ Names(<<"XenonIC">>) = {"XenonIC"}
  BY Names1
<1> QED BY <1>1, <1>3, <1>5, <1>6 DEF Takes, Gives, Waits

LEMMA SATASteps ==
  /\ Len(Script["sata"]) = 5
  /\ Takes("sata", 1, {"device", "open", "workLoop", "mmio", "bmdma", "super"})
  /\ Waits("sata", 2)
  /\ Takes("sata", 3, {"source"})
  /\ Gives("sata", 4, {"sataInterrupt"})
  /\ Gives("sata", 5, {"drives"})
<1>1. Script["sata"] = SATAStart  BY DEF Script
<1> DEFINE a == <<"device", "open">>
           b == SATAGetWorkLoop
           c == ConfigureTFPointers
           e == <<"super">>
<1>2. /\ a \in Seq(Resources)
      /\ b \in Seq(Resources)
      /\ c \in Seq(Resources)
      /\ e \in Seq(Resources)
  BY Names1, Names2 DEF SATAGetWorkLoop, ConfigureTFPointers, Resources
<1>0. /\ Names(a) = {"device", "open"}
      /\ Names(b) = {"workLoop"}
      /\ Names(c) = {"mmio", "bmdma"}
      /\ Names(e) = {"super"}
  BY Names1, Names2 DEF SATAGetWorkLoop, ConfigureTFPointers
<1>3. /\ Len(SATAStart) = 5
      /\ SATAStart[1].kind = "get" /\ SATAStart[1].what = a \o b \o c \o e
      /\ SATAStart[2].kind = "await"
      /\ SATAStart[3].kind = "get" /\ SATAStart[3].what = <<"source">>
      /\ SATAStart[4].kind = "give" /\ SATAStart[4].what = <<"sataInterrupt">>
      /\ SATAStart[5].kind = "give" /\ SATAStart[5].what = <<"drives">>
  BY DEF SATAStart, Get, Await, Give
<1> HIDE DEF a, b, c, e
<1>4. /\ a \o b \in Seq(Resources)
      /\ Names(a \o b) = {"device", "open", "workLoop"}
  <2>1. /\ a \o b \in Seq(Resources)
        /\ Names(a \o b) = Names(a) \cup Names(b)
    BY <1>2, NamesTogether
  <2> QED BY <1>0, <2>1
<1>5. /\ a \o b \o c \in Seq(Resources)
      /\ Names(a \o b \o c) = {"device", "open", "workLoop", "mmio", "bmdma"}
  <2>1. /\ a \o b \o c \in Seq(Resources)
        /\ Names(a \o b \o c) = Names(a \o b) \cup Names(c)
    BY <1>2, <1>4, NamesTogether
  <2> QED BY <1>0, <1>4, <2>1
<1>6. /\ a \o b \o c \o e \in Seq(Resources)
      /\ Names(a \o b \o c \o e) = {"device", "open", "workLoop", "mmio", "bmdma", "super"}
  <2>1. /\ a \o b \o c \o e \in Seq(Resources)
        /\ Names(a \o b \o c \o e) = Names(a \o b \o c) \cup Names(e)
    BY <1>2, <1>5, NamesTogether
  <2> QED BY <1>0, <1>5, <2>1
<1>7. /\ Names(<<"source">>) = {"source"}
      /\ Names(<<"sataInterrupt">>) = {"sataInterrupt"}
      /\ Names(<<"drives">>) = {"drives"}
  BY Names1
<1> QED BY <1>1, <1>3, <1>6, <1>7 DEF Takes, Gives, Waits

LEMMA EthernetSteps ==
  /\ Len(Script["ethernet"]) = 5
  /\ Takes("ethernet", 1, {"device", "workLoop", "outputQueue", "super", "mmio", "queue",
                           "rings", "cursors"})
  /\ Waits("ethernet", 2)
  /\ Takes("ethernet", 3, {"source"})
  /\ Gives("ethernet", 4, {"ethernetInterrupt"})
  /\ Takes("ethernet", 5, {"phy", "mediums", "interface"})
<1>1. Script["ethernet"] = EthernetStart  BY DEF Script
<1> DEFINE a == <<"device">>
           b == CreateWorkLoop
           c == CreateOutputQueue
           e == <<"super", "mmio", "queue">>
           f == AllocateTxRxBuffers
<1>2. /\ a \in Seq(Resources)
      /\ b \in Seq(Resources)
      /\ c \in Seq(Resources)
      /\ e \in Seq(Resources)
      /\ f \in Seq(Resources)
  BY Names1, Names2, NamesThree DEF CreateWorkLoop, CreateOutputQueue, AllocateTxRxBuffers, Resources
<1>0. /\ Names(a) = {"device"}
      /\ Names(b) = {"workLoop"}
      /\ Names(c) = {"outputQueue"}
      /\ Names(e) = {"super", "mmio", "queue"}
      /\ Names(f) = {"rings", "cursors"}
  BY Names1, Names2, NamesThree DEF CreateWorkLoop, CreateOutputQueue, AllocateTxRxBuffers
<1>3. /\ Len(EthernetStart) = 5
      /\ EthernetStart[1].kind = "get" /\ EthernetStart[1].what = a \o b \o c \o e \o f
      /\ EthernetStart[2].kind = "await"
      /\ EthernetStart[3].kind = "get" /\ EthernetStart[3].what = <<"source">>
      /\ EthernetStart[4].kind = "give" /\ EthernetStart[4].what = <<"ethernetInterrupt">>
      /\ EthernetStart[5].kind = "get" /\ EthernetStart[5].what = <<"phy", "mediums",
              "interface">>
  BY DEF EthernetStart, Get, Await, Give
<1> HIDE DEF a, b, c, e, f
<1>4. /\ a \o b \in Seq(Resources)
      /\ Names(a \o b) = {"device", "workLoop"}
  <2>1. /\ a \o b \in Seq(Resources)
        /\ Names(a \o b) = Names(a) \cup Names(b)
    BY <1>2, NamesTogether
  <2> QED BY <1>0, <2>1
<1>5. /\ a \o b \o c \in Seq(Resources)
      /\ Names(a \o b \o c) = {"device", "workLoop", "outputQueue"}
  <2>1. /\ a \o b \o c \in Seq(Resources)
        /\ Names(a \o b \o c) = Names(a \o b) \cup Names(c)
    BY <1>2, <1>4, NamesTogether
  <2> QED BY <1>0, <1>4, <2>1
<1>6. /\ a \o b \o c \o e \in Seq(Resources)
      /\ Names(a \o b \o c \o e) = {"device", "workLoop", "outputQueue", "super", "mmio",
                                    "queue"}
  <2>1. /\ a \o b \o c \o e \in Seq(Resources)
        /\ Names(a \o b \o c \o e) = Names(a \o b \o c) \cup Names(e)
    BY <1>2, <1>5, NamesTogether
  <2> QED BY <1>0, <1>5, <2>1
<1>7. /\ a \o b \o c \o e \o f \in Seq(Resources)
      /\ Names(a \o b \o c \o e \o f) = {"device", "workLoop", "outputQueue", "super", "mmio",
                                         "queue", "rings", "cursors"}
  <2>1. /\ a \o b \o c \o e \o f \in Seq(Resources)
        /\ Names(a \o b \o c \o e \o f) = Names(a \o b \o c \o e) \cup Names(f)
    BY <1>2, <1>6, NamesTogether
  <2> QED BY <1>0, <1>6, <2>1
<1>8. /\ Names(<<"source">>) = {"source"}
      /\ Names(<<"ethernetInterrupt">>) = {"ethernetInterrupt"}
      /\ Names(<<"phy", "mediums", "interface">>) = {"phy", "mediums", "interface"}
  BY Names1, NamesThree
<1> QED BY <1>1, <1>3, <1>7, <1>8 DEF Takes, Gives, Waits

AudioParts ==
  {"super", "device", "mmio"} \cup {"descriptors", "samples"} \cup {"timer"}
    \cup ({"engine"} \cup ({"engineSuper"} \cup {"volumeControl", "muteControl"}))
    \cup {"outputPort", "outputSelector", "attached"}

LEMMA AudioSteps ==
  /\ Len(Script["audio"]) = 3
  /\ Takes("audio", 1, AudioParts)
  /\ Script["audio"][1].what \in Seq(Resources)
  /\ \A i \in 1 .. Len(Script["audio"][1].what) - 1 : Script["audio"][1].what[i] # "attached"
  /\ Waits("audio", 2)
  /\ Gives("audio", 3, {"activated"})
<1>1. Script["audio"] = AudioStart  BY DEF Script
<1> DEFINE a == <<"super", "device", "mmio">>
           b == AllocateSampleDescriptors
           t == <<"timer">>
           e == <<"engine">>
           m == <<"engineSuper">>
           c == CreateControls
           p == CreateAudioPorts
           z == a \o b \o t \o (e \o (m \o c))
           all == z \o p
<1>2. /\ a \in Seq(Resources) /\ b \in Seq(Resources) /\ t \in Seq(Resources)
      /\ e \in Seq(Resources) /\ m \in Seq(Resources) /\ c \in Seq(Resources)
      /\ p \in Seq(Resources)
  BY Names1, Names2, NamesThree
     DEF CreateControls, AllocateSampleDescriptors, CreateAudioPorts, Resources
<1>0. /\ Names(a) = {"super", "device", "mmio"} /\ Names(b) = {"descriptors", "samples"}
      /\ Names(t) = {"timer"} /\ Names(e) = {"engine"} /\ Names(m) = {"engineSuper"}
      /\ Names(c) = {"volumeControl", "muteControl"}
      /\ Names(p) = {"outputPort", "outputSelector", "attached"}
  BY Names1, Names2, NamesThree DEF CreateControls, AllocateSampleDescriptors, CreateAudioPorts
<1>3. Len(p) = 3 /\ p[1] = "outputPort" /\ p[2] = "outputSelector"
  BY DEF CreateAudioPorts
<1>4. AudioStart = <<Get(all)>> \o SetAudioMute \o <<Give(<<"activated">>)>>
  BY DEF AudioStart, CreateAudioEngine, EngineInit
<1> HIDE DEF all
<1>5. /\ Len(AudioStart) = 3
      /\ AudioStart[1] = Get(all) /\ AudioStart[2] = AwaitFor("XenonSMC")
      /\ AudioStart[3] = Give(<<"activated">>)
  BY <1>4 DEF SetAudioMute
<1> USE DEF all
<1> HIDE DEF a, b, t, e, m, c, p, z
<1>6. m \o c \in Seq(Resources) /\ Names(m \o c) = Names(m) \cup Names(c)
  BY <1>2, NamesTogether
<1>7. e \o (m \o c) \in Seq(Resources) /\ Names(e \o (m \o c)) = Names(e) \cup Names(m \o c)
  BY <1>2, <1>6, NamesTogether
<1>8. a \o b \in Seq(Resources) /\ Names(a \o b) = Names(a) \cup Names(b)
  BY <1>2, NamesTogether
<1>9. a \o b \o t \in Seq(Resources) /\ Names(a \o b \o t) = Names(a \o b) \cup Names(t)
  BY <1>2, <1>8, NamesTogether
<1>10. z \in Seq(Resources) /\ Names(z) = Names(a \o b \o t) \cup Names(e \o (m \o c))
  BY <1>7, <1>9, NamesTogether DEF z
<1>11. all \in Seq(Resources) /\ Names(all) = Names(z) \cup Names(p)
  BY <1>2, <1>10, NamesTogether
<1>12. Names(all) = AudioParts
  <2>1. Names(all) = Names(a) \cup Names(b) \cup Names(t)
                       \cup (Names(e) \cup (Names(m) \cup Names(c))) \cup Names(p)
    BY <1>6, <1>7, <1>8, <1>9, <1>10, <1>11, Zenon
  <2> QED BY <1>0, <2>1, Zenon DEF AudioParts
<1>13. "attached" \notin Names(z)
  BY <1>0, <1>6, <1>7, <1>8, <1>9, <1>10
<1>14. Len(z) \in Nat /\ Len(all) = Len(z) + 3
  <2>1. Len(z) \in Nat /\ Len(z \o p) = Len(z) + Len(p)  BY <1>2, <1>10
  <2> QED BY <1>3, <2>1, Zenon
<1>15. \A i \in 1 .. Len(all) - 1 : all[i] # "attached"
  <2> SUFFICES ASSUME NEW i \in 1 .. Len(all) - 1  PROVE all[i] # "attached"
    OBVIOUS
  <2>1. CASE i \in 1 .. Len(z)
    <3>1. all[i] = z[i]  BY <1>2, <1>10, <2>1
    <3>2. z[i] \in Names(z)  BY <2>1 DEF Names
    <3> QED BY <1>13, <3>1, <3>2
  <2>2. CASE i = Len(z) + 1
    <3>1. all[i] = p[1]  BY <1>2, <1>3, <1>10, <1>14, <2>2
    <3> QED BY <1>3, <3>1
  <2>3. CASE i = Len(z) + 2
    <3>1. all[i] = p[2]  BY <1>2, <1>3, <1>10, <1>14, <2>3
    <3> QED BY <1>3, <3>1
  <2> QED BY <1>14, <2>1, <2>2, <2>3
<1> HIDE DEF all
<1>16. /\ AudioStart[1].kind = "get" /\ AudioStart[1].what = all
       /\ AudioStart[2].kind = "awaitFor"
       /\ AudioStart[3].kind = "give" /\ AudioStart[3].what = <<"activated">>
  BY <1>5 DEF Get, Give, AwaitFor
<1>17. Names(<<"activated">>) = {"activated"}  BY Names1
<1> QED
  BY <1>1, <1>5, <1>11, <1>12, <1>15, <1>16, <1>17 DEF Takes, Gives, Waits

-----------------------------------------------------------------------------
(* The start functions.                                                    *)

\* The steps a driver has behind it.
Done(d) == 1 .. at[d] - 1

\* What a failed start may lose.
Lost(d) == IF d \in failed THEN Free(d) \cup UNION Together ELSE {}

\* What the free functions leave behind.
FreedOf == \A d \in failed \cap DOMAIN LeftAfterFailure : held[d] \subseteq LeftAfterFailure[d]

\* A driver has given and taken what the steps behind it say, and nothing else;
\* one that failed is still at the step that takes what it did not get.
StartInv ==
  /\ DOMAIN at = Drivers /\ DOMAIN held = Drivers
  /\ \A d \in Drivers : at[d] \in 1 .. Len(Script[d]) + 1
  /\ \A w \in world \ {"root"} :
       \E d \in Drivers : \E j \in Done(d) : Script[d][j].kind = "give" /\ w \in Names(Script[d][j].what)
  /\ \A d \in Drivers : \A j \in Done(d) :
       Script[d][j].kind = "give" => Names(Script[d][j].what) \subseteq world
  /\ \A d \in Drivers : \A j \in Done(d) :
       Script[d][j].kind = "get" => Names(Script[d][j].what) \ Lost(d) \subseteq held[d]
  /\ \A d \in Drivers \ failed : \A r \in held[d] :
       \E j \in Done(d) : Script[d][j].kind = "get" /\ r \in Names(Script[d][j].what)
  /\ \A d \in failed : d \in Drivers /\ at[d] <= Len(Script[d]) /\ Script[d][at[d]].kind = "get"
  /\ \A d \in Drivers : at[d] > 1 => Provider[d] \in world
  /\ FreedOf

LEMMA LengthsAre == \A d \in Drivers : Len(Script[d]) \in Nat
BY DriversAre, PESteps, CPUSteps, ICSteps, PCISteps, SMCSteps, SATASteps, DVDSteps, EthernetSteps,
   AudioSteps, EngineSteps, GMTSteps, SMT

\* Who gives what, at which step.
GivenAt == {
  <<"pe", 2, "console">>, <<"pe", 4, "rootDomain">>, <<"pe", 4, "platform">>,
  <<"pe", 4, "IONVRAM">>, <<"cpu", 2, "CPUIC">>, <<"cpu", 4, "cpuInterrupts">>,
  <<"cpu", 6, "ipi">>, <<"ic", 4, "XenonIC">>, <<"pci", 2, "XenonPCI">>, <<"pci", 4, "devices">>,
  <<"smc", 4, "smcInterrupt">>, <<"smc", 5, "hooks">>, <<"smc", 6, "IORTC">>,
  <<"smc", 6, "XenonSMC">>, <<"sata", 4, "sataInterrupt">>, <<"sata", 5, "drives">>,
  <<"ethernet", 4, "ethernetInterrupt">>, <<"audio", 3, "activated">>,
  <<"engine", 2, "sound">>}

LEMMA Givers ==
  ASSUME NEW d \in Drivers, NEW j \in 1 .. Len(Script[d]), Script[d][j].kind = "give",
         NEW w \in Names(Script[d][j].what)
  PROVE  <<d, j, w>> \in GivenAt
<1>1. CASE d = "pe"
  BY <1>1, PESteps, SMT DEF Takes, Gives, Waits, GivenAt
<1>2. CASE d = "cpu"
  BY <1>2, CPUSteps, SMT DEF Takes, Gives, Waits, GivenAt
<1>3. CASE d = "ic"
  BY <1>3, ICSteps, SMT DEF Takes, Gives, Waits, GivenAt
<1>4. CASE d = "pci"
  BY <1>4, PCISteps, SMT DEF Takes, Gives, Waits, GivenAt
<1>5. CASE d = "smc"
  BY <1>5, SMCSteps, SMT DEF Takes, Gives, Waits, GivenAt
<1>6. CASE d = "sata"
  BY <1>6, SATASteps, SMT DEF Takes, Gives, Waits, GivenAt
<1>7. CASE d = "dvd"
  BY <1>7, DVDSteps, SMT DEF Takes, Gives, Waits, GivenAt
<1>8. CASE d = "ethernet"
  BY <1>8, EthernetSteps, SMT DEF Takes, Gives, Waits, GivenAt
<1>9. CASE d = "audio"
  BY <1>9, AudioSteps, SMT DEF Takes, Gives, Waits, GivenAt
<1>10. CASE d = "engine"
  BY <1>10, EngineSteps, SMT DEF Takes, Gives, Waits, GivenAt
<1>11. CASE d = "gmt"
  BY <1>11, GMTSteps, SMT DEF Takes, Gives, Waits, GivenAt
<1> QED
  BY <1>1, <1>2, <1>3, <1>4, <1>5, <1>6, <1>7, <1>8, <1>9, <1>10, <1>11, DriversAre, Zenon

LEMMA LeavesAre ==
  /\ DOMAIN LeftAfterFailure = {"smc", "sata", "pci", "dvd", "engine", "audio"}
  /\ LeftAfterFailure["smc"] = {"open"} /\ LeftAfterFailure["sata"] = {"open"}
  /\ LeftAfterFailure["pci"] = {} /\ LeftAfterFailure["dvd"] = {}
  /\ LeftAfterFailure["engine"] = {}
  /\ LeftAfterFailure["audio"] = {"timer", "outputSelector"} \cup EngineParts
BY DEF LeftAfterFailure

\* These free functions release all that their steps took, but what they leave.
LEMMA FreeGivesBack ==
  ASSUME NEW d \in {"smc", "pci", "sata", "dvd"}, NEW j \in 1 .. Len(Script[d]),
         Script[d][j].kind = "get"
  PROVE  Names(Script[d][j].what) \ Free(d) \subseteq LeftAfterFailure[d]
<1>1. CASE d = "smc"
  BY <1>1, SMCSteps, LeavesAre, SMT DEF Takes, Gives, Waits, Free, SMCFree
<1>2. CASE d = "pci"
  BY <1>2, PCISteps, LeavesAre, SMT DEF Takes, Gives, Waits, Free, PCIFree
<1>3. CASE d = "sata"
  BY <1>3, SATASteps, LeavesAre, SMT DEF Takes, Gives, Waits, Free, SATAFree
<1>4. CASE d = "dvd"
  BY <1>4, DVDSteps, LeavesAre, SMT DEF Takes, Gives, Waits, Free, DVDFree
<1> QED BY <1>1, <1>2, <1>3, <1>4

\* What the steps of the others take is given back by no free(), and by no function
\* that fails half-way.
LEMMA KeepsAll ==
  ASSUME NEW d \in {"pe", "cpu", "ic", "ethernet", "gmt"}, NEW j \in 1 .. Len(Script[d]),
         Script[d][j].kind = "get"
  PROVE  Names(Script[d][j].what) \cap (Free(d) \cup UNION Together) \subseteq {"super"}
<1>1. Free(d) = {"super"}
  BY DEF Free, EthernetFree
<1>2. UNION Together = EngineParts \cup {"outputPort", "attached", "audioStream", "streamInit"}
  BY DEF Together
<1>3. CASE d = "pe"
  BY <1>1, <1>2, <1>3, PESteps, SMT DEF Takes, Gives, Waits, EngineParts
<1>4. CASE d = "cpu"
  BY <1>1, <1>2, <1>4, CPUSteps, SMT DEF Takes, Gives, Waits, EngineParts
<1>5. CASE d = "ic"
  BY <1>1, <1>2, <1>5, ICSteps, SMT DEF Takes, Gives, Waits, EngineParts
<1>6. CASE d = "ethernet"
  BY <1>1, <1>2, <1>6, EthernetSteps, SMT DEF Takes, Gives, Waits, EngineParts
<1>7. CASE d = "gmt"
  BY <1>7, GMTSteps, SMT DEF Waits
<1> QED BY <1>3, <1>4, <1>5, <1>6, <1>7

LEMMA PrefixNames ==
  ASSUME NEW s, NEW k \in 0 .. Len(s) - 1, Len(s) \in Nat
  PROVE  Names(SubSeq(s, 1, k)) = {s[i] : i \in 1 .. k}
<1>1. Len(SubSeq(s, 1, k)) = k /\ \A i \in 1 .. k : SubSeq(s, 1, k)[i] = s[i]
  OBVIOUS
<1> QED BY <1>1 DEF Names

LEMMA StartBegins == StartInit => StartInv
<1> SUFFICES ASSUME StartInit  PROVE StartInv
  OBVIOUS
<1>1. DOMAIN at = Drivers /\ DOMAIN held = Drivers /\ \A d \in Drivers : at[d] = 1 /\ held[d] = {}
  BY DEF StartInit
<1>2. \A d \in Drivers : Done(d) = {}
  BY <1>1 DEF Done
<1>3. world = {"root"} /\ failed = {}
  BY DEF StartInit
<1> QED
  BY <1>1, <1>2, <1>3, LengthsAre DEF StartInv, FreedOf

\* A step that neither fails nor takes nor gives.
LEMMA WaitKeeps ==
  ASSUME StartInv, NEW d \in Drivers, Arrive(d) \/ TimeOut(d)
  PROVE  StartInv'
<1>1. /\ Running(d) /\ Step(d).kind \in {"await", "awaitFor"}
      /\ at' = [at EXCEPT ![d] = @ + 1] /\ held' = held /\ world' = world /\ failed' = failed
  BY DEF Arrive, TimeOut, Advance
<1>2. DOMAIN at' = Drivers /\ at'[d] = at[d] + 1 /\ \A e \in Drivers \ {d} : at'[e] = at[e]
  BY <1>1 DEF StartInv
<1>3. at[d] \in 1 .. Len(Script[d]) /\ at[d] \in Nat /\ d \notin failed /\ Provider[d] \in world
  BY <1>1, LengthsAre DEF StartInv, Running
<1>4. \A e \in Drivers : Done(e) \subseteq Done(e)'
  BY <1>2, <1>3 DEF Done, StartInv
<1>5. \A e \in Drivers : \A j \in Done(e)' : j \in Done(e) \/ (e = d /\ j = at[d])
  BY <1>2, <1>3 DEF Done, StartInv
<1>6. Script[d][at[d]].kind \notin {"get", "give"}
  BY <1>1 DEF Step
<1>7. \A e \in Drivers : Lost(e)' = Lost(e)
  BY <1>1 DEF Lost
<1>8. \A e \in Drivers : at'[e] \in 1 .. Len(Script[e]) + 1
  BY <1>2, <1>3, LengthsAre DEF StartInv
<1>9. \A w \in world' \ {"root"} : \E e \in Drivers : \E j \in Done(e)' :
         Script[e][j].kind = "give" /\ w \in Names(Script[e][j].what)
  BY <1>1, <1>4 DEF StartInv
<1>10. \A e \in Drivers : \A j \in Done(e)' :
         Script[e][j].kind = "give" => Names(Script[e][j].what) \subseteq world'
  BY <1>1, <1>5, <1>6 DEF StartInv
<1>11. \A e \in Drivers : \A j \in Done(e)' :
         Script[e][j].kind = "get" => Names(Script[e][j].what) \ Lost(e)' \subseteq held'[e]
  BY <1>1, <1>5, <1>6, <1>7 DEF StartInv
<1>12. \A e \in Drivers \ failed' : \A r \in held'[e] :
         \E j \in Done(e)' : Script[e][j].kind = "get" /\ r \in Names(Script[e][j].what)
  BY <1>1, <1>4 DEF StartInv
<1>13. \A e \in failed' : e \in Drivers /\ at'[e] <= Len(Script[e]) /\ Script[e][at'[e]].kind = "get"
  BY <1>1, <1>2, <1>3 DEF StartInv
<1>14. \A e \in Drivers : at'[e] > 1 => Provider[e] \in world'
  BY <1>1, <1>2, <1>3 DEF StartInv
<1>15. FreedOf'
  BY <1>1 DEF StartInv, FreedOf
<1> QED
  BY <1>1, <1>2, <1>8, <1>9, <1>10, <1>11, <1>12, <1>13, <1>14, <1>15, Zenon DEF StartInv

LEMMA AcquireKeeps ==
  ASSUME StartInv, NEW d \in Drivers, Acquire(d)
  PROVE  StartInv'
<1> DEFINE new == Names(Script[d][at[d]].what)
<1>1. /\ Running(d) /\ Script[d][at[d]].kind = "get"
      /\ at' = [at EXCEPT ![d] = @ + 1] /\ held' = [held EXCEPT ![d] = @ \cup new]
      /\ world' = world /\ failed' = failed
  BY DEF Acquire, Advance, Step
<1> HIDE DEF new
<1>2. DOMAIN at' = Drivers /\ at'[d] = at[d] + 1 /\ \A e \in Drivers \ {d} : at'[e] = at[e]
  BY <1>1 DEF StartInv
<1>21. DOMAIN held' = Drivers /\ held'[d] = held[d] \cup new /\ \A e \in Drivers \ {d} : held'[e] = held[e]
  BY <1>1 DEF StartInv
<1>3. at[d] \in 1 .. Len(Script[d]) /\ at[d] \in Nat /\ d \notin failed /\ Provider[d] \in world
  BY <1>1, LengthsAre DEF StartInv, Running
<1>4. \A e \in Drivers : Done(e) \subseteq Done(e)'
  BY <1>2, <1>3 DEF Done, StartInv
<1>5. \A e \in Drivers : \A j \in Done(e)' : j \in Done(e) \/ (e = d /\ j = at[d])
  BY <1>2, <1>3 DEF Done, StartInv
<1>6. at[d] \in Done(d)'
  BY <1>2, <1>3 DEF Done
<1>7. \A e \in Drivers : Lost(e)' = Lost(e)
  BY <1>1 DEF Lost
<1>8. \A e \in Drivers : at'[e] \in 1 .. Len(Script[e]) + 1
  BY <1>2, <1>3, LengthsAre DEF StartInv
<1>9. \A w \in world' \ {"root"} : \E e \in Drivers : \E j \in Done(e)' :
         Script[e][j].kind = "give" /\ w \in Names(Script[e][j].what)
  BY <1>1, <1>4 DEF StartInv
<1>10. \A e \in Drivers : \A j \in Done(e)' :
         Script[e][j].kind = "give" => Names(Script[e][j].what) \subseteq world'
  BY <1>1, <1>5 DEF StartInv
<1>11. \A e \in Drivers : \A j \in Done(e)' :
         Script[e][j].kind = "get" => Names(Script[e][j].what) \ Lost(e)' \subseteq held'[e]
  <2> SUFFICES ASSUME NEW e \in Drivers, NEW j \in Done(e)', Script[e][j].kind = "get"
               PROVE Names(Script[e][j].what) \ Lost(e) \subseteq held'[e]
    BY <1>7
  <2>1. held[e] \subseteq held'[e]  BY <1>21
  <2>2. CASE j \in Done(e)
    BY <2>1, <2>2 DEF StartInv
  <2>3. CASE e = d /\ j = at[d]
    BY <2>3, <1>21 DEF new
  <2> QED BY <1>5, <2>2, <2>3
<1>12. \A e \in Drivers \ failed' : \A r \in held'[e] :
         \E j \in Done(e)' : Script[e][j].kind = "get" /\ r \in Names(Script[e][j].what)
  <2> SUFFICES ASSUME NEW e \in Drivers \ failed, NEW r \in held'[e]
               PROVE \E j \in Done(e)' : Script[e][j].kind = "get" /\ r \in Names(Script[e][j].what)
    BY <1>1
  <2>1. CASE r \in held[e]
    BY <2>1, <1>4 DEF StartInv
  <2>2. CASE e = d /\ r \in new
    BY <2>2, <1>1, <1>6 DEF new
  <2> QED BY <1>21, <2>1, <2>2
<1>13. \A e \in failed' : e \in Drivers /\ at'[e] <= Len(Script[e]) /\ Script[e][at'[e]].kind = "get"
  BY <1>1, <1>2, <1>3 DEF StartInv
<1>14. \A e \in Drivers : at'[e] > 1 => Provider[e] \in world'
  BY <1>1, <1>2, <1>3 DEF StartInv
<1>15. FreedOf'
  <2>1. \A e \in failed : held'[e] = held[e]
    BY <1>3, <1>21 DEF StartInv
  <2> QED BY <2>1, <1>1 DEF StartInv, FreedOf
<1> QED
  BY <1>1, <1>2, <1>21, <1>8, <1>9, <1>10, <1>11, <1>12, <1>13, <1>14, <1>15, Zenon DEF StartInv

LEMMA PublishKeeps ==
  ASSUME StartInv, NEW d \in Drivers, Publish(d)
  PROVE  StartInv'
<1> DEFINE new == Names(Script[d][at[d]].what)
<1>1. /\ Running(d) /\ Script[d][at[d]].kind = "give"
      /\ at' = [at EXCEPT ![d] = @ + 1] /\ world' = world \cup new
      /\ held' = held /\ failed' = failed
  BY DEF Publish, Advance, Step
<1> HIDE DEF new
<1>2. DOMAIN at' = Drivers /\ at'[d] = at[d] + 1 /\ \A e \in Drivers \ {d} : at'[e] = at[e]
  BY <1>1 DEF StartInv
<1>3. at[d] \in 1 .. Len(Script[d]) /\ at[d] \in Nat /\ d \notin failed /\ Provider[d] \in world
  BY <1>1, LengthsAre DEF StartInv, Running
<1>4. \A e \in Drivers : Done(e) \subseteq Done(e)'
  BY <1>2, <1>3 DEF Done, StartInv
<1>5. \A e \in Drivers : \A j \in Done(e)' : j \in Done(e) \/ (e = d /\ j = at[d])
  BY <1>2, <1>3 DEF Done, StartInv
<1>6. at[d] \in Done(d)'
  BY <1>2, <1>3 DEF Done
<1>7. \A e \in Drivers : Lost(e)' = Lost(e)
  BY <1>1 DEF Lost
<1>8. \A e \in Drivers : at'[e] \in 1 .. Len(Script[e]) + 1
  BY <1>2, <1>3, LengthsAre DEF StartInv
<1>9. \A w \in world' \ {"root"} : \E e \in Drivers : \E j \in Done(e)' :
         Script[e][j].kind = "give" /\ w \in Names(Script[e][j].what)
  <2> SUFFICES ASSUME NEW w \in world' \ {"root"}
               PROVE \E e \in Drivers : \E j \in Done(e)' :
                       Script[e][j].kind = "give" /\ w \in Names(Script[e][j].what)
    OBVIOUS
  <2>1. CASE w \in world
    BY <2>1, <1>4 DEF StartInv
  <2>2. CASE w \in new
    BY <2>2, <1>1, <1>6 DEF new
  <2> QED BY <1>1, <2>1, <2>2
<1>10. \A e \in Drivers : \A j \in Done(e)' :
         Script[e][j].kind = "give" => Names(Script[e][j].what) \subseteq world'
  <2> SUFFICES ASSUME NEW e \in Drivers, NEW j \in Done(e)', Script[e][j].kind = "give"
               PROVE Names(Script[e][j].what) \subseteq world'
    OBVIOUS
  <2>1. CASE j \in Done(e)
    BY <2>1, <1>1 DEF StartInv
  <2>2. CASE e = d /\ j = at[d]
    BY <2>2, <1>1 DEF new
  <2> QED BY <1>5, <2>1, <2>2
<1>11. \A e \in Drivers : \A j \in Done(e)' :
         Script[e][j].kind = "get" => Names(Script[e][j].what) \ Lost(e)' \subseteq held'[e]
  BY <1>1, <1>5, <1>7 DEF StartInv
<1>12. \A e \in Drivers \ failed' : \A r \in held'[e] :
         \E j \in Done(e)' : Script[e][j].kind = "get" /\ r \in Names(Script[e][j].what)
  BY <1>1, <1>4 DEF StartInv
<1>13. \A e \in failed' : e \in Drivers /\ at'[e] <= Len(Script[e]) /\ Script[e][at'[e]].kind = "get"
  BY <1>1, <1>2, <1>3 DEF StartInv
<1>14. \A e \in Drivers : at'[e] > 1 => Provider[e] \in world'
  BY <1>1, <1>2, <1>3 DEF StartInv
<1>15. FreedOf'
  BY <1>1 DEF StartInv, FreedOf
<1> QED
  BY <1>1, <1>2, <1>8, <1>9, <1>10, <1>11, <1>12, <1>13, <1>14, <1>15, Zenon DEF StartInv

\* A prefix of what a step takes is some of what it takes.
LEMMA PrefixTaken ==
  ASSUME NEW d \in Drivers, NEW j \in 1 .. Len(Script[d]), Script[d][j].kind = "get",
         NEW k \in 0 .. Len(Script[d][j].what) - 1
  PROVE  /\ Names(SubSeq(Script[d][j].what, 1, k)) \subseteq Names(Script[d][j].what)
         /\ d = "audio" => "attached" \notin Names(SubSeq(Script[d][j].what, 1, k))
         /\ d = "engine" => "streamInit" \notin Names(SubSeq(Script[d][j].what, 1, k))
<1> DEFINE s == Script[d][j].what
<1>1. Len(s) \in Nat
  <2>1. CASE k \in 0 .. Len(s) - 1 /\ Len(s) \notin Nat
    OBVIOUS
  <2> QED BY <2>1
<1>2. Names(SubSeq(s, 1, k)) = {s[i] : i \in 1 .. k}
  BY <1>1, PrefixNames
<1>3. 1 .. k \subseteq 1 .. Len(s) - 1 /\ 1 .. k \subseteq 1 .. Len(s)
  BY <1>1
<1>4. Names(SubSeq(s, 1, k)) \subseteq Names(s)
  BY <1>2, <1>3 DEF Names
<1>5. ASSUME d = "audio" PROVE j = 1
  <2>1. j \in 1 .. 3 /\ Script["audio"][2].kind # "get" /\ Script["audio"][3].kind # "get"
    BY <1>5, AudioSteps DEF Waits, Gives
  <2> QED BY <1>5, <2>1
<1>6. ASSUME d = "engine" PROVE j = 1
  BY <1>6, EngineSteps DEF Gives
<1> QED BY <1>2, <1>3, <1>4, <1>5, <1>6, AudioSteps, EngineSteps

LEMMA FailKeeps ==
  ASSUME StartInv, NEW d \in Drivers, Fail(d)
  PROVE  StartInv'
<1> DEFINE what == Script[d][at[d]].what
<1>1. PICK k \in 0 .. Len(what) - 1 :
        held' = [held EXCEPT ![d] = Kept(@ \cup Names(SubSeq(what, 1, k))) \ Free(d)]
  BY DEF Fail, Step
<1> DEFINE got == Names(SubSeq(what, 1, k))
<1>2. /\ Running(d) /\ Script[d][at[d]].kind = "get"
      /\ failed' = failed \cup {d} /\ at' = at /\ world' = world
  BY DEF Fail, Step
<1>3. DOMAIN held' = Drivers /\ held'[d] = Kept(held[d] \cup got) \ Free(d)
      /\ \A e \in Drivers \ {d} : held'[e] = held[e]
  BY <1>1 DEF StartInv
<1>4. at[d] \in 1 .. Len(Script[d]) /\ d \notin failed
  BY <1>2, LengthsAre DEF StartInv, Running
<1>5. /\ got \subseteq Names(what)
      /\ d = "audio" => "attached" \notin got
      /\ d = "engine" => "streamInit" \notin got
  BY <1>2, <1>4, PrefixTaken
<1> HIDE DEF got
<1>6. \A e \in Drivers : Done(e)' = Done(e)
  BY <1>2 DEF Done
<1>7. /\ \A e \in Drivers \ {d} : Lost(e)' = Lost(e)
      /\ Lost(d)' = Free(d) \cup UNION Together /\ Lost(d) = {}
  BY <1>2, <1>4 DEF Lost
<1>8. \A e \in Drivers : \A j \in Done(e)' :
         Script[e][j].kind = "get" => Names(Script[e][j].what) \ Lost(e)' \subseteq held'[e]
  <2> SUFFICES ASSUME NEW e \in Drivers, NEW j \in Done(e), Script[e][j].kind = "get"
               PROVE Names(Script[e][j].what) \ Lost(e)' \subseteq held'[e]
    BY <1>6
  <2>1. Names(Script[e][j].what) \ Lost(e) \subseteq held[e]
    BY DEF StartInv
  <2>2. CASE e = d
    <3>1. held[d] \ UNION Together \subseteq Kept(held[d] \cup got)
      BY DEF Kept
    <3> QED BY <1>3, <1>7, <2>1, <2>2, <3>1
  <2>3. CASE e # d
    BY <1>3, <1>7, <2>1, <2>3
  <2> QED BY <2>2, <2>3
<1>9. \A e \in Drivers \ failed' : \A r \in held'[e] :
         \E j \in Done(e)' : Script[e][j].kind = "get" /\ r \in Names(Script[e][j].what)
  BY <1>2, <1>3, <1>6 DEF StartInv
<1>10. \A e \in failed' : e \in Drivers /\ at'[e] <= Len(Script[e]) /\ Script[e][at'[e]].kind = "get"
  <2>1. at[d] <= Len(Script[d])
    BY <1>2 DEF Running
  <2> QED BY <1>2, <2>1 DEF StartInv
<1>11. FreedOf'
  <2> SUFFICES ASSUME NEW e \in failed' \cap DOMAIN LeftAfterFailure
               PROVE held'[e] \subseteq LeftAfterFailure[e]
    BY DEF FreedOf
  <2>1. CASE e # d
    <3>1. e \in failed /\ e \in Drivers
      BY <1>2, <2>1 DEF StartInv
    <3> QED BY <1>3, <2>1, <3>1 DEF StartInv, FreedOf
  <2>2. CASE e = d /\ d \in {"smc", "pci", "sata", "dvd"}
    <3>1. got \ Free(d) \subseteq LeftAfterFailure[d]
      BY <1>2, <1>4, <1>5, <2>2, FreeGivesBack
    <3>2. ASSUME NEW r \in held[d] \ Free(d)  PROVE r \in LeftAfterFailure[d]
      <4>1. PICK j \in Done(d) : Script[d][j].kind = "get" /\ r \in Names(Script[d][j].what)
        BY <1>4, <3>2 DEF StartInv
      <4>2. j \in 1 .. Len(Script[d])
        BY <1>4, LengthsAre DEF Done
      <4> QED BY <2>2, <3>2, <4>1, <4>2, FreeGivesBack
    <3>3. held'[d] \subseteq (held[d] \cup got) \ Free(d)
      BY <1>3 DEF Kept
    <3> QED BY <2>2, <3>1, <3>2, <3>3
  <2>3. CASE e = d /\ d = "audio"
    <3>1. at["audio"] = 1
      BY <1>2, <1>4, <2>3, AudioSteps, SMT DEF Waits, Gives
    <3>2. held["audio"] = {}
      BY <1>4, <2>3, <3>1 DEF StartInv, Done
    <3>3. got \subseteq AudioParts /\ "attached" \notin got
      BY <1>5, <2>3, <3>1, AudioSteps DEF Takes
    <3>4. "outputPort" \notin Kept(got)
      <4>1. ~({"outputPort", "attached"} \subseteq got)
        BY <3>3
      <4>2. {"outputPort", "attached"} \in Together
        BY DEF Together
      <4> QED BY <4>1, <4>2 DEF Kept
    <3>5. Kept(got) \subseteq got
      BY DEF Kept
    <3>6. AudioParts \ {"outputPort", "attached"} \subseteq LeftAfterFailure["audio"] \cup Free("audio")
      BY LeavesAre DEF AudioParts, EngineParts, Free, AudioFree
    <3>7. held'[d] = Kept(got) \ Free("audio")
      BY <1>3, <2>3, <3>2
    <3> QED BY <2>3, <3>3, <3>4, <3>5, <3>6, <3>7
  <2>4. CASE e = d /\ d = "engine"
    <3>1. at["engine"] = 1
      BY <1>2, <1>4, <2>4, EngineSteps, SMT DEF Gives
    <3>2. held["engine"] = {}
      BY <1>4, <2>4, <3>1 DEF StartInv, Done
    <3>3. got \subseteq {"super", "audioStream", "streamInit"} /\ "streamInit" \notin got
      BY <1>5, <2>4, <3>1, EngineSteps DEF Takes
    <3>4. "audioStream" \notin Kept(got)
      <4>1. ~({"audioStream", "streamInit"} \subseteq got)
        BY <3>3
      <4>2. {"audioStream", "streamInit"} \in Together
        BY DEF Together
      <4> QED BY <4>1, <4>2 DEF Kept
    <3>5. Kept(got) \subseteq got
      BY DEF Kept
    <3>6. "super" \in Free("engine")
      BY DEF Free
    <3>7. held'[d] = Kept(got) \ Free("engine")
      BY <1>3, <2>4, <3>2
    <3> QED BY <2>4, <3>3, <3>4, <3>5, <3>6, <3>7
  <2> QED BY <2>1, <2>2, <2>3, <2>4, LeavesAre
<1>12. /\ DOMAIN at' = Drivers
       /\ \A e \in Drivers : at'[e] \in 1 .. Len(Script[e]) + 1
       /\ \A e \in Drivers : at'[e] > 1 => Provider[e] \in world'
  BY <1>2 DEF StartInv
<1>13. /\ \A w \in world' \ {"root"} : \E e \in Drivers : \E j \in Done(e)' :
            Script[e][j].kind = "give" /\ w \in Names(Script[e][j].what)
       /\ \A e \in Drivers : \A j \in Done(e)' :
            Script[e][j].kind = "give" => Names(Script[e][j].what) \subseteq world'
  BY <1>2, <1>6 DEF StartInv
<1> QED
  BY <1>3, <1>8, <1>9, <1>10, <1>11, <1>12, <1>13, Zenon DEF StartInv

LEMMA StartKeeps ==
  StartInv /\ [\E d \in Drivers : Start(d)]_startVars => StartInv'
<1>1. ASSUME StartInv, NEW d \in Drivers, Start(d)  PROVE StartInv'
  BY <1>1, WaitKeeps, AcquireKeeps, PublishKeeps, FailKeeps DEF Start, Proceed
<1>2. ASSUME StartInv, UNCHANGED startVars  PROVE StartInv'
  BY <1>2 DEF StartInv, startVars, Done, Lost, FreedOf
<1> QED BY <1>1, <1>2

\* What a driver took stays, when neither its free() nor the functions that fail
\* half-way give it back.
LEMMA TakenStays ==
  ASSUME StartInv, NEW d \in Drivers, NEW j \in Done(d), Script[d][j].kind = "get",
         NEW set, set \subseteq Names(Script[d][j].what),
         d \notin failed \/ set \cap (Free(d) \cup UNION Together) = {}
  PROVE  set \subseteq held[d]
BY DEF StartInv, Lost

\* The drivers that others need something of.
DriverSet == {"pe", "cpu", "ethernet", "ic", "pci", "smc", "sata", "audio", "engine"}

\* Only a step that takes something can be the one a start failed at.
LEMMA PastFailure ==
  ASSUME StartInv, NEW d, d \in failed
  PROVE  at[d] <= Len(Script[d]) /\ Script[d][at[d]].kind = "get"
BY DEF StartInv

\* Nothing is given out before what it takes is there.
LEMMA FoundIsReadyFollows == StartInv => FoundIsReady
<1> SUFFICES ASSUME StartInv  PROVE FoundIsReady
  OBVIOUS
<1>1. ASSUME NEW w \in world, w # "root"
      PROVE \E d \in Drivers : \E j \in Done(d) :
              j \in 1 .. Len(Script[d]) /\ Script[d][j].kind = "give" /\ w \in Names(Script[d][j].what)
  <2>1. PICK d \in Drivers : \E j \in Done(d) : Script[d][j].kind = "give" /\ w \in Names(Script[d][j].what)
    BY <1>1 DEF StartInv
  <2>2. at[d] \in 1 .. Len(Script[d]) + 1
    BY DEF StartInv
  <2> QED BY <2>1, <2>2, LengthsAre DEF Done
<1>2. /\ "console" \in world => at["pe"] > 2
      /\ "platform" \in world => at["pe"] > 4
      /\ "CPUIC" \in world => at["cpu"] > 2
      /\ "XenonIC" \in world => at["ic"] > 4
      /\ "XenonPCI" \in world => at["pci"] > 2
      /\ "devices" \in world => at["pci"] > 4
      /\ "smcInterrupt" \in world => at["smc"] > 4
      /\ "hooks" \in world => at["smc"] > 5
      /\ "IORTC" \in world => at["smc"] > 6
      /\ "XenonSMC" \in world => at["smc"] > 6
      /\ "sataInterrupt" \in world => at["sata"] > 4
      /\ "ethernetInterrupt" \in world => at["ethernet"] > 4
      /\ "activated" \in world => at["audio"] > 3
      /\ "sound" \in world => at["engine"] > 2
  <2>1. ASSUME NEW w \in world, w # "root"
        PROVE \E d \in Drivers : \E j \in 1 .. Len(Script[d]) : j < at[d] /\ <<d, j, w>> \in GivenAt
    <3>1. PICK d \in Drivers : \E j \in Done(d) :
            j \in 1 .. Len(Script[d]) /\ Script[d][j].kind = "give" /\ w \in Names(Script[d][j].what)
      BY <1>1, <2>1
    <3>2. PICK j \in Done(d) :
            j \in 1 .. Len(Script[d]) /\ Script[d][j].kind = "give" /\ w \in Names(Script[d][j].what)
      BY <3>1
    <3>3. j < at[d]
      BY <3>2 DEF Done, StartInv
    <3> QED BY <3>2, <3>3, Givers
  <2> QED BY <2>1 DEF GivenAt
<1>3. DriverSet \subseteq Drivers
  BY DriversAre DEF DriverSet
<1>4. \A d \in DriverSet : at[d] \in 1 .. Len(Script[d]) + 1 /\ at[d] \in Nat
  BY <1>3, LengthsAre DEF StartInv
<1>41. /\ at["pe"] \in Nat /\ at["cpu"] \in Nat /\ at["ethernet"] \in Nat /\ at["ic"] \in Nat
       /\ at["pci"] \in Nat /\ at["smc"] \in Nat /\ at["sata"] \in Nat
       /\ at["audio"] \in Nat /\ at["engine"] \in Nat
  BY <1>4 DEF DriverSet
<1>5. ASSUME NEW n \in Needs, n[1] \in world
      PROVE n[3] \subseteq held[n[2]] \/ (n[1] = "XenonPCI" /\ "pci" \in failed)
  <2>1. ASSUME at["pe"] > 2
        PROVE {"registers", "framebuffer", "gpuBuffer", "workLoop", "timer"} \subseteq held["pe"]
    <3> DEFINE set == {"registers", "framebuffer", "gpuBuffer", "workLoop", "timer"}
    <3>1. 1 \in Done("pe")
      BY <1>41, <2>1 DEF Done
    <3>2. set \cap (Free("pe") \cup UNION Together) = {}
      BY DEF Free, Together, EngineParts
    <3>3. "pe" \in Drivers /\ Script["pe"][1].kind = "get" /\ set \subseteq Names(Script["pe"][1].what)
      BY <1>3, PESteps DEF DriverSet, Takes
    <3> HIDE DEF set
    <3>4. set \subseteq held["pe"]
      BY <3>1, <3>2, <3>3, TakenStays
    <3> QED BY <3>4 DEF set
  <2>2. ASSUME at["pe"] > 4
        PROVE {"patcher"} \subseteq held["pe"]
    <3>1. 3 \in Done("pe")
      BY <1>41, <2>2 DEF Done
    <3>2. {"patcher"} \cap (Free("pe") \cup UNION Together) = {}
      BY DEF Free, Together, EngineParts
    <3>3. {"patcher"} \subseteq held["pe"]
      <4>1. /\ "pe" \in Drivers /\ Script["pe"][3].kind = "get"
            /\ {"patcher"} \subseteq Names(Script["pe"][3].what)
        BY <1>3, PESteps DEF DriverSet, Takes
      <4> QED BY <3>1, <3>2, <4>1, TakenStays
    <3> QED BY <3>3
  <2>3. ASSUME at["cpu"] > 2
        PROVE {"cpuController"} \subseteq held["cpu"]
    <3>1. 1 \in Done("cpu")
      BY <1>41, <2>3 DEF Done
    <3>2. {"cpuController"} \cap (Free("cpu") \cup UNION Together) = {}
      BY DEF Free, Together, EngineParts
    <3>3. {"cpuController"} \subseteq held["cpu"]
      <4>1. /\ "cpu" \in Drivers /\ Script["cpu"][1].kind = "get"
            /\ {"cpuController"} \subseteq Names(Script["cpu"][1].what)
        BY <1>3, CPUSteps DEF DriverSet, Takes
      <4> QED BY <3>1, <3>2, <4>1, TakenStays
    <3> QED BY <3>3
  <2>4. ASSUME at["ic"] > 4
        PROVE {"registers", "bridge", "vectors", "locks"} \subseteq held["ic"]
    <3>1. 1 \in Done("ic")
      BY <1>41, <2>4 DEF Done
    <3>2. "ic" \notin failed
      <4>1. "ic" \in failed =>
              at["ic"] <= Len(Script["ic"]) /\ Script["ic"][at["ic"]].kind = "get"
        BY PastFailure
      <4> QED BY <1>41, <2>4, <4>1, ICSteps, SMT DEF Waits, Gives
    <3>3. {"registers", "bridge", "vectors", "locks"} \subseteq held["ic"]
      <4>1. /\ "ic" \in Drivers /\ Script["ic"][1].kind = "get"
            /\ {"registers", "bridge", "vectors", "locks"} \subseteq Names(Script["ic"][1].what)
        BY <1>3, ICSteps DEF DriverSet, Takes
      <4> QED BY <3>1, <3>2, <4>1, TakenStays
    <3> QED BY <3>3
  <2>22. ASSUME at["pci"] > 2, "pci" \notin failed
         PROVE {"lock", "config"} \subseteq held["pci"]
    <3>1. 1 \in Done("pci")
      BY <1>41, <2>22 DEF Done
    <3>2. /\ "pci" \in Drivers /\ Script["pci"][1].kind = "get"
          /\ {"lock", "config"} \subseteq Names(Script["pci"][1].what)
      BY <1>3, PCISteps DEF DriverSet, Takes
    <3> QED BY <2>22, <3>1, <3>2, TakenStays
  <2>5. ASSUME at["pci"] > 4
        PROVE {"lock", "config"} \subseteq held["pci"]
    <3>1. "pci" \notin failed
      <4>1. "pci" \in failed => at["pci"] <= Len(Script["pci"])
        BY PastFailure
      <4> QED BY <1>41, <2>5, <4>1, PCISteps, SMT
    <3>2. at["pci"] > 2
      BY <1>41, <2>5
    <3> QED BY <2>22, <3>1, <3>2
  <2>6. ASSUME at["smc"] > 4
        PROVE {"mmio", "lock", "source"} \subseteq held["smc"]
    <3>1. 1 \in Done("smc") /\ 3 \in Done("smc")
      BY <1>41, <2>6 DEF Done
    <3>2. "smc" \notin failed
      <4>1. "smc" \in failed =>
              at["smc"] <= Len(Script["smc"]) /\ Script["smc"][at["smc"]].kind = "get"
        BY PastFailure
      <4> QED BY <1>41, <2>6, <4>1, SMCSteps, SMT DEF Waits, Gives
    <3>3. {"mmio", "lock"} \subseteq held["smc"]
      <4>1. /\ "smc" \in Drivers /\ Script["smc"][1].kind = "get"
            /\ {"mmio", "lock"} \subseteq Names(Script["smc"][1].what)
        BY <1>3, SMCSteps DEF DriverSet, Takes
      <4> QED BY <3>1, <3>2, <4>1, TakenStays
    <3>4. {"source"} \subseteq held["smc"]
      <4>1. /\ "smc" \in Drivers /\ Script["smc"][3].kind = "get"
            /\ {"source"} \subseteq Names(Script["smc"][3].what)
        BY <1>3, SMCSteps DEF DriverSet, Takes
      <4> QED BY <3>1, <3>2, <4>1, TakenStays
    <3> QED BY <3>3, <3>4
  <2>7. ASSUME at["smc"] > 5
        PROVE {"mmio", "lock", "rtcLock", "source"} \subseteq held["smc"]
    <3>1. 1 \in Done("smc") /\ 3 \in Done("smc")
      BY <1>41, <2>7 DEF Done
    <3>2. "smc" \notin failed
      <4>1. "smc" \in failed =>
              at["smc"] <= Len(Script["smc"]) /\ Script["smc"][at["smc"]].kind = "get"
        BY PastFailure
      <4> QED BY <1>41, <2>7, <4>1, SMCSteps, SMT DEF Waits, Gives
    <3>3. {"mmio", "lock", "rtcLock"} \subseteq held["smc"]
      <4>1. /\ "smc" \in Drivers /\ Script["smc"][1].kind = "get"
            /\ {"mmio", "lock", "rtcLock"} \subseteq Names(Script["smc"][1].what)
        BY <1>3, SMCSteps DEF DriverSet, Takes
      <4> QED BY <3>1, <3>2, <4>1, TakenStays
    <3>4. {"source"} \subseteq held["smc"]
      <4>1. /\ "smc" \in Drivers /\ Script["smc"][3].kind = "get"
            /\ {"source"} \subseteq Names(Script["smc"][3].what)
        BY <1>3, SMCSteps DEF DriverSet, Takes
      <4> QED BY <3>1, <3>2, <4>1, TakenStays
    <3> QED BY <3>3, <3>4
  <2>8. ASSUME at["sata"] > 4
        PROVE {"mmio", "bmdma", "super"} \subseteq held["sata"]
    <3>1. 1 \in Done("sata")
      BY <1>41, <2>8 DEF Done
    <3>2. "sata" \notin failed
      <4>1. "sata" \in failed =>
              at["sata"] <= Len(Script["sata"]) /\ Script["sata"][at["sata"]].kind = "get"
        BY PastFailure
      <4> QED BY <1>41, <2>8, <4>1, SATASteps, SMT DEF Waits, Gives
    <3>3. {"mmio", "bmdma", "super"} \subseteq held["sata"]
      <4>1. /\ "sata" \in Drivers /\ Script["sata"][1].kind = "get"
            /\ {"mmio", "bmdma", "super"} \subseteq Names(Script["sata"][1].what)
        BY <1>3, SATASteps DEF DriverSet, Takes
      <4> QED BY <3>1, <3>2, <4>1, TakenStays
    <3> QED BY <3>3
  <2>9. ASSUME at["ethernet"] > 4
        PROVE {"mmio", "rings", "source"} \subseteq held["ethernet"]
    <3>1. 1 \in Done("ethernet") /\ 3 \in Done("ethernet")
      BY <1>41, <2>9 DEF Done
    <3>2. {"mmio", "rings", "source"} \cap (Free("ethernet") \cup UNION Together) = {}
      BY DEF Free, Together, EngineParts, EthernetFree
    <3>3. {"mmio", "rings"} \subseteq held["ethernet"]
      <4>1. /\ "ethernet" \in Drivers /\ Script["ethernet"][1].kind = "get"
            /\ {"mmio", "rings"} \subseteq Names(Script["ethernet"][1].what)
        BY <1>3, EthernetSteps DEF DriverSet, Takes
      <4>2. {"mmio", "rings"} \cap (Free("ethernet") \cup UNION Together) = {}
        BY <3>2
      <4> QED BY <3>1, <4>1, <4>2, TakenStays
    <3>4. {"source"} \subseteq held["ethernet"]
      <4>1. /\ "ethernet" \in Drivers /\ Script["ethernet"][3].kind = "get"
            /\ {"source"} \subseteq Names(Script["ethernet"][3].what)
        BY <1>3, EthernetSteps DEF DriverSet, Takes
      <4>2. {"source"} \cap (Free("ethernet") \cup UNION Together) = {}
        BY <3>2
      <4> QED BY <3>1, <4>1, <4>2, TakenStays
    <3> QED BY <3>3, <3>4
  <2>10. ASSUME at["engine"] > 2
         PROVE /\ {"mmio", "descriptors", "samples", "timer", "engine", "outputPort"} \subseteq held["audio"]
               /\ {"audioStream"} \subseteq held["engine"]
    <3>1. "activated" \in world
      BY <1>3, <2>10 DEF StartInv, DriverSet, Provider
    <3>2. 1 \in Done("audio") /\ 1 \in Done("engine")
      BY <1>2, <1>41, <2>10, <3>1 DEF Done
    <3>3. "audio" \notin failed /\ "engine" \notin failed
      <4>1. at["audio"] > Len(Script["audio"]) /\ at["engine"] > Len(Script["engine"])
        BY <1>2, <2>10, <3>1, AudioSteps, EngineSteps
      <4>2. /\ "audio" \in failed => at["audio"] <= Len(Script["audio"])
            /\ "engine" \in failed => at["engine"] <= Len(Script["engine"])
        BY PastFailure
      <4> QED BY <1>41, <4>1, <4>2, AudioSteps, EngineSteps
    <3>4. /\ "audio" \in Drivers /\ "engine" \in Drivers
          /\ Script["audio"][1].kind = "get" /\ Names(Script["audio"][1].what) = AudioParts
          /\ Script["engine"][1].kind = "get"
          /\ Names(Script["engine"][1].what) = {"super", "audioStream", "streamInit"}
      BY <1>3, AudioSteps, EngineSteps DEF DriverSet, Takes
    <3>5. {"mmio", "descriptors", "samples", "timer", "engine", "outputPort"} \subseteq AudioParts
      BY DEF AudioParts
    <3>6. {"mmio", "descriptors", "samples", "timer", "engine", "outputPort"} \subseteq held["audio"]
      BY <3>2, <3>3, <3>4, <3>5, TakenStays
    <3>7. {"audioStream"} \subseteq held["engine"]
      BY <3>2, <3>3, <3>4, TakenStays
    <3> QED BY <3>6, <3>7
  <2>11. CASE n = <<"console", "pe", {"registers", "framebuffer", "gpuBuffer", "workLoop", "timer"}>>
    BY <1>2, <1>5, <2>1, <2>11
  <2>12. CASE n = <<"platform", "pe", {"patcher"}>>
    BY <1>2, <1>5, <2>2, <2>12
  <2>13. CASE n = <<"CPUIC", "cpu", {"cpuController"}>>
    BY <1>2, <1>5, <2>3, <2>13
  <2>14. CASE n = <<"XenonIC", "ic", {"registers", "bridge", "vectors", "locks"}>>
    BY <1>2, <1>5, <2>4, <2>14
  <2>15. CASE n = <<"devices", "pci", {"lock", "config"}>>
    BY <1>2, <1>5, <2>5, <2>15
  <2>16. CASE n = <<"smcInterrupt", "smc", {"mmio", "lock", "source"}>>
    BY <1>2, <1>5, <2>6, <2>16
  <2>17. CASE n = <<"hooks", "smc", {"mmio", "lock", "rtcLock", "source"}>>
    BY <1>2, <1>5, <2>7, <2>17
  <2>18. CASE n = <<"sataInterrupt", "sata", {"mmio", "bmdma", "super"}>>
    BY <1>2, <1>5, <2>8, <2>18
  <2>19. CASE n = <<"ethernetInterrupt", "ethernet", {"mmio", "rings", "source"}>>
    BY <1>2, <1>5, <2>9, <2>19
  <2>20. CASE n = <<"sound", "audio", {"mmio", "descriptors", "samples", "timer", "engine", "outputPort"}>>
    BY <1>2, <1>5, <2>10, <2>20
  <2>21. CASE n = <<"sound", "engine", {"audioStream"}>>
    BY <1>2, <1>5, <2>10, <2>21
  <2>23. CASE n = <<"XenonPCI", "pci", {"lock", "config"}>>
    <3>1. CASE "pci" \in failed
      BY <2>23, <3>1
    <3>2. CASE "pci" \notin failed
      <4>1. at["pci"] > 2
        BY <1>2, <1>5, <2>23
      <4> QED BY <2>22, <2>23, <3>2, <4>1
    <3> QED BY <3>1, <3>2
  <2> QED BY <2>11, <2>12, <2>13, <2>14, <2>15, <2>16,
              <2>17, <2>18, <2>19, <2>20, <2>21, <2>23 DEF Needs
<1>6. {"IORTC", "XenonSMC"} \cap world # {} => "hooks" \in world
  <2> SUFFICES ASSUME at["smc"] > 6  PROVE "hooks" \in world
    BY <1>2
  <2>1. 5 \in Done("smc")
    BY <1>41 DEF Done
  <2> QED BY <1>3, <2>1, SMCSteps DEF StartInv, Gives, DriverSet
<1> QED BY <1>5, <1>6 DEF FoundIsReady

-----------------------------------------------------------------------------
(* The patcher and the thread that calls what it patches.                  *)

\* The function that is routed for the i-th name.
Target(i) == ResolveKernelSymbol(Routed[i])

\* The functions that are routed, and the jump to the wrapper of each; what the
\* trampoline of each holds.
Hooks    == {i \in 1 .. 3 : i < hook \/ patcher = "done"}
Jump(i)  == Load(<<"wrap", Routed[i]>>) \o <<Bctr>>
Relay(i) == Load(<<"rest", Target(i)>>) \o Prologue \o <<Bctr>>

LEMMA FirstHit ==
  ASSUME NEW name, Len(symbols) \in Nat, NEW i \in 1 .. Len(symbols), symbols[i].begins = name,
         \A j \in 1 .. i - 1 : symbols[j].begins # name
  PROVE  ResolveKernelSymbol(name) = symbols[i].at
<1> DEFINE hits == {j \in 1 .. Len(symbols) : symbols[j].begins = name}
           first == CHOOSE j \in hits : \A l \in hits : j <= l
<1>1. i \in hits /\ \A l \in hits : i <= l
  OBVIOUS
<1>2. first \in hits /\ \A l \in hits : first <= l
  BY <1>1
<1>3. first = i
  BY <1>1, <1>2
<1> QED BY <1>1, <1>3 DEF ResolveKernelSymbol

LEMMA JoinedAt ==
  ASSUME NEW S, NEW s \in Seq(S), NEW t \in Seq(S), NEW r, r = s \o t
  PROVE  /\ r \in Seq(S) /\ Len(r) = Len(s) + Len(t)
         /\ \A j \in 1 .. Len(s) + Len(t) : r[j] = IF j <= Len(s) THEN s[j] ELSE t[j - Len(s)]
BY ConcatProperties

\* The table holds the names of Routed at distinct places, or does not hold the last.
LEMMA TargetsApart ==
  ASSUME symbols \in Tables
  PROVE  /\ Target(1) \in {"Debugger", "other"} /\ Target(2) = "pmap_enter"
         /\ Target(3) \in {"grade_binary", "zero"}
<1>1. Routed[1] = "Debugger" /\ Routed[2] = "pmap_enter" /\ Routed[3] = "grade_binary"
  BY DEF Routed
<1> DEFINE p == AllOf(Resolved)
           q == AllOf(Routed)
<1>2. /\ Len(p) = 3 /\ p[1].begins = "kmem_alloc_pageable" /\ p[2].begins = "mapping_make"
      /\ p[3].begins = "pmap_sync"
      /\ Len(q) = 3 /\ q[1] = Entry("Debugger", "Debugger")
      /\ q[2] = Entry("pmap_enter", "pmap_enter") /\ q[3] = Entry("grade_binary", "grade_binary")
  BY DEF AllOf, Resolved, Routed, Entry
<1> DEFINE S == {p[1], p[2], p[3], q[1], q[2], q[3], Entry("Debugger", "other")}
           x == <<Entry("Debugger", "other")>>
           y == <<Entry("Debugger", "Debugger"), Entry("pmap_enter", "pmap_enter")>>
<1>3. p \in Seq(S) /\ q \in Seq(S) /\ x \in Seq(S) /\ y \in Seq(S)
  <2>1. /\ DOMAIN p = 1 .. 3 /\ DOMAIN q = 1 .. 3
        /\ p = [i \in 1 .. 3 |-> p[i]] /\ q = [i \in 1 .. 3 |-> q[i]]
    BY DEF AllOf
  <2>2. p = <<p[1], p[2], p[3]>> /\ q = <<q[1], q[2], q[3]>>
    <3> HIDE DEF p, q
    <3> QED BY <2>1
  <2>3. <<p[1], p[2], p[3]>> \in Seq(S) /\ <<q[1], q[2], q[3]>> \in Seq(S)
    <3> HIDE DEF p, q
    <3> QED OBVIOUS
  <2>4. x \in Seq(S) /\ y \in Seq(S)
    BY <1>2
  <2> HIDE DEF p, q
  <2> QED BY <2>2, <2>3, <2>4
<1>4. /\ Len(x) = 1 /\ x[1] = Entry("Debugger", "other")
      /\ Len(y) = 2 /\ y[1] = Entry("Debugger", "Debugger")
      /\ y[2] = Entry("pmap_enter", "pmap_enter")
  OBVIOUS
<1>5. \A n, a : Entry(n, a).begins = n /\ Entry(n, a).at = a
  BY DEF Entry
<1> HIDE DEF p, q, x, y, S
<1> DEFINE pq == p \o q
           xp == x \o p
           tail == Tail(p)
<1>6. /\ pq \in Seq(S) /\ Len(pq) = 6 /\ pq[1] = p[1] /\ pq[2] = p[2] /\ pq[3] = p[3]
      /\ pq[4] = q[1] /\ pq[5] = q[2] /\ pq[6] = q[3]
  <2>1. /\ pq \in Seq(S) /\ Len(pq) = Len(p) + Len(q)
        /\ \A j \in 1 .. Len(p) + Len(q) : pq[j] = IF j <= Len(p) THEN p[j] ELSE q[j - Len(p)]
    BY <1>3, JoinedAt
  <2> HIDE DEF pq
  <2> QED BY <1>2, <2>1
<1>7. /\ xp \in Seq(S) /\ Len(xp) = 4 /\ xp[1] = x[1] /\ xp[2] = p[1] /\ xp[3] = p[2]
      /\ xp[4] = p[3]
  <2>1. /\ xp \in Seq(S) /\ Len(xp) = Len(x) + Len(p)
        /\ \A j \in 1 .. Len(x) + Len(p) : xp[j] = IF j <= Len(x) THEN x[j] ELSE p[j - Len(x)]
    BY <1>3, JoinedAt
  <2> HIDE DEF xp
  <2> QED BY <1>2, <1>4, <2>1
<1>8. tail \in Seq(S) /\ Len(tail) = 2 /\ tail[1] = p[2] /\ tail[2] = p[3]
  <2>1. p # <<>>
    BY <1>2, <1>3
  <2>2. /\ tail \in Seq(S) /\ Len(tail) = Len(p) - 1
        /\ \A j \in 1 .. Len(tail) : tail[j] = p[j + 1]
    BY <1>3, <2>1, HeadTailProperties
  <2> HIDE DEF tail
  <2> QED BY <1>2, <2>2
<1>9. CASE symbols = pq \o x
  <2>1. /\ Len(symbols) = Len(pq) + Len(x)
        /\ \A j \in 1 .. Len(pq) + Len(x) :
             symbols[j] = IF j <= Len(pq) THEN pq[j] ELSE x[j - Len(pq)]
    <3>1. pq \in Seq(S)
      BY <1>3, JoinedAt
    <3> QED BY <1>3, <1>9, <3>1, JoinedAt
  <2> HIDE DEF pq
  <2>2. /\ Len(symbols) = 7 /\ symbols[1] = p[1] /\ symbols[2] = p[2] /\ symbols[3] = p[3]
        /\ symbols[4] = q[1] /\ symbols[5] = q[2] /\ symbols[6] = q[3]
    <3>1. Len(symbols) = 7 /\ \A j \in 1 .. 6 : symbols[j] = pq[j]
      BY <1>4, <1>6, <2>1
    <3> QED BY <1>6, <3>1
  <2>3. Target(1) = symbols[4].at
    BY <1>1, <1>2, <1>5, <2>2, FirstHit, SMT DEF Target
  <2>4. Target(2) = symbols[5].at
    BY <1>1, <1>2, <1>5, <2>2, FirstHit, SMT DEF Target
  <2>5. Target(3) = symbols[6].at
    BY <1>1, <1>2, <1>5, <2>2, FirstHit, SMT DEF Target
  <2> QED BY <1>2, <1>5, <2>2, <2>3, <2>4, <2>5
<1>10. CASE symbols = p \o y
  <2>1. /\ Len(symbols) = Len(p) + Len(y)
        /\ \A j \in 1 .. Len(p) + Len(y) : symbols[j] = IF j <= Len(p) THEN p[j] ELSE y[j - Len(p)]
    BY <1>3, <1>10, JoinedAt
  <2>2. /\ Len(symbols) = 5 /\ symbols[1] = p[1] /\ symbols[2] = p[2] /\ symbols[3] = p[3]
        /\ symbols[4] = y[1] /\ symbols[5] = y[2]
    BY <1>2, <1>4, <2>1
  <2>3. Target(1) = symbols[4].at
    BY <1>1, <1>2, <1>4, <1>5, <2>2, FirstHit, SMT DEF Target
  <2>4. Target(2) = symbols[5].at
    BY <1>1, <1>2, <1>4, <1>5, <2>2, FirstHit, SMT DEF Target
  <2>5. Target(3) = "zero"
    <3>1. \A j \in 1 .. Len(symbols) : symbols[j].begins # "grade_binary"
      BY <1>2, <1>4, <1>5, <2>2, SMT
    <3>2. {j \in 1 .. Len(symbols) : symbols[j].begins = "grade_binary"} = {}
      BY <3>1
    <3> QED BY <1>1, <3>2 DEF Target, ResolveKernelSymbol
  <2> QED BY <1>4, <1>5, <2>2, <2>3, <2>4, <2>5
<1>11. CASE symbols = xp \o q
  <2>1. /\ Len(symbols) = Len(xp) + Len(q)
        /\ \A j \in 1 .. Len(xp) + Len(q) :
             symbols[j] = IF j <= Len(xp) THEN xp[j] ELSE q[j - Len(xp)]
    <3>1. xp \in Seq(S)
      BY <1>3, JoinedAt
    <3> QED BY <1>3, <1>11, <3>1, JoinedAt
  <2> HIDE DEF xp
  <2>2. /\ Len(symbols) = 7 /\ symbols[1] = x[1]
        /\ symbols[2] = p[1] /\ symbols[3] = p[2] /\ symbols[4] = p[3]
        /\ symbols[5] = q[1] /\ symbols[6] = q[2] /\ symbols[7] = q[3]
    BY <1>2, <1>7, <2>1
  <2>3. Target(1) = symbols[1].at
    BY <1>1, <1>4, <1>5, <2>2, FirstHit, SMT DEF Target
  <2>4. Target(2) = symbols[6].at
    BY <1>1, <1>2, <1>4, <1>5, <2>2, FirstHit, SMT DEF Target
  <2>5. Target(3) = symbols[7].at
    BY <1>1, <1>2, <1>4, <1>5, <2>2, FirstHit, SMT DEF Target
  <2> QED BY <1>2, <1>4, <1>5, <2>2, <2>3, <2>4, <2>5
<1>12. CASE symbols = tail \o q
  <2>1. /\ Len(symbols) = Len(tail) + Len(q)
        /\ \A j \in 1 .. Len(tail) + Len(q) :
             symbols[j] = IF j <= Len(tail) THEN tail[j] ELSE q[j - Len(tail)]
    BY <1>3, <1>8, <1>12, JoinedAt
  <2> HIDE DEF tail
  <2>2. /\ Len(symbols) = 5 /\ symbols[1] = p[2] /\ symbols[2] = p[3]
        /\ symbols[3] = q[1] /\ symbols[4] = q[2] /\ symbols[5] = q[3]
    BY <1>2, <1>8, <2>1
  <2>3. Target(1) = symbols[3].at
    BY <1>1, <1>2, <1>5, <2>2, FirstHit, SMT DEF Target
  <2>4. Target(2) = symbols[4].at
    BY <1>1, <1>2, <1>5, <2>2, FirstHit, SMT DEF Target
  <2>5. Target(3) = symbols[5].at
    BY <1>1, <1>2, <1>5, <2>2, FirstHit, SMT DEF Target
  <2> QED BY <1>2, <1>5, <2>2, <2>3, <2>4, <2>5
<1> QED BY <1>9, <1>10, <1>11, <1>12, Zenon DEF Tables, p, q, x, y

LEMMA TargetsDiffer ==
  ASSUME symbols \in Tables
  PROVE  /\ \A i \in 1 .. 3 : Target(i) \in Addresses
         /\ \A i, j \in 1 .. 3 : i # j => Target(i) # Target(j)
<1>1. /\ Target(1) \in Addresses /\ Target(2) \in Addresses /\ Target(3) \in Addresses
  BY TargetsApart DEF Addresses, Callable, Names3, Routed
<1>2. Target(1) # Target(2) /\ Target(1) # Target(3) /\ Target(2) # Target(3)
  BY TargetsApart
<1> QED BY <1>1, <1>2

\* The words of a jump, of a trampoline and of a function that is not routed.
Digit == <<"1", "2", "3", "4">>

LEMMA DigitsAre == Digit[1] = "1" /\ Digit[2] = "2" /\ Digit[3] = "3" /\ Digit[4] = "4"
BY DEF Digit

LEMMA JumpWords ==
  ASSUME NEW i \in 1 .. 3
  PROVE  /\ Jump(i)[1] = <<"lis", <<"wrap", Routed[i]>>>>
         /\ Jump(i)[2] = <<"ori", <<"wrap", Routed[i]>>>>
         /\ Jump(i)[3] = <<"mtctr", Nowhere>> /\ Jump(i)[4] = <<"bctr", Nowhere>>
<1> DEFINE dst == <<"wrap", Routed[i]>>
<1>1. Jump(i) = Load(dst) \o <<Bctr>>
  BY DEF Jump
<1> HIDE DEF dst
<1>2. /\ Jump(i)[1] = <<"lis", dst>> /\ Jump(i)[2] = <<"ori", dst>>
      /\ Jump(i)[3] = <<"mtctr", Nowhere>> /\ Jump(i)[4] = <<"bctr", Nowhere>>
  BY <1>1 DEF Load, Bctr
<1> QED BY <1>2 DEF dst

LEMMA PrologueWords ==
  ASSUME NEW k \in 1 .. 4
  PROVE  Prologue[k] = <<"own", <<Digit[k], "">>>>
<1>1. /\ Prologue[1] = Own("1") /\ Prologue[2] = Own("2") /\ Prologue[3] = Own("3")
      /\ Prologue[4] = Own("4")
  BY DEF Prologue
<1>2. k = 1 \/ k = 2 \/ k = 3 \/ k = 4
  OBVIOUS
<1> QED BY <1>1, <1>2, DigitsAre DEF Own

LEMMA RelayWords ==
  ASSUME NEW i
  PROVE  /\ Relay(i)[1] = <<"lis", <<"rest", Target(i)>>>>
         /\ Relay(i)[2] = <<"ori", <<"rest", Target(i)>>>>
         /\ Relay(i)[3] = <<"mtctr", Nowhere>>
         /\ \A k \in 1 .. 4 : Relay(i)[k + 3] = <<"own", <<Digit[k], "">>>>
         /\ Relay(i)[8] = <<"bctr", Nowhere>>
         /\ Relay(i) # <<>>
<1> DEFINE f == Target(i)
<1>1. Relay(i) = Load(<<"rest", f>>) \o Prologue \o <<Bctr>>
  BY DEF Relay
<1> HIDE DEF f
<1>2. /\ Relay(i)[1] = <<"lis", <<"rest", f>>>> /\ Relay(i)[2] = <<"ori", <<"rest", f>>>>
      /\ Relay(i)[3] = <<"mtctr", Nowhere>> /\ Relay(i)[8] = <<"bctr", Nowhere>>
  BY <1>1 DEF Load, Prologue, Bctr
<1>3. /\ Relay(i)[4] = Own("1") /\ Relay(i)[5] = Own("2") /\ Relay(i)[6] = Own("3")
      /\ Relay(i)[7] = Own("4")
  <2>1. Relay(i) = Load(<<"rest", f>>) \o <<Own("1"), Own("2"), Own("3"), Own("4")>> \o <<Bctr>>
    BY <1>1 DEF Prologue
  <2>2. Relay(i)[4] = Own("1")
    BY <2>1 DEF Load
  <2>3. Relay(i)[5] = Own("2")
    BY <2>1 DEF Load
  <2>4. Relay(i)[6] = Own("3")
    BY <2>1 DEF Load
  <2>5. Relay(i)[7] = Own("4")
    BY <2>1 DEF Load
  <2> QED BY <2>2, <2>3, <2>4, <2>5
<1>4. Len(Relay(i)) = 8
  BY <1>1 DEF Load, Prologue, Bctr
<1>5. \A k \in 1 .. 4 : Relay(i)[k + 3] = <<"own", <<Digit[k], "">>>>
  <2> SUFFICES ASSUME NEW k \in 1 .. 4  PROVE Relay(i)[k + 3] = Own(Digit[k])
    BY DEF Own
  <2>1. k = 1 \/ k = 2 \/ k = 3 \/ k = 4
    OBVIOUS
  <2> QED BY <1>3, <2>1, DigitsAre
<1>6. Relay(i) # <<>>
  BY <1>4
<1> QED BY <1>2, <1>5, <1>6 DEF f

\* What a call that began with start has run after k instructions of the function.
After(start, k) ==
  CASE k = 0 -> start
    [] k = 1 -> Append(start, "1")
    [] k = 2 -> Append(Append(start, "1"), "2")
    [] k = 3 -> Append(Append(Append(start, "1"), "2"), "3")
    [] k = 4 -> Append(Append(Append(Append(start, "1"), "2"), "3"), "4")

LEMMA AfterNext ==
  ASSUME NEW start, NEW k \in 0 .. 3
  PROVE  Append(After(start, k), Digit[k + 1]) = After(start, k + 1)
<1>2. /\ After(start, 0) = start /\ After(start, 1) = Append(start, "1")
      /\ After(start, 2) = Append(Append(start, "1"), "2")
      /\ After(start, 3) = Append(Append(Append(start, "1"), "2"), "3")
      /\ After(start, 4) = Append(Append(Append(Append(start, "1"), "2"), "3"), "4")
  BY DEF After
<1>3. k = 0 \/ k = 1 \/ k = 2 \/ k = 3
  OBVIOUS
<1>4. CASE k = 0
  BY <1>2, <1>4, DigitsAre
<1>5. CASE k = 1
  BY <1>2, <1>5, DigitsAre
<1>6. CASE k = 2
  BY <1>2, <1>6, DigitsAre
<1>7. CASE k = 3
  BY <1>2, <1>7, DigitsAre
<1> QED BY <1>3, <1>4, <1>5, <1>6, <1>7

LEMMA WholeRun ==
  /\ Append(After(<<>>, 4), "rest") = Whole
  /\ Append(<<>>, "wrap") = <<"wrap">>
  /\ Append(After(<<"wrap">>, 4), "rest") = <<"wrap">> \o Whole
<1> DEFINE S == {"1", "2", "3", "4", "rest", "wrap"}
           plain == Append(Append(Append(Append(Append(<<>>, "1"), "2"), "3"), "4"), "rest")
           wrapped == Append(Append(Append(Append(Append(<<"wrap">>, "1"), "2"), "3"), "4"), "rest")
<1>1. Append(<<>>, "wrap") = <<"wrap">>
  <2>1. Append(<<>>, "wrap") \in Seq(S) /\ <<"wrap">> \in Seq(S)
    OBVIOUS
  <2>2. Len(Append(<<>>, "wrap")) = 1 /\ Append(<<>>, "wrap")[1] = "wrap"
    OBVIOUS
  <2> QED BY <2>1, <2>2, SeqEqual
<1>2. plain = Whole
  <2>1. plain \in Seq(S) /\ Whole \in Seq(S)
    BY DEF Whole
  <2>2. /\ Len(plain) = 5 /\ plain[1] = "1" /\ plain[2] = "2" /\ plain[3] = "3" /\ plain[4] = "4"
        /\ plain[5] = "rest"
    OBVIOUS
  <2> HIDE DEF plain, S
  <2> QED BY <2>1, <2>2, SeqEqual DEF Whole
<1>3. wrapped = <<"wrap">> \o Whole
  <2>1. wrapped \in Seq(S) /\ <<"wrap">> \o Whole \in Seq(S)
    BY DEF Whole
  <2>2. /\ Len(wrapped) = 6 /\ wrapped[1] = "wrap" /\ wrapped[2] = "1" /\ wrapped[3] = "2"
        /\ wrapped[4] = "3" /\ wrapped[5] = "4" /\ wrapped[6] = "rest"
    OBVIOUS
  <2> DEFINE called == <<"wrap">> \o Whole
  <2>3. /\ Len(called) = 6 /\ called[1] = "wrap" /\ called[2] = "1" /\ called[3] = "2"
        /\ called[4] = "3" /\ called[5] = "4" /\ called[6] = "rest"
    BY DEF Whole
  <2> HIDE DEF wrapped, called, S
  <2> QED BY <2>1, <2>2, <2>3, SeqEqual DEF called
<1> QED BY <1>1, <1>2, <1>3 DEF After

\* The patcher writes one jump at a time, with interrupts disabled.
PatcherPlaces ==
  /\ symbols \in Tables /\ hook \in 1 .. 3 /\ word \in 0 .. 4
  /\ patcher \in {"find", "failed", "trampoline", "off", "write", "done"}
  /\ patcher = "write" => ints = FALSE
  /\ patcher \in {"find", "failed"} => hook = 1
  /\ patcher = "done" => hook = 3

Untouched(a) ==
  /\ \A i \in Hooks : a # Target(i)
  /\ patcher = "write" => a # Target(hook)

\* What the functions hold, the one that is being written up to the last word.
CodeInv ==
  /\ DOMAIN code = Addresses
  /\ \A a \in Addresses : Untouched(a) => code[a] = Prologue
  /\ \A i \in Hooks : \A n \in 1 .. 4 : code[Target(i)][n] = Jump(i)[n]
  /\ patcher = "write" =>
       /\ DOMAIN code[Target(hook)] = 1 .. 4
       /\ \A n \in 1 .. word : code[Target(hook)][n] = Jump(hook)[n]

\* A trampoline is there before its function is written.
OrgInv ==
  /\ DOMAIN org = 1 .. 3
  /\ \A i \in Hooks : org[i] = Relay(i)
  /\ patcher \in {"off", "write"} => org[hook] = Relay(hook)

\* The registers at the n-th word of a jump to dst.
High(dst) == <<"high " \o dst[1], dst[2]>>

Loaded(dst, n) ==
  /\ n = 2 => r0 = High(dst)
  /\ n = 3 => r0 = dst
  /\ n >= 4 => ctr = dst

\* Where the caller can be, and what it has run of the call by then.
CallerInv ==
  /\ func \in Callable
  /\ place \in {"out", "function", "wrap", "trampoline", "rest", "back"}
  /\ place = "out" => trace = <<>>
  /\ place = "function" =>
       /\ pc \in 1 .. 4
       /\ patcher = "write" /\ pc > 1 => func # Target(hook)
       /\ \A i \in Hooks : func = Target(i) => trace = <<>> /\ Loaded(<<"wrap", Routed[i]>>, pc)
       /\ (\A i \in Hooks : func # Target(i)) => trace = After(<<>>, pc - 1)
  /\ place = "wrap" => wrapper \in Hooks /\ func = Target(wrapper) /\ trace = <<>>
  /\ place = "trampoline" =>
       /\ wrapper \in Hooks /\ func = Target(wrapper) /\ pc \in 1 .. 8
       /\ Loaded(<<"rest", func>>, pc)
       /\ trace = After(<<"wrap">>, IF pc <= 4 THEN 0 ELSE pc - 4)
  /\ place = "rest" => trace \in {After(<<>>, 4), After(<<"wrap">>, 4)}
  /\ place = "back" => trace \in {Whole, <<"wrap">> \o Whole}
                                \cup {<<"wrap">> : i \in {wrapper} \cap {3}}

PatchInv == PatcherPlaces /\ CodeInv /\ OrgInv /\ CallerInv

LEMMA PatchBegins == PatcherInit => PatchInv
<1> SUFFICES ASSUME PatcherInit  PROVE PatchInv
  OBVIOUS
<1>1. Hooks = {}
  BY DEF Hooks, PatcherInit
<1>2. PatcherPlaces
  BY DEF PatcherPlaces, PatcherInit
<1>3. CodeInv
  BY <1>1 DEF CodeInv, PatcherInit
<1>4. OrgInv
  BY <1>1 DEF OrgInv, PatcherInit
<1>5. CallerInv
  BY DEF CallerInv, PatcherInit, Callable
<1> QED BY <1>2, <1>3, <1>4, <1>5 DEF PatchInv

\* The targets are where they were, as long as the symbols are.
LEMMA TargetsStay == symbols' = symbols => \A i : Target(i)' = Target(i) /\ Relay(i)' = Relay(i)
BY DEF Target, ResolveKernelSymbol, Relay

LEMMA FindKeeps == PatchInv /\ Find => PatchInv'
<1> SUFFICES ASSUME PatchInv, Find  PROVE PatchInv'
  OBVIOUS
<1>1. /\ patcher = "find" /\ patcher' \in {"trampoline", "failed"}
      /\ UNCHANGED <<symbols, hook, word, ints, code, org, func, place, pc, wrapper, r0, ctr, trace>>
  BY DEF Find, callerVars
<1>2. Hooks' = Hooks /\ \A i : Target(i)' = Target(i) /\ Relay(i)' = Relay(i)
  BY <1>1, TargetsStay DEF Hooks
<1>3. PatcherPlaces'
  BY <1>1 DEF PatchInv, PatcherPlaces
<1>4. CodeInv'
  BY <1>1, <1>2 DEF PatchInv, CodeInv, Untouched
<1>5. OrgInv'
  BY <1>1, <1>2 DEF PatchInv, OrgInv
<1>6. CallerInv'
  BY <1>1, <1>2 DEF PatchInv, CallerInv, Loaded
<1> QED BY <1>3, <1>4, <1>5, <1>6 DEF PatchInv

LEMMA CreateTrampolineKeeps == PatchInv /\ CreateTrampoline => PatchInv'
<1> SUFFICES ASSUME PatchInv, CreateTrampoline  PROVE PatchInv'
  OBVIOUS
<1>1. /\ patcher = "trampoline" /\ patcher' = "off"
      /\ org' = [org EXCEPT ![hook] = Trampoline(Target(hook))]
      /\ UNCHANGED <<symbols, hook, word, ints, code, func, place, pc, wrapper, r0, ctr, trace>>
  BY DEF CreateTrampoline, callerVars, From, Target
<1>2. Hooks' = Hooks /\ \A i : Target(i)' = Target(i) /\ Relay(i)' = Relay(i)
  BY <1>1, TargetsStay DEF Hooks
<1>3. PatcherPlaces'
  BY <1>1 DEF PatchInv, PatcherPlaces
<1>4. CodeInv'
  BY <1>1, <1>2 DEF PatchInv, CodeInv, Untouched
<1>5. OrgInv'
  <2>1. hook \in 1 .. 3 /\ hook \notin Hooks /\ symbols \in Tables /\ Hooks \subseteq 1 .. 3
    BY <1>1 DEF PatchInv, PatcherPlaces, Hooks
  <2>2. Untouched(Target(hook)) /\ Target(hook) \in Addresses
    BY <1>1, <2>1, TargetsDiffer DEF Untouched
  <2>3. code[Target(hook)] = Prologue
    BY <2>2 DEF PatchInv, CodeInv
  <2>4. Trampoline(Target(hook)) = Relay(hook)
    BY <2>3, Zenon DEF Trampoline, Relay
  <2>5. DOMAIN org = 1 .. 3 /\ \A i \in Hooks : org[i] = Relay(i)
    BY DEF PatchInv, OrgInv
  <2>6. DOMAIN org' = 1 .. 3 /\ org'[hook] = Relay(hook)
        /\ \A i \in Hooks : org'[i] = Relay(i)
    BY <1>1, <2>1, <2>4, <2>5
  <2> QED BY <1>1, <1>2, <2>6 DEF OrgInv
<1>6. CallerInv'
  BY <1>1, <1>2 DEF PatchInv, CallerInv, Loaded
<1> QED BY <1>3, <1>4, <1>5, <1>6 DEF PatchInv

LEMMA InterruptsOffKeeps == PatchInv /\ InterruptsOff => PatchInv'
<1> SUFFICES ASSUME PatchInv, InterruptsOff  PROVE PatchInv'
  OBVIOUS
<1>1. /\ patcher = "off" /\ patcher' = "write" /\ ints' = FALSE /\ word' = 0
      /\ ~(place = "function" /\ func = Target(hook) /\ pc > 1)
      /\ UNCHANGED <<symbols, hook, code, org, func, place, pc, wrapper, r0, ctr, trace>>
  BY DEF InterruptsOff, callerVars, From, Target
<1>2. Hooks' = Hooks /\ \A i : Target(i)' = Target(i) /\ Relay(i)' = Relay(i)
  BY <1>1, TargetsStay DEF Hooks
<1>3. PatcherPlaces'
  BY <1>1 DEF PatchInv, PatcherPlaces
<1>4. CodeInv'
  <2>1. hook \in 1 .. 3 /\ hook \notin Hooks /\ symbols \in Tables /\ Hooks \subseteq 1 .. 3
    BY <1>1 DEF PatchInv, PatcherPlaces, Hooks
  <2>2. Untouched(Target(hook)) /\ Target(hook) \in Addresses
    BY <1>1, <2>1, TargetsDiffer DEF Untouched
  <2>3. code[Target(hook)] = Prologue
    BY <2>2 DEF PatchInv, CodeInv
  <2>4. DOMAIN code[Target(hook)] = 1 .. 4
    BY <2>3 DEF Prologue
  <2>5. \A a : Untouched(a)' => Untouched(a)
    BY <1>1, <1>2 DEF Untouched
  <2> QED BY <1>1, <1>2, <2>4, <2>5 DEF PatchInv, CodeInv
<1>5. OrgInv'
  BY <1>1, <1>2 DEF PatchInv, OrgInv
<1>6. CallerInv'
  BY <1>1, <1>2 DEF PatchInv, CallerInv, Loaded
<1> QED BY <1>3, <1>4, <1>5, <1>6 DEF PatchInv

LEMMA WriteWordKeeps == PatchInv /\ WriteWord => PatchInv'
<1> SUFFICES ASSUME PatchInv, WriteWord  PROVE PatchInv'
  OBVIOUS
<1>1. /\ patcher = "write" /\ word < 4 /\ word' = word + 1
      /\ code' = [code EXCEPT ![Target(hook)][word + 1] = Jump(hook)[word + 1]]
      /\ UNCHANGED <<symbols, patcher, hook, ints, org, func, place, pc, wrapper, r0, ctr, trace>>
  BY DEF WriteWord, callerVars, From, Target, Jump
<1>2. Hooks' = Hooks /\ \A i : Target(i)' = Target(i) /\ Relay(i)' = Relay(i)
  BY <1>1, TargetsStay DEF Hooks
<1>3. PatcherPlaces'
  BY <1>1 DEF PatchInv, PatcherPlaces
<1>4. CodeInv'
  <2>1. /\ hook \in 1 .. 3 /\ hook \notin Hooks /\ symbols \in Tables /\ Hooks \subseteq 1 .. 3
        /\ word \in 0 .. 3
    BY <1>1 DEF PatchInv, PatcherPlaces, Hooks
  <2>2. Target(hook) \in Addresses /\ \A i \in Hooks : Target(i) # Target(hook)
    BY <2>1, TargetsDiffer
  <2>3. DOMAIN code = Addresses /\ DOMAIN code[Target(hook)] = 1 .. 4
    BY <1>1 DEF PatchInv, CodeInv
  <2>4. /\ DOMAIN code' = Addresses /\ \A a \in Addresses \ {Target(hook)} : code'[a] = code[a]
        /\ code'[Target(hook)] = [code[Target(hook)] EXCEPT ![word + 1] = Jump(hook)[word + 1]]
    BY <1>1, <2>2, <2>3
  <2>5. /\ DOMAIN code'[Target(hook)] = 1 .. 4
        /\ code'[Target(hook)][word + 1] = Jump(hook)[word + 1]
        /\ \A n \in 1 .. word : code'[Target(hook)][n] = code[Target(hook)][n]
    BY <2>1, <2>3, <2>4
  <2>6. \A n \in 1 .. word' : code'[Target(hook)][n] = Jump(hook)[n]
    <3>1. \A n \in 1 .. word' : n \in 1 .. word \/ n = word + 1
      BY <1>1, <2>1
    <3> QED BY <1>1, <2>5, <3>1 DEF PatchInv, CodeInv
  <2>7. \A a \in Addresses : Untouched(a)' => code'[a] = Prologue
    BY <1>1, <1>2, <2>4 DEF PatchInv, CodeInv, Untouched
  <2>8. \A i \in Hooks : \A n \in 1 .. 4 : code'[Target(i)][n] = Jump(i)[n]
    <3>1. \A i \in Hooks : Target(i) \in Addresses \ {Target(hook)}
      BY <2>1, <2>2, TargetsDiffer
    <3> QED BY <2>4, <3>1 DEF PatchInv, CodeInv
  <2> QED BY <1>1, <1>2, <2>4, <2>5, <2>6, <2>7, <2>8 DEF CodeInv
<1>5. OrgInv'
  BY <1>1, <1>2 DEF PatchInv, OrgInv
<1>6. CallerInv'
  BY <1>1, <1>2 DEF PatchInv, CallerInv, Loaded
<1> QED BY <1>3, <1>4, <1>5, <1>6 DEF PatchInv

LEMMA InterruptsOnKeeps == PatchInv /\ InterruptsOn => PatchInv'
<1> SUFFICES ASSUME PatchInv, InterruptsOn  PROVE PatchInv'
  OBVIOUS
<1>1. /\ patcher = "write" /\ word = 4 /\ ints' = TRUE /\ word' = 0
      /\ \/ hook = 3 /\ patcher' = "done" /\ hook' = hook
         \/ hook # 3 /\ patcher' = "trampoline" /\ hook' = hook + 1
      /\ UNCHANGED <<symbols, code, org, func, place, pc, wrapper, r0, ctr, trace>>
  BY DEF InterruptsOn, callerVars
<1>2. \A i : Target(i)' = Target(i) /\ Relay(i)' = Relay(i)
  BY <1>1, TargetsStay
<1>3. Hooks' = Hooks \cup {hook} /\ hook \notin Hooks
  BY <1>1 DEF Hooks, PatchInv, PatcherPlaces
<1>4. PatcherPlaces'
  BY <1>1 DEF PatchInv, PatcherPlaces
<1>5. CodeInv'
  <2>1. \A a : Untouched(a)' => Untouched(a)
    BY <1>1, <1>2, <1>3 DEF Untouched
  <2>2. \A n \in 1 .. 4 : code[Target(hook)][n] = Jump(hook)[n]
    BY <1>1 DEF PatchInv, CodeInv
  <2> QED BY <1>1, <1>2, <1>3, <2>1, <2>2 DEF PatchInv, CodeInv
<1>6. OrgInv'
  BY <1>1, <1>2, <1>3 DEF PatchInv, OrgInv
<1>7. CallerInv'
  <2>1. place = "function" =>
          /\ pc \in 1 .. 4
          /\ \A i \in Hooks' : func = Target(i) => trace = <<>> /\ Loaded(<<"wrap", Routed[i]>>, pc)
          /\ (\A i \in Hooks' : func # Target(i)) => trace = After(<<>>, pc - 1)
    <3> SUFFICES ASSUME place = "function"
                 PROVE /\ pc \in 1 .. 4
                       /\ \A i \in Hooks' : func = Target(i) =>
                            trace = <<>> /\ Loaded(<<"wrap", Routed[i]>>, pc)
                       /\ (\A i \in Hooks' : func # Target(i)) => trace = After(<<>>, pc - 1)
      OBVIOUS
    <3>1. /\ pc \in 1 .. 4 /\ (pc > 1 => func # Target(hook))
          /\ \A i \in Hooks : func = Target(i) => trace = <<>> /\ Loaded(<<"wrap", Routed[i]>>, pc)
          /\ (\A i \in Hooks : func # Target(i)) => trace = After(<<>>, pc - 1)
      BY <1>1 DEF PatchInv, CallerInv
    <3>2. ASSUME func = Target(hook)
          PROVE trace = <<>> /\ Loaded(<<"wrap", Routed[hook]>>, pc)
      <4>1. pc = 1
        BY <3>1, <3>2
      <4>2. \A i \in Hooks : func # Target(i)
        BY <1>3, <3>2, TargetsDiffer DEF PatchInv, PatcherPlaces, Hooks
      <4>3. After(<<>>, pc - 1) = <<>>
        BY <4>1 DEF After
      <4> QED BY <3>1, <4>1, <4>2, <4>3 DEF Loaded
    <3> QED BY <1>3, <3>1, <3>2
  <2> QED BY <1>1, <1>2, <1>3, <2>1 DEF PatchInv, CallerInv, Loaded
<1> QED BY <1>4, <1>5, <1>6, <1>7 DEF PatchInv

\* Nothing that the caller does concerns the patcher.
LEMMA PatcherUntouched ==
  PatchInv /\ UNCHANGED patcherVars
    => /\ PatcherPlaces' /\ CodeInv' /\ OrgInv'
       /\ Hooks' = Hooks /\ \A i : Target(i)' = Target(i) /\ Relay(i)' = Relay(i)
<1> SUFFICES ASSUME PatchInv, UNCHANGED patcherVars
             PROVE /\ PatcherPlaces' /\ CodeInv' /\ OrgInv'
                   /\ Hooks' = Hooks /\ \A i : Target(i)' = Target(i) /\ Relay(i)' = Relay(i)
  OBVIOUS
<1>1. UNCHANGED <<symbols, patcher, hook, word, ints, code, org>>
  BY DEF patcherVars
<1>2. Hooks' = Hooks /\ \A i : Target(i)' = Target(i) /\ Relay(i)' = Relay(i)
  BY <1>1, TargetsStay DEF Hooks
<1>3. PatcherPlaces'
  BY <1>1 DEF PatchInv, PatcherPlaces
<1>4. CodeInv'
  BY <1>1, <1>2 DEF PatchInv, CodeInv, Untouched
<1>5. OrgInv'
  BY <1>1, <1>2 DEF PatchInv, OrgInv
<1> QED BY <1>2, <1>3, <1>4, <1>5

LEMMA CallKeeps == PatchInv /\ Call => PatchInv'
<1> SUFFICES ASSUME PatchInv, Call  PROVE PatchInv'
  OBVIOUS
<1>1. /\ place = "out" /\ func' \in Callable /\ place' = "function" /\ pc' = 1
      /\ UNCHANGED <<wrapper, r0, ctr, trace, patcherVars>>
  BY DEF Call, Goto
<1>2. /\ PatcherPlaces' /\ CodeInv' /\ OrgInv' /\ Hooks' = Hooks
      /\ \A i : Target(i)' = Target(i)
  BY <1>1, PatcherUntouched
<1>3. trace = <<>> /\ After(<<>>, pc' - 1) = <<>>
  BY <1>1 DEF PatchInv, CallerInv, After
<1>4. CallerInv'
  BY <1>1, <1>2, <1>3 DEF CallerInv, Loaded
<1> QED BY <1>2, <1>4 DEF PatchInv

\* The n-th word of a jump to dst loads the target, the fourth goes there.
LEMMA JumpStep ==
  ASSUME NEW dst, NEW op, NEW arg, pc \in 1 .. 3, Loaded(dst, pc), pc' = pc + 1,
         /\ pc = 1 => op = "lis" /\ arg = dst
         /\ pc = 2 => op = "ori" /\ arg = dst
         /\ pc = 3 => op = "mtctr",
         op = "lis" => r0' = High(arg),
         op = "ori" /\ r0 = High(arg) => r0' = arg,
         op = "mtctr" => ctr' = r0
  PROVE  Loaded(dst, pc)'
<1>1. CASE pc = 1
  BY <1>1 DEF Loaded
<1>2. CASE pc = 2
  BY <1>2 DEF Loaded
<1>3. CASE pc = 3
  BY <1>3 DEF Loaded
<1> QED BY <1>1, <1>2, <1>3

LEMMA ExecuteKeeps == PatchInv /\ Execute => PatchInv'
<1> SUFFICES ASSUME PatchInv, Execute  PROVE PatchInv'
  OBVIOUS
<1> DEFINE op == Instruction[1]
           dst == Instruction[2]
<1>1. /\ place \in {"function", "trampoline"} /\ ints /\ func' = func /\ UNCHANGED patcherVars
      /\ trace' = IF op = "own" THEN Append(trace, dst[1]) ELSE trace
      /\ op = "lis" => r0' = High(dst)
      /\ op = "ori" /\ r0 = High(dst) => r0' = dst
      /\ op = "mtctr" => ctr' = r0
      /\ op = "bctr" => Branch
      /\ op # "bctr" => /\ wrapper' = wrapper
                        /\ IF place = "function" /\ pc = 4 THEN Goto("rest", 1) ELSE Goto(place, pc + 1)
  BY DEF Execute, High
<1>2. /\ PatcherPlaces' /\ CodeInv' /\ OrgInv' /\ Hooks' = Hooks
      /\ \A i : Target(i)' = Target(i)
  BY <1>1, PatcherUntouched
<1>3. /\ Hooks \subseteq 1 .. 3 /\ symbols \in Tables /\ patcher # "write"
      /\ func \in Callable /\ func \in Addresses
  BY <1>1 DEF Hooks, PatchInv, PatcherPlaces, CallerInv, Addresses
<1>4. ASSUME place = "function", NEW i \in Hooks, func = Target(i)
      PROVE CallerInv'
  <2>1. /\ pc \in 1 .. 4 /\ trace = <<>> /\ Loaded(<<"wrap", Routed[i]>>, pc)
    BY <1>4 DEF PatchInv, CallerInv
  <2>2. Instruction = Jump(i)[pc]
    BY <1>4, <2>1 DEF Instruction, PatchInv, CodeInv
  <2>3. \A j \in Hooks : func = Target(j) => j = i
    BY <1>3, <1>4, TargetsDiffer
  <2>4. CASE pc \in 1 .. 3
    <3>1. /\ pc = 1 => op = "lis" /\ dst = <<"wrap", Routed[i]>>
          /\ pc = 2 => op = "ori" /\ dst = <<"wrap", Routed[i]>>
          /\ pc = 3 => op = "mtctr"
      BY <1>3, <2>2, JumpWords
    <3>2. op # "own" /\ op # "bctr"
      BY <2>4, <3>1
    <3> HIDE DEF op, dst
    <3>3. place' = "function" /\ pc' = pc + 1 /\ trace' = <<>>
      BY <1>1, <1>4, <2>1, <2>4, <3>2 DEF Goto
    <3>4. PICK to : to = <<"wrap", Routed[i]>>
      OBVIOUS
    <3>5. Loaded(to, pc)'
      BY <1>1, <2>1, <2>4, <3>1, <3>3, <3>4, JumpStep
    <3>6. \A j \in Hooks' : func' = Target(j)' => trace' = <<>> /\ Loaded(<<"wrap", Routed[j]>>, pc)'
      BY <1>1, <1>2, <2>3, <3>3, <3>4, <3>5
    <3>7. ~\A j \in Hooks' : func' # Target(j)'
      BY <1>1, <1>2, <1>4
    <3>8. /\ pc' \in 1 .. 4 /\ func' \in Callable
          /\ place' \in {"out", "function", "wrap", "trampoline", "rest", "back"}
          /\ ~(patcher' = "write" /\ pc' > 1)
      BY <1>1, <1>3, <2>4, <3>3 DEF patcherVars
    <3>9. /\ place' # "out" /\ place' # "wrap" /\ place' # "trampoline"
          /\ place' # "rest" /\ place' # "back"
      BY <3>3
    <3> QED BY <3>6, <3>7, <3>8, <3>9, Zenon DEF CallerInv
  <2>5. CASE pc = 4
    <3>1. op = "bctr" /\ ctr = <<"wrap", Routed[i]>>
      BY <1>3, <2>1, <2>2, <2>5, JumpWords DEF Loaded
    <3>2. place' = "wrap" /\ wrapper' = CHOOSE j \in 1 .. 3 : Routed[j] = Routed[i]
      BY <1>1, <3>1 DEF Branch, Goto
    <3>3. wrapper' = i
      BY <1>3, <3>2 DEF Routed
    <3>4. trace' = <<>>
      BY <1>1, <2>1, <3>1
    <3> QED BY <1>1, <1>2, <1>3, <1>4, <3>2, <3>3, <3>4 DEF CallerInv
  <2> QED BY <2>1, <2>4, <2>5
<1>5. ASSUME place = "function", \A i \in Hooks : func # Target(i)
      PROVE CallerInv'
  <2>1. pc \in 1 .. 4 /\ trace = After(<<>>, pc - 1)
    BY <1>5 DEF PatchInv, CallerInv
  <2>2. code[func] = Prologue
    BY <1>3, <1>5 DEF PatchInv, CodeInv, Untouched
  <2>3. op = "own" /\ dst[1] = Digit[pc]
    <3>1. Instruction = Prologue[pc]
      BY <1>5, <2>2 DEF Instruction
    <3>2. Prologue[pc] = <<"own", <<Digit[pc], "">>>>
      BY <2>1, PrologueWords
    <3>3. Instruction = <<"own", <<Digit[pc], "">>>>
      BY <3>1, <3>2
    <3> HIDE DEF op, dst
    <3>4. op = "own" /\ dst = <<Digit[pc], "">>
      BY <3>3 DEF op, dst
    <3> QED BY <3>4
  <2>4. trace' = After(<<>>, pc)
    BY <1>1, <2>1, <2>3, AfterNext
  <2> HIDE DEF op, dst
  <2>5. CASE pc = 4
    <3>1. place' = "rest"
      BY <1>1, <1>5, <2>3, <2>5 DEF Goto
    <3> QED BY <1>1, <1>3, <2>4, <2>5, <3>1 DEF CallerInv
  <2>6. CASE pc # 4
    <3>1. place' = "function" /\ pc' = pc + 1 /\ pc' \in 1 .. 4 /\ pc' - 1 = pc
      BY <1>1, <1>5, <2>1, <2>3, <2>6 DEF Goto
    <3>2. \A i \in Hooks' : func' # Target(i)'
      BY <1>1, <1>2, <1>5
    <3>3. patcher' # "write"
      BY <1>1, <1>3 DEF patcherVars
    <3> QED BY <1>1, <1>3, <2>4, <3>1, <3>2, <3>3 DEF CallerInv
  <2> QED BY <2>5, <2>6
<1>6. ASSUME place = "trampoline"
      PROVE CallerInv'
  <2>1. /\ wrapper \in Hooks /\ func = Target(wrapper) /\ pc \in 1 .. 8
        /\ Loaded(<<"rest", func>>, pc)
        /\ trace = After(<<"wrap">>, IF pc <= 4 THEN 0 ELSE pc - 4)
    BY <1>6 DEF PatchInv, CallerInv
  <2>2. Instruction = Relay(wrapper)[pc]
    BY <1>6, <2>1 DEF Instruction, PatchInv, OrgInv
  <2>3. CASE pc \in 1 .. 3
    <3>1. /\ pc = 1 => op = "lis" /\ dst = <<"rest", func>>
          /\ pc = 2 => op = "ori" /\ dst = <<"rest", func>>
          /\ pc = 3 => op = "mtctr"
      <4>1. /\ pc = 1 => Instruction = <<"lis", <<"rest", func>>>>
            /\ pc = 2 => Instruction = <<"ori", <<"rest", func>>>>
            /\ pc = 3 => Instruction = <<"mtctr", Nowhere>>
        BY <2>1, <2>2, RelayWords, Zenon
      <4>2. PICK in : in = Instruction
        OBVIOUS
      <4>3. /\ pc = 1 => in[1] = "lis" /\ in[2] = <<"rest", func>>
            /\ pc = 2 => in[1] = "ori" /\ in[2] = <<"rest", func>>
            /\ pc = 3 => in[1] = "mtctr"
        BY <4>1, <4>2
      <4> QED BY <4>2, <4>3
    <3>2. op # "own" /\ op # "bctr"
      BY <2>3, <3>1
    <3> HIDE DEF op, dst
    <3>3. place' = "trampoline" /\ pc' = pc + 1 /\ trace' = After(<<"wrap">>, 0) /\ wrapper' = wrapper
      BY <1>1, <1>6, <2>1, <2>3, <3>2 DEF Goto
    <3>4. PICK to : to = <<"rest", func>>
      OBVIOUS
    <3>5. Loaded(to, pc)'
      BY <1>1, <2>1, <2>3, <3>1, <3>3, <3>4, JumpStep
    <3>6. Loaded(<<"rest", func>>, pc)'
      BY <1>1, <3>4, <3>5
    <3>7. pc' \in 1 .. 8 /\ (IF pc' <= 4 THEN 0 ELSE pc' - 4) = 0
      BY <2>3, <3>3
    <3> QED BY <1>1, <1>2, <1>3, <2>1, <3>3, <3>6, <3>7 DEF CallerInv
  <2>4. CASE pc \in 4 .. 7
    <3>1. op = "own" /\ dst[1] = Digit[pc - 3]
      <4>1. pc - 3 \in 1 .. 4 /\ (pc - 3) + 3 = pc
        BY <2>4
      <4>2. Relay(wrapper)[(pc - 3) + 3] = <<"own", <<Digit[pc - 3], "">>>>
        BY <4>1, RelayWords
      <4>3. Instruction = <<"own", <<Digit[pc - 3], "">>>>
        BY <2>2, <4>1, <4>2
      <4>4. PICK in : in = Instruction
        OBVIOUS
      <4>5. in[1] = "own" /\ in[2] = <<Digit[pc - 3], "">>
        BY <4>3, <4>4
      <4>6. op = "own" /\ dst = <<Digit[pc - 3], "">>
        BY <4>4, <4>5, Zenon
      <4> HIDE DEF op, dst
      <4> QED BY <4>6
    <3> HIDE DEF op, dst
    <3>2. place' = "trampoline" /\ pc' = pc + 1 /\ wrapper' = wrapper /\ ctr' = ctr
      BY <1>1, <1>6, <2>4, <3>1 DEF Goto, Execute, op
    <3>3. trace' = After(<<"wrap">>, pc - 3)
      <4>1. pc - 4 \in 0 .. 3 /\ (pc - 4) + 1 = pc - 3 /\ (IF pc <= 4 THEN 0 ELSE pc - 4) = pc - 4
        BY <2>4
      <4>2. Append(After(<<"wrap">>, pc - 4), Digit[(pc - 4) + 1]) = After(<<"wrap">>, (pc - 4) + 1)
        BY <4>1, AfterNext
      <4> QED BY <1>1, <2>1, <3>1, <4>1, <4>2
    <3>4. pc' \in 1 .. 8 /\ (IF pc' <= 4 THEN 0 ELSE pc' - 4) = pc - 3 /\ pc' >= 4 /\ pc' # 2 /\ pc' # 3
      BY <2>4, <3>2
    <3>5. Loaded(<<"rest", func>>, pc)'
      <4>1. ctr = <<"rest", func>>
        BY <2>1, <2>4 DEF Loaded
      <4> QED BY <1>1, <3>2, <3>4, <4>1 DEF Loaded
    <3>6. wrapper' \in Hooks' /\ func' = Target(wrapper)' /\ func' \in Callable
      BY <1>1, <1>2, <1>3, <2>1, <3>2
    <3>7. trace' = After(<<"wrap">>, IF pc' <= 4 THEN 0 ELSE pc' - 4)
      BY <3>3, <3>4
    <3>8. /\ place' # "out" /\ place' # "function" /\ place' # "wrap" /\ place' # "rest" /\ place' # "back"
          /\ place' \in {"out", "function", "wrap", "trampoline", "rest", "back"}
      BY <3>2
    <3>9. pc' \in 1 .. 8
      BY <3>4
    <3> QED BY <3>5, <3>6, <3>7, <3>8, <3>9, Zenon DEF CallerInv
  <2>5. CASE pc = 8
    <3>1. op = "bctr" /\ ctr = <<"rest", func>>
      <4>1. Instruction = <<"bctr", Nowhere>>
        BY <2>2, <2>5, RelayWords, Zenon
      <4>2. PICK in : in = Instruction
        OBVIOUS
      <4>3. in[1] = "bctr"
        BY <4>1, <4>2
      <4>4. ctr = <<"rest", func>>
        BY <2>1, <2>5 DEF Loaded
      <4> QED BY <4>2, <4>3, <4>4
    <3>2. place' = "rest"
      BY <1>1, <3>1 DEF Branch, Goto
    <3>3. trace' = After(<<"wrap">>, 4)
      BY <1>1, <2>1, <2>5, <3>1
    <3> QED BY <1>1, <1>3, <3>2, <3>3 DEF CallerInv
  <2> QED BY <2>1, <2>3, <2>4, <2>5
<1> QED BY <1>1, <1>2, <1>4, <1>5, <1>6 DEF PatchInv

LEMMA WrapKeeps == PatchInv /\ Wrap => PatchInv'
<1> SUFFICES ASSUME PatchInv, Wrap  PROVE PatchInv'
  OBVIOUS
<1>1. /\ place = "wrap" /\ ints /\ trace' = Append(trace, "wrap")
      /\ UNCHANGED <<func, wrapper, r0, ctr, patcherVars>>
      /\ \/ Goto(IF org[wrapper] = <<>> THEN "wild" ELSE "trampoline", 1)
         \/ Routed[wrapper] = "grade_binary" /\ Goto("back", 1)
  BY DEF Wrap
<1>2. /\ PatcherPlaces' /\ CodeInv' /\ OrgInv' /\ Hooks' = Hooks
      /\ \A i : Target(i)' = Target(i)
  BY <1>1, PatcherUntouched
<1>3. wrapper \in Hooks /\ func = Target(wrapper) /\ func \in Callable /\ trace' = <<"wrap">>
  BY <1>1, WholeRun DEF PatchInv, CallerInv
<1>4. CASE Goto(IF org[wrapper] = <<>> THEN "wild" ELSE "trampoline", 1)
  <2>1. org[wrapper] # <<>>
    BY <1>3, RelayWords DEF PatchInv, OrgInv
  <2>2. place' = "trampoline" /\ pc' = 1
    BY <1>4, <2>1 DEF Goto
  <2>3. trace' = After(<<"wrap">>, 0)
    BY <1>3 DEF After
  <2> QED BY <1>1, <1>2, <1>3, <2>2, <2>3 DEF CallerInv, Loaded, PatchInv
<1>5. CASE Routed[wrapper] = "grade_binary" /\ Goto("back", 1)
  <2>1. wrapper = 3
    BY <1>3, <1>5 DEF Hooks, Routed
  <2>2. place' = "back"
    BY <1>5 DEF Goto
  <2> QED BY <1>1, <1>2, <1>3, <2>1, <2>2 DEF CallerInv, PatchInv
<1> QED BY <1>1, <1>4, <1>5

LEMMA RestKeeps == PatchInv /\ Rest => PatchInv'
<1> SUFFICES ASSUME PatchInv, Rest  PROVE PatchInv'
  OBVIOUS
<1>1. /\ place = "rest" /\ trace' = Append(trace, "rest") /\ place' = "back"
      /\ UNCHANGED <<func, wrapper, r0, ctr, patcherVars>>
  BY DEF Rest, Goto
<1>2. /\ PatcherPlaces' /\ CodeInv' /\ OrgInv' /\ Hooks' = Hooks
  BY <1>1, PatcherUntouched
<1>3. trace' \in {Whole, <<"wrap">> \o Whole} /\ func' \in Callable
  BY <1>1, WholeRun DEF PatchInv, CallerInv
<1> QED BY <1>1, <1>2, <1>3, Zenon DEF CallerInv, PatchInv

LEMMA ReturnKeeps == PatchInv /\ Return => PatchInv'
<1> SUFFICES ASSUME PatchInv, Return  PROVE PatchInv'
  OBVIOUS
<1>1. /\ func' = "other" /\ place' = "out" /\ trace' = <<>> /\ UNCHANGED patcherVars
  BY DEF Return, Goto
<1>2. PatcherPlaces' /\ CodeInv' /\ OrgInv'
  BY <1>1, PatcherUntouched
<1> QED BY <1>1, <1>2 DEF CallerInv, PatchInv, Callable

LEMMA PatchKeeps == PatchInv /\ [PatcherNext]_(<<patcherVars, callerVars>>) => PatchInv'
<1>1. ASSUME PatchInv, UNCHANGED <<patcherVars, callerVars>>  PROVE PatchInv'
  <2>1. /\ PatcherPlaces' /\ CodeInv' /\ OrgInv' /\ Hooks' = Hooks
        /\ \A i : Target(i)' = Target(i)
    BY <1>1, PatcherUntouched
  <2>2. UNCHANGED <<func, place, pc, wrapper, r0, ctr, trace, patcher, hook>>
    BY <1>1 DEF callerVars, patcherVars
  <2> QED BY <1>1, <2>1, <2>2 DEF PatchInv, CallerInv, Loaded
<1> QED
  BY <1>1, FindKeeps, CreateTrampolineKeeps, InterruptsOffKeeps, WriteWordKeeps, InterruptsOnKeeps,
     CallKeeps, ExecuteKeeps, WrapKeeps, RestKeeps, ReturnKeeps DEF PatcherNext, InitPatcher

-----------------------------------------------------------------------------
(* The boot.                                                               *)

BootInv == StartInv /\ PatchInv

LEMMA BootKeeps == BootInv /\ [BootNext]_bootVars => BootInv'
<1>1. [BootNext]_bootVars
        => [\E d \in Drivers : Start(d)]_startVars /\ [PatcherNext]_(<<patcherVars, callerVars>>)
  BY DEF BootNext, Patch, StartStep, bootVars
<1> QED BY <1>1, StartKeeps, PatchKeeps DEF BootInv

\* What StartKeeps and PatchKeeps keep, whichever of the two takes a step.
LEMMA BootInvariant == BootSpec => []BootInv
<1>1. BootInit => BootInv
  BY StartBegins, PatchBegins DEF BootInit, BootInv
<1> QED BY <1>1, BootKeeps, PTL DEF BootSpec

\* Whoever finds a service, is called by a hook, a timer or an interrupt, finds all
\* that it takes, however the start functions take turns and whichever fail.
THEOREM AlwaysReady == BootSpec => []FoundIsReady
<1>1. BootInv => FoundIsReady
  BY FoundIsReadyFollows DEF BootInv
<1> QED BY <1>1, BootInvariant, PTL

\* What a start that failed, at whichever resource, still holds: no more than
\* LeftAfterFailure says of the drivers with a free() of their own and of the sound
\* engine, and of the others all that their finished steps took.
THEOREM AlwaysFreed == BootSpec => []FreedAfterFailure
<1>1. ASSUME BootInv  PROVE FreedAfterFailure
  <2>1. StartInv
    BY <1>1 DEF BootInv
  <2>2. ASSUME NEW d \in failed \ DOMAIN LeftAfterFailure, NEW j \in 1 .. at[d] - 1,
               Script[d][j].kind = "get"
        PROVE Names(Script[d][j].what) \ {"super"} \subseteq held[d]
    <3>1. d \in {"pe", "cpu", "ic", "ethernet", "gmt"} /\ d \in Drivers
      BY <2>1, DriversAre, LeavesAre DEF StartInv
    <3>2. at[d] \in 1 .. Len(Script[d]) + 1 /\ j \in 1 .. Len(Script[d])
      BY <2>1, <3>1, LengthsAre DEF StartInv
    <3>3. Names(Script[d][j].what) \cap (Free(d) \cup UNION Together) \subseteq {"super"}
      BY <2>2, <3>1, <3>2, KeepsAll
    <3> QED BY <2>1, <2>2, <3>1, <3>3 DEF StartInv, Lost, Done
  <2> QED BY <2>1, <2>2 DEF StartInv, FreedOf, FreedAfterFailure
<1> QED BY <1>1, BootInvariant, PTL

\* A call of a function that initPatcher is routing, at whichever instruction it is
\* made, runs the whole function once.
THEOREM CallsAlwaysWhole == BootSpec => []CallsWhole
<1>1. BootInv => CallsWhole
  BY DEF BootInv, PatchInv, CallerInv, CallsWhole
<1> QED BY <1>1, BootInvariant, PTL
=============================================================================
