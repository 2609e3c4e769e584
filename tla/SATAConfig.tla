------------------------------ MODULE SATAConfig ------------------------------
(***************************************************************************)
(* What XenonSATA overrides of IOATAController besides its registers: what *)
(* it says of the bus, the configuration of each unit, and the change it   *)
(* makes to a command.  The controller's work, and the arrays _devInfo and *)
(* busTimings, are IOKit's.                                                *)
(***************************************************************************)
EXTENDS Integers, FiniteSets

Units == 0 .. 1

\* What _devInfo holds of a unit.
Types   == {"unknown", "ata", "atapi"}
DevInfo == [Units -> [type : Types, packetSend : {"none", "drq", "irq"}]]

\* The transfer modes that the driver offers, as numbers of modes from 0 up.
BusModes == [pio |-> 5, dma |-> 3, ultra |-> 7, extendedLBA |-> TRUE, blocks |-> 256]

\* The result without such a unit; without an object to fill in it is the same.
Failed == [pio |-> -1]

\* The units on the bus: none of those whose type is not known.
ProvideBusInfo(devInfo) ==
  [modes |-> BusModes, units |-> Cardinality({u \in Units : devInfo[u].type # "unknown"})]

\* Unlike getConfig, this does not look whether there is such a unit: behind the
\* array it writes to whatever lies there, which the model has no value for.
SelectConfig(devInfo, packetConfig, unit) ==
  [devInfo EXCEPT ![unit].packetSend = packetConfig]

\* The timings are those that IOATAController keeps.
GetConfig(devInfo, busTimings, unit) ==
  IF unit \notin Units THEN Failed
  ELSE [timing |-> busTimings[unit], packetConfig |-> devInfo[unit].packetSend]

INQUIRY == 18  \* kSCSICmd_INQUIRY

\* A command: whether it is kATAPIFnExecIO, the length of its packet and the first
\* bytes of it.  An INQUIRY for 36 bytes gets control bits.
ExecuteCommand(cmd) ==
  LET Data(i) == cmd.packet[i + 1] IN
  IF cmd.execIO /\ cmd.size >= 6 /\ Data(0) = INQUIRY /\ Data(4) = 36
  THEN [cmd EXCEPT !.packet[6] = 192] ELSE cmd

Commands ==
  [execIO : BOOLEAN, size : {6, 12},
   packet : {<<op, 0, 0, 0, len, 0>> : op \in {INQUIRY, INQUIRY + 1}, len \in {36, 96}}]
    \cup [execIO : BOOLEAN, size : {0}, packet : {<<>>}]

-----------------------------------------------------------------------------
\* What a unit is configured to, and no other, is what it is asked for; every
\* unit that has a type counts, and one that is not there has no configuration.
ASSUME ConfigAssumption ==
  \A devInfo \in DevInfo, unit \in Units, packetConfig \in {"none", "drq", "irq"} :
    LET timings == [u \in Units |-> u]
        after   == SelectConfig(devInfo, packetConfig, unit)
    IN
    /\ GetConfig(after, timings, unit).packetConfig = packetConfig
    /\ \A u \in Units \ {unit} : GetConfig(after, timings, u) = GetConfig(devInfo, timings, u)
    /\ GetConfig(after, timings, 2) = Failed
    /\ ProvideBusInfo(after) = ProvideBusInfo(devInfo)

\* A command that is sent again is the same command, and only control bits of an
\* INQUIRY are changed: no packet is touched past its length.
ASSUME CommandAssumption ==
  \A cmd \in Commands :
    LET sent == ExecuteCommand(cmd) IN
    /\ ExecuteCommand(sent) = sent
    /\ sent # cmd => cmd.execIO /\ cmd.packet[1] = INQUIRY /\ cmd.size >= 6
    /\ \A i \in DOMAIN cmd.packet \ {6} : sent.packet[i] = cmd.packet[i]
=============================================================================
