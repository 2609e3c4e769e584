---------------------------- MODULE EthernetLink ----------------------------
(***************************************************************************)
(* The life cycle of XenonEthernet (the PHY at the end of start, enable,   *)
(* disable and initHardware), the link interrupt and the PHY accesses of   *)
(* phyUpdateLinkStatus (XenonEthernet.cpp, _HW.cpp, _PHY.cpp).             *)
(*                                                                         *)
(* The firmware is taken to leave the interrupts masked, so that start()   *)
(* has the PHY for itself. The interface calls enable() and disable() on   *)
(* the workloop that the interrupt's event source is on: one pc, and       *)
(* enable() does not overlap with handleInterrupt(). The cable is plugged  *)
(* and unplugged between any two steps. A PHY access is one step that      *)
(* reads the register or times out, as an answer at the last poll does     *)
(* too. The rings are TxRing and RxRing; here only the number of packets   *)
(* in the transmit ring matters.                                           *)
(***************************************************************************)
EXTENDS Integers

CONSTANTS
  Advertised,  \* the PHY's advertisement register
  Supported,   \* mediums in the PHY's status register
  MaxAddr,     \* kXenonEthernetPhyMaxAddr
  PhyAt,       \* the address of the PHY
  MaxHeld      \* bound: packets in the transmit ring

\* The mediums in the order in which phyGetActiveMedium prefers them, the last
\* first: 10Half, 10Full, 100Half, 100Full.  NoMedium is NULL.
Media    == 1..4
NoMedium == 0

ASSUME MediaAssumption == Advertised \subseteq Media /\ Supported \subseteq Media
ASSUME PhyAssumption   == MaxAddr \in Nat /\ PhyAt \in 0..MaxAddr
ASSUME BoundAssumption == MaxHeld \in Nat

VARIABLES
  addr, mediums,       \* phyProbe's, _phyAddr after it; the entries of _mediumTypes
  linkUp, partner,     \* the cable, and the abilities of the other end
  causes, unmasked,    \* interrupt status, and whether initHardware unmasked it
  opened,              \* the provider has this driver as its owner
  isEnabled,           \* _isEnabled
  built,               \* initTransmitReceiveBuffers has filled the rings
  held,                \* mbufs in the transmit ring
  pc, latched,         \* the workloop, and handleInterrupt's intStatus
  enabling,            \* phyUpdateLinkStatus was called from enable()
  anar,                \* phyGetActiveMedium's
  active, medium,      \* what setLinkStatus was told last
  timedOut,            \* the last phyUpdateLinkStatus gave up
  result               \* what the last enable() returned, and why

phyVars    == <<addr, mediums>>
cableVars  == <<linkUp, partner>>
lifeVars   == <<opened, isEnabled, built, enabling, result>>
reportVars == <<anar, active, medium, timedOut>>
vars == <<phyVars, cableVars, causes, unmasked, lifeVars, held, pc, latched, reportVars>>

Causes == {"Link", "Other"}

TypeOK ==
  /\ addr \in 0..MaxAddr /\ mediums \subseteq Media
  /\ linkUp \in BOOLEAN /\ partner \subseteq Media
  /\ causes \subseteq Causes /\ unmasked \in BOOLEAN
  /\ opened \in BOOLEAN /\ isEnabled \in BOOLEAN /\ built \in BOOLEAN
  /\ held \in 0..MaxHeld
  /\ pc \in {"probe", "mediums", "failed", "idle", "init", "ack", "status", "anar", "anlp", "return"}
  /\ latched \subseteq Causes
  /\ enabling \in BOOLEAN
  /\ anar \subseteq Media
  /\ active \in BOOLEAN /\ medium \in Media \cup {NoMedium}
  /\ timedOut \in BOOLEAN
  /\ result \in {"none", "success", "enabled", "notOpened", "notInitialised"}

\* start() has enabled the event source and calls phyProbe.
Init ==
  /\ addr = 0 /\ mediums = {}
  /\ linkUp \in BOOLEAN /\ partner \in SUBSET Media
  /\ causes = {} /\ unmasked = FALSE
  /\ opened = FALSE /\ isEnabled = FALSE /\ built = FALSE /\ held = 0
  /\ pc = "probe" /\ latched = {} /\ enabling = FALSE
  /\ anar = {} /\ active = FALSE /\ medium = NoMedium /\ timedOut = FALSE
  /\ result = "none"

-----------------------------------------------------------------------------
(* The PHY at the end of start                                             *)

\* phyReadWithAddr.
PhyRead(answered, gaveUp) == answered \/ gaveUp

OthersInStart ==
  UNCHANGED <<cableVars, causes, unmasked, lifeVars, held, latched, reportVars>>

\* Nothing there, or one of two reads of the status gave up: on to the next.
ProbeNext ==
  /\ pc = "probe"
  /\ IF addr < MaxAddr THEN addr' = addr + 1 /\ pc' = "probe"
                       ELSE addr' = addr /\ pc' = "failed"
  /\ UNCHANGED mediums /\ OthersInStart

\* The address is taken, and the two identifiers are read.
ProbeFound ==
  /\ pc = "probe" /\ addr = PhyAt
  /\ PhyRead(pc' = "mediums", pc' = "failed")
  /\ UNCHANGED phyVars /\ OthersInStart

\* phyAddMedium: no memory, no entry.  At most one of them is missing (a bound).
Added == {Supported \ lacking : lacking \in {{}} \cup {{m} : m \in Media}}

\* phyGetSupportedMediums; publishing the mediums, the MAC address and the
\* interface come after it.
GetSupportedMediums ==
  /\ pc = "mediums"
  /\ PhyRead(mediums' \in Added /\ pc' \in {"idle", "failed"},
             UNCHANGED mediums /\ pc' = "failed")
  /\ UNCHANGED addr /\ OthersInStart

-----------------------------------------------------------------------------
(* The cable and the controller                                            *)

Plug(abilities) ==
  /\ ~linkUp
  /\ linkUp' = TRUE /\ partner' = abilities
  /\ causes' = causes \cup {"Link"}
  /\ UNCHANGED <<phyVars, unmasked, lifeVars, held, pc, latched, reportVars>>

Unplug ==
  /\ linkUp
  /\ linkUp' = FALSE /\ UNCHANGED partner
  /\ causes' = causes \cup {"Link"}
  /\ UNCHANGED <<phyVars, unmasked, lifeVars, held, pc, latched, reportVars>>

\* A cause of reception or transmission.
OtherCause ==
  /\ unmasked
  /\ causes' = causes \cup {"Other"}
  /\ UNCHANGED <<phyVars, cableVars, unmasked, lifeVars, held, pc, latched, reportVars>>

-----------------------------------------------------------------------------
(* enable and disable                                                      *)

EnableEnabled ==
  /\ pc = "idle" /\ isEnabled
  /\ result' = "enabled"
  /\ UNCHANGED <<phyVars, cableVars, causes, unmasked, opened, isEnabled, built, enabling,
                 held, pc, latched, reportVars>>

\* The provider has one owner, which opens it once.
EnableOpen ==
  /\ pc = "idle" /\ ~isEnabled
  /\ IF opened THEN result' = "notOpened" /\ pc' = "idle" /\ enabling' = FALSE
               ELSE result' = "none" /\ pc' = "init" /\ enabling' = TRUE
  /\ opened' = TRUE
  /\ UNCHANGED <<phyVars, cableVars, causes, unmasked, isEnabled, built, held, latched,
                 reportVars>>

\* softReset, the empty rings, and the interrupts acknowledged and unmasked.
InitHardware ==
  /\ pc = "init"
  /\ built' = TRUE
  /\ held' = 0
  /\ causes' = {} /\ unmasked' = TRUE
  /\ pc' = "status"
  /\ UNCHANGED <<phyVars, cableVars, opened, isEnabled, enabling, result, latched,
                 reportVars>>

\* initTransmitReceiveBuffers got no mbuf, or one it could not map, when the
\* controller was reset already.
InitHardwareFails ==
  /\ pc = "init"
  /\ built' = TRUE
  /\ held' = 0
  /\ causes' = {} /\ unmasked' = FALSE
  /\ result' = "notInitialised"
  /\ enabling' = FALSE
  /\ pc' = "idle"
  /\ UNCHANGED <<phyVars, cableVars, opened, isEnabled, latched, reportVars>>

\* Mutant: disable closes the provider.
Closed == FALSE
StillOpen == opened

Disable ==
  /\ pc = "idle" /\ isEnabled
  /\ isEnabled' = FALSE /\ opened' = StillOpen
  /\ UNCHANGED <<phyVars, cableVars, causes, unmasked, built, enabling, result,
                 held, pc, latched, reportVars>>

\* outputPacket of an enabled adapter; another one frees the packet at once.
OutputPacket ==
  /\ pc = "idle" /\ isEnabled /\ held < MaxHeld
  /\ held' = held + 1
  /\ UNCHANGED <<phyVars, cableVars, causes, unmasked, lifeVars, pc, latched, reportVars>>

\* A packet was sent, and handleTxInterrupt frees it, enabled or not.
PacketFreed ==
  /\ pc = "idle" /\ unmasked /\ held > 0
  /\ held' = held - 1
  /\ UNCHANGED <<phyVars, cableVars, causes, unmasked, lifeVars, pc, latched, reportVars>>

-----------------------------------------------------------------------------
(* handleInterrupt and phyUpdateLinkStatus                                 *)

ReadStatus ==
  /\ pc = "idle" /\ unmasked /\ causes # {}
  /\ latched' = causes
  /\ pc' = "ack"
  /\ UNCHANGED <<phyVars, cableVars, causes, unmasked, lifeVars, held, reportVars>>

\* Mutant: all causes are acknowledged, read or not.
Cleared == {}
Unread == causes \ latched

AckStatus ==
  /\ pc = "ack"
  /\ causes' = Unread /\ latched' = {}
  /\ pc' = IF "Link" \in latched THEN "status" ELSE "idle"
  /\ UNCHANGED <<phyVars, cableVars, unmasked, lifeVars, held, reportVars>>

SetLinkStatus(isActive, which) ==
  /\ active' = isActive /\ medium' = which
  /\ timedOut' = FALSE /\ anar' = {}
  /\ pc' = "return"

\* The PHY's status register, and setLinkStatus if there is no link.
ReadLink ==
  /\ pc = "status"
  /\ PhyRead(
       IF linkUp THEN pc' = "anar" /\ UNCHANGED reportVars
                 ELSE SetLinkStatus(FALSE, NoMedium),
       timedOut' = TRUE /\ pc' = "return" /\ UNCHANGED <<anar, active, medium>>)
  /\ UNCHANGED <<phyVars, cableVars, causes, unmasked, lifeVars, held, latched>>

ReadAnar ==
  /\ pc = "anar"
  /\ PhyRead(
       anar' = Advertised /\ pc' = "anlp" /\ UNCHANGED <<active, medium, timedOut>>,
       SetLinkStatus(TRUE, NoMedium))
  /\ UNCHANGED <<phyVars, cableVars, causes, unmasked, lifeVars, held, latched>>

\* phyGetActiveMedium's choice.  10Half needs no bit, and a medium that was not
\* added has no entry in _mediumTypes.
Best(bits) ==
  CHOOSE m \in bits \cup {1} : \A n \in bits : n <= m
MediumOf(bits) == IF Best(bits) \in mediums THEN Best(bits) ELSE NoMedium

\* The second read is of the advertisement register again.
ReadAnlp ==
  /\ pc = "anlp"
  /\ PhyRead(SetLinkStatus(TRUE, MediumOf(anar \cap Advertised)),
             SetLinkStatus(TRUE, NoMedium))
  /\ UNCHANGED <<phyVars, cableVars, causes, unmasked, lifeVars, held, latched>>

\* Back to handleInterrupt, or to enable(), which succeeds.
Return ==
  /\ pc = "return"
  /\ isEnabled' = (isEnabled \/ enabling)
  /\ result' = IF enabling THEN "success" ELSE result
  /\ enabling' = FALSE
  /\ pc' = "idle"
  /\ UNCHANGED <<phyVars, cableVars, causes, unmasked, opened, built, held, latched,
                 reportVars>>

-----------------------------------------------------------------------------
Running ==
  \/ InitHardware
  \/ InitHardwareFails
  \/ AckStatus
  \/ ReadLink
  \/ ReadAnar
  \/ ReadAnlp
  \/ Return

Next ==
  \/ \E abilities \in SUBSET Media : Plug(abilities)
  \/ Unplug
  \/ ProbeNext
  \/ ProbeFound
  \/ GetSupportedMediums
  \/ OtherCause
  \/ EnableEnabled
  \/ EnableOpen
  \/ Disable
  \/ OutputPacket
  \/ PacketFreed
  \/ ReadStatus
  \/ Running

Spec == Init /\ [][Next]_vars

\* Code that was entered runs on, and the event source gets the workloop in the
\* end although the interface calls the driver again and again.
LiveSpec == Spec /\ WF_vars(Running) /\ SF_vars(ReadStatus)

-----------------------------------------------------------------------------
(* Properties                                                              *)

Pending ==
  \/ "Link" \in causes \cup latched
  \/ pc \in {"status", "anar", "anlp"}

\* What setLinkStatus was told is the state of the link, or an interrupt or a
\* read of the PHY is still to come that says so, unless the last one timed
\* out: the cable may move before, between and after the read of the interrupt
\* status, its acknowledge and the accesses to the PHY, and while enable()
\* resets the controller.
LinkNotStale == unmasked /\ active # linkUp => Pending \/ timedOut

\* A link that stays as it is gets reported in the end.
LinkReported ==
  \A up \in BOOLEAN :
    (<>[](linkUp = up) /\ <>[]unmasked) => <>[](active = up \/ timedOut)

\* The rings are never built over mbufs that they hold: initHardware would drop
\* them.  enable() after disable() does not get that far, as the provider stays
\* open.
RingsBuiltOnce == [][pc = "init" /\ pc' # "init" => ~built /\ held = 0]_vars

\* "Get the common autonegotiation bits between the controller and the
\* partner": the medium reported is the best of both ends.
MediumCommon ==
  active /\ medium # NoMedium /\ ~Pending /\ ~timedOut =>
    medium = MediumOf(Advertised \cap partner)

\* enable() is "called from IONetworkInterface to enable the network adapter for
\* use": on an adapter that was enabled once and disabled it does not fail.
EnableAgain == ~(result = "notOpened" /\ unmasked)
=============================================================================
