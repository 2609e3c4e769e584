------------------------- MODULE EthernetLink_proofs -------------------------
(***************************************************************************)
(* Theorems about the life cycle and the link, for any PHY and mediums.    *)
(***************************************************************************)
EXTENDS EthernetLink, TLAPS

\* The link that was read is there, or an interrupt will say otherwise.
LinkRead ==
  /\ linkUp \in BOOLEAN
  /\ pc # "ack" => latched = {}
  /\ pc \in {"anar", "anlp"} => linkUp \/ "Link" \in causes

\* Before the provider was opened nothing was built or enabled; whoever is about
\* to build has just opened it.
NotBuiltBefore ==
  /\ ~opened => /\ ~built /\ held = 0 /\ ~isEnabled /\ ~enabling /\ ~unmasked
                /\ pc # "init"
  /\ pc = "init" => ~built /\ held = 0 /\ ~isEnabled /\ ~unmasked

IInv == LinkNotStale /\ LinkRead /\ NotBuiltBefore

LEMMA InitInv == Init => IInv
BY DEF Init, IInv, LinkNotStale, LinkRead, NotBuiltBefore

LEMMA LinkStep ==
  LinkNotStale /\ LinkRead /\ [Next]_vars => LinkNotStale' /\ LinkRead'
<1> SUFFICES ASSUME LinkNotStale, LinkRead, [Next]_vars
             PROVE  LinkNotStale' /\ LinkRead'
  OBVIOUS
<1> USE DEF LinkNotStale, LinkRead, Pending, cableVars, lifeVars, reportVars
<1>1. CASE Unplug \/ \E abilities \in SUBSET Media : Plug(abilities)
  BY <1>1 DEF Unplug, Plug
<1>2. CASE ProbeNext \/ ProbeFound \/ GetSupportedMediums
  BY <1>2 DEF ProbeNext, ProbeFound, GetSupportedMediums, PhyRead, OthersInStart
<1>3. CASE OtherCause  BY <1>3 DEF OtherCause
<1>4. CASE EnableEnabled \/ EnableOpen \/ Disable
  BY <1>4 DEF EnableEnabled, EnableOpen, Disable
<1>5. CASE OutputPacket \/ PacketFreed  BY <1>5 DEF OutputPacket, PacketFreed
<1>6. CASE ReadStatus  BY <1>6 DEF ReadStatus
<1>7. CASE Running
  <2>1. CASE InitHardware       BY <2>1 DEF InitHardware
  <2>2. CASE InitHardwareFails  BY <2>2 DEF InitHardwareFails
  <2>3. CASE AckStatus          BY <2>3 DEF AckStatus, Unread
  <2>4. CASE ReadLink
    <3>1. CASE linkUp /\ pc' = "anar" /\ UNCHANGED reportVars
      BY <2>4, <3>1 DEF ReadLink
    <3>2. CASE ~linkUp /\ SetLinkStatus(FALSE, NoMedium)
      BY <2>4, <3>2 DEF ReadLink, SetLinkStatus
    <3>3. CASE timedOut' = TRUE /\ pc' = "return"
      BY <2>4, <3>3 DEF ReadLink
    <3> QED  BY <2>4, <3>1, <3>2, <3>3 DEF ReadLink, PhyRead
  <2>5. CASE ReadAnar           BY <2>5 DEF ReadAnar, PhyRead, SetLinkStatus
  <2>6. CASE ReadAnlp           BY <2>6 DEF ReadAnlp, PhyRead, SetLinkStatus
  <2>7. CASE Return             BY <2>7 DEF Return
  <2> QED  BY <1>7, <2>1, <2>2, <2>3, <2>4, <2>5, <2>6, <2>7 DEF Running
<1>8. CASE UNCHANGED vars  BY <1>8 DEF vars
<1> QED  BY <1>1, <1>2, <1>3, <1>4, <1>5, <1>6, <1>7, <1>8 DEF Next

LEMMA BuiltStep == NotBuiltBefore /\ [Next]_vars => NotBuiltBefore'
<1> SUFFICES ASSUME NotBuiltBefore, [Next]_vars PROVE NotBuiltBefore'
  OBVIOUS
<1> USE DEF NotBuiltBefore, lifeVars
<1>1. CASE Unplug \/ \E abilities \in SUBSET Media : Plug(abilities)
  BY <1>1 DEF Unplug, Plug
<1>2. CASE ProbeNext \/ ProbeFound \/ GetSupportedMediums
  BY <1>2 DEF ProbeNext, ProbeFound, GetSupportedMediums, PhyRead, OthersInStart
<1>3. CASE OtherCause  BY <1>3 DEF OtherCause
<1>4. CASE EnableEnabled \/ EnableOpen \/ Disable
  BY <1>4 DEF EnableEnabled, EnableOpen, Disable, StillOpen
<1>5. CASE OutputPacket \/ PacketFreed  BY <1>5 DEF OutputPacket, PacketFreed
<1>6. CASE ReadStatus  BY <1>6 DEF ReadStatus
<1>7. CASE Running
  <2>1. CASE InitHardware \/ InitHardwareFails
    BY <2>1 DEF InitHardware, InitHardwareFails
  <2>2. CASE AckStatus          BY <2>2 DEF AckStatus
  <2>3. CASE ReadLink           BY <2>3 DEF ReadLink, PhyRead, SetLinkStatus
  <2>4. CASE ReadAnar           BY <2>4 DEF ReadAnar, PhyRead, SetLinkStatus
  <2>5. CASE ReadAnlp           BY <2>5 DEF ReadAnlp, PhyRead, SetLinkStatus
  <2>6. CASE Return             BY <2>6 DEF Return
  <2> QED  BY <1>7, <2>1, <2>2, <2>3, <2>4, <2>5, <2>6 DEF Running
<1>8. CASE UNCHANGED vars  BY <1>8 DEF vars
<1> QED  BY <1>1, <1>2, <1>3, <1>4, <1>5, <1>6, <1>7, <1>8 DEF Next

LEMMA Invariance == Spec => []IInv
<1>1. IInv /\ [Next]_vars => IInv'
  BY LinkStep, BuiltStep DEF IInv
<1> QED  BY InitInv, <1>1, PTL DEF Spec

\* What setLinkStatus was told is the state of the link, or a read of the PHY is
\* still to come, or the last one timed out.
THEOREM NeverStale == Spec => []LinkNotStale
<1>1. IInv => LinkNotStale  BY DEF IInv
<1> QED  BY Invariance, <1>1, PTL

\* initHardware never empties rings that were filled before.
THEOREM BuiltOnce == Spec => RingsBuiltOnce
<1>1. IInv /\ [Next]_vars => [pc = "init" /\ pc' # "init" => ~built /\ held = 0]_vars
  BY DEF IInv, NotBuiltBefore
<1> QED  BY Invariance, <1>1, PTL DEF Spec, RingsBuiltOnce

-----------------------------------------------------------------------------
(* Types, and the medium that is reported                                  *)

\* A medium that is reported is one of the added ones.
LEMMA MediumOfType == mediums \subseteq Media => \A bits : MediumOf(bits) \in Media \cup {NoMedium}
BY DEF MediumOf

\* The flags are flags.
Flags ==
  /\ linkUp \in BOOLEAN /\ unmasked \in BOOLEAN
  /\ opened \in BOOLEAN /\ isEnabled \in BOOLEAN /\ built \in BOOLEAN
  /\ enabling \in BOOLEAN /\ active \in BOOLEAN /\ timedOut \in BOOLEAN

LEMMA FlagsStep == TypeOK /\ [Next]_vars => Flags'
<1> SUFFICES ASSUME TypeOK, [Next]_vars PROVE Flags'
  OBVIOUS
<1> USE DEF TypeOK, Flags, cableVars, lifeVars, reportVars
<1>1. CASE Unplug  BY <1>1 DEF Unplug
<1>2. CASE \E abilities \in SUBSET Media : Plug(abilities)  BY <1>2 DEF Plug
<1>3. CASE ProbeNext \/ ProbeFound
  BY <1>3 DEF ProbeNext, ProbeFound, PhyRead, OthersInStart
<1>4. CASE GetSupportedMediums
  BY <1>4 DEF GetSupportedMediums, Added, PhyRead, OthersInStart
<1>5. CASE OtherCause  BY <1>5 DEF OtherCause
<1>6. CASE EnableEnabled  BY <1>6 DEF EnableEnabled
<1>7. CASE EnableOpen     BY <1>7 DEF EnableOpen
<1>8. CASE Disable        BY <1>8 DEF Disable, StillOpen
<1>9. CASE OutputPacket   BY <1>9 DEF OutputPacket
<1>10. CASE PacketFreed   BY <1>10 DEF PacketFreed
<1>11. CASE ReadStatus    BY <1>11 DEF ReadStatus
<1>12. CASE Running
  <2>1. CASE InitHardware       BY <2>1 DEF InitHardware
  <2>2. CASE InitHardwareFails  BY <2>2 DEF InitHardwareFails
  <2>3. CASE AckStatus          BY <2>3 DEF AckStatus, Unread
  <2>4. CASE ReadLink           BY <2>4 DEF ReadLink, PhyRead, SetLinkStatus
  <2>5. CASE ReadAnar           BY <2>5 DEF ReadAnar, PhyRead, SetLinkStatus
  <2>6. CASE ReadAnlp           BY <2>6 DEF ReadAnlp, PhyRead, SetLinkStatus
  <2>7. CASE Return             BY <2>7 DEF Return
  <2> QED  BY <1>12, <2>1, <2>2, <2>3, <2>4, <2>5, <2>6, <2>7 DEF Running
<1>13. CASE UNCHANGED vars  BY <1>13 DEF vars
<1> QED
  BY <1>1, <1>2, <1>3, <1>4, <1>5, <1>6, <1>7, <1>8, <1>9, <1>10, <1>11, <1>12, <1>13
  DEF Next

\* The registers, the mediums and the workloop's place.
Fields ==
  /\ addr \in 0..MaxAddr /\ mediums \subseteq Media /\ partner \subseteq Media
  /\ causes \subseteq Causes /\ latched \subseteq Causes
  /\ held \in 0..MaxHeld
  /\ pc \in {"probe", "mediums", "failed", "idle", "init", "ack", "status", "anar", "anlp", "return"}
  /\ anar \subseteq Media /\ medium \in Media \cup {NoMedium}
  /\ result \in {"none", "success", "enabled", "notOpened", "notInitialised"}

LEMMA FieldsStep == TypeOK /\ [Next]_vars => Fields'
<1> SUFFICES ASSUME TypeOK, [Next]_vars PROVE Fields'
  OBVIOUS
<1> USE MediaAssumption, PhyAssumption, BoundAssumption
    DEF TypeOK, Fields, Causes, phyVars, cableVars, lifeVars, reportVars
<1>1. CASE Unplug  BY <1>1 DEF Unplug
<1>2. CASE \E abilities \in SUBSET Media : Plug(abilities)  BY <1>2 DEF Plug
<1>3. CASE ProbeNext \/ ProbeFound
  <2>1. addr' \in 0..MaxAddr /\ pc' \in {"probe", "mediums", "failed"}
    BY <1>3 DEF ProbeNext, ProbeFound, PhyRead
  <2>2. UNCHANGED <<mediums, partner, causes, held, latched, anar, medium, result>>
    BY <1>3 DEF ProbeNext, ProbeFound, OthersInStart
  <2> QED  BY <2>1, <2>2
<1>4. CASE GetSupportedMediums
  BY <1>4 DEF GetSupportedMediums, Added, PhyRead, OthersInStart
<1>5. CASE OtherCause  BY <1>5 DEF OtherCause
<1>6. CASE EnableEnabled  BY <1>6 DEF EnableEnabled
<1>7. CASE EnableOpen     BY <1>7 DEF EnableOpen
<1>8. CASE Disable        BY <1>8 DEF Disable, StillOpen
<1>9. CASE OutputPacket   BY <1>9 DEF OutputPacket
<1>10. CASE PacketFreed   BY <1>10 DEF PacketFreed
<1>11. CASE ReadStatus    BY <1>11 DEF ReadStatus
<1>12. CASE Running
  <2>1. CASE InitHardware       BY <2>1 DEF InitHardware
  <2>2. CASE InitHardwareFails  BY <2>2 DEF InitHardwareFails
  <2>3. CASE AckStatus          BY <2>3 DEF AckStatus, Unread
  <2>4. CASE ReadLink           BY <2>4 DEF ReadLink, PhyRead, SetLinkStatus
  <2>5. CASE ReadAnar           BY <2>5 DEF ReadAnar, PhyRead, SetLinkStatus
  <2>6. CASE ReadAnlp           BY <2>6, MediumOfType DEF ReadAnlp, PhyRead, SetLinkStatus
  <2>7. CASE Return             BY <2>7 DEF Return
  <2> QED  BY <1>12, <2>1, <2>2, <2>3, <2>4, <2>5, <2>6, <2>7 DEF Running
<1>13. CASE UNCHANGED vars  BY <1>13 DEF vars
<1> QED
  BY <1>1, <1>2, <1>3, <1>4, <1>5, <1>6, <1>7, <1>8, <1>9, <1>10, <1>11, <1>12, <1>13
  DEF Next

\* The driver's state, and what it told the family, is well typed: the PHY's
\* address stays in its range, and the medium reported is one that exists.
THEOREM TypeCorrect == Spec => []TypeOK
<1>1. Init => TypeOK
  <2> USE MediaAssumption, PhyAssumption, BoundAssumption DEF Init
  <2>1. Init => Flags   BY DEF Flags
  <2>2. Init => Fields  BY DEF Fields, Causes
  <2> QED  BY <2>1, <2>2, Zenon DEF TypeOK, Flags, Fields
<1>2. TypeOK /\ [Next]_vars => TypeOK'
  BY FlagsStep, FieldsStep, Zenon DEF TypeOK, Flags, Fields
<1> QED  BY <1>1, <1>2, PTL DEF Spec

\* The medium is the best that this end advertises.
OwnBest == active /\ medium # NoMedium => medium = MediumOf(Advertised)

\* phyGetActiveMedium comes after the mediums were added, and has this end's bits
\* when it reads them again.
OwnBits ==
  /\ pc \in {"probe", "mediums"} => ~active
  /\ pc = "anlp" => anar = Advertised

LEMMA OwnStep == OwnBest /\ OwnBits /\ [Next]_vars => OwnBest' /\ OwnBits'
<1> SUFFICES ASSUME OwnBest, OwnBits, [Next]_vars PROVE OwnBest' /\ OwnBits'
  OBVIOUS
<1> USE DEF OwnBest, OwnBits, phyVars, cableVars, lifeVars, reportVars
<1>1. ASSUME UNCHANGED mediums  PROVE \A bits : MediumOf(bits)' = MediumOf(bits)
  BY <1>1 DEF MediumOf, Best
<1>2. CASE Unplug \/ \E abilities \in SUBSET Media : Plug(abilities)
  BY <1>1, <1>2 DEF Unplug, Plug
<1>3. CASE ProbeNext \/ ProbeFound
  BY <1>1, <1>3 DEF ProbeNext, ProbeFound, PhyRead, OthersInStart
<1>4. CASE GetSupportedMediums
  BY <1>4 DEF GetSupportedMediums, PhyRead, OthersInStart
<1>5. CASE OtherCause  BY <1>1, <1>5 DEF OtherCause
<1>6. CASE EnableEnabled \/ EnableOpen \/ Disable
  BY <1>1, <1>6 DEF EnableEnabled, EnableOpen, Disable
<1>7. CASE OutputPacket \/ PacketFreed  BY <1>1, <1>7 DEF OutputPacket, PacketFreed
<1>8. CASE ReadStatus  BY <1>1, <1>8 DEF ReadStatus
<1>9. CASE Running
  <2>1. CASE InitHardware \/ InitHardwareFails
    BY <1>1, <2>1 DEF InitHardware, InitHardwareFails
  <2>2. CASE AckStatus  BY <1>1, <2>2 DEF AckStatus
  <2>3. CASE ReadLink   BY <1>1, <2>3 DEF ReadLink, PhyRead, SetLinkStatus
  <2>4. CASE ReadAnar   BY <1>1, <2>4 DEF ReadAnar, PhyRead, SetLinkStatus
  <2>5. CASE ReadAnlp
    <3>1. anar \cap Advertised = Advertised  BY <2>5 DEF ReadAnlp
    <3> QED  BY <1>1, <2>5, <3>1 DEF ReadAnlp, PhyRead, SetLinkStatus
  <2>6. CASE Return     BY <1>1, <2>6 DEF Return
  <2> QED  BY <1>9, <2>1, <2>2, <2>3, <2>4, <2>5, <2>6 DEF Running
<1>10. CASE UNCHANGED vars  BY <1>1, <1>10 DEF vars
<1> QED  BY <1>2, <1>3, <1>4, <1>5, <1>6, <1>7, <1>8, <1>9, <1>10 DEF Next

\* Whatever the other end is capable of, the medium reported is the best of this
\* end: the partner's register plays no part in it.
THEOREM PartnerIgnored == Spec => []OwnBest
<1>1. Init => OwnBest /\ OwnBits  BY DEF Init, OwnBest, OwnBits
<1> QED  BY <1>1, OwnStep, PTL DEF Spec

-----------------------------------------------------------------------------
(* enable() after disable()                                                *)

\* An adapter that is open, and neither enabled nor about to be, stays so.
EnabledOnce ==
  [][opened /\ ~isEnabled /\ ~enabling => opened' /\ ~isEnabled' /\ ~enabling']_vars

\* enable() enables an adapter once: after a disable(), and after an attempt that
\* failed, the provider is still open, and no call after it enables the adapter.
THEOREM NeverEnabledAgain == Spec => EnabledOnce
<1>1. TypeOK /\ TypeOK' /\ [Next]_vars =>
        [opened /\ ~isEnabled /\ ~enabling => opened' /\ ~isEnabled' /\ ~enabling']_vars
  <2> SUFFICES ASSUME [Next]_vars, opened, ~isEnabled, ~enabling,
                      {opened, isEnabled, enabling} \subseteq BOOLEAN,
                      {opened', isEnabled', enabling'} \subseteq BOOLEAN
               PROVE  opened' = TRUE /\ isEnabled' = FALSE /\ enabling' = FALSE
    BY DEF TypeOK
  <2> USE DEF lifeVars
  <2>1. CASE Unplug \/ \E abilities \in SUBSET Media : Plug(abilities)
    BY <2>1 DEF Unplug, Plug
  <2>2. CASE ProbeNext \/ ProbeFound \/ GetSupportedMediums
    BY <2>2 DEF ProbeNext, ProbeFound, GetSupportedMediums, OthersInStart
  <2>3. CASE OtherCause  BY <2>3 DEF OtherCause
  <2>4. CASE EnableEnabled \/ EnableOpen \/ Disable
    BY <2>4 DEF EnableEnabled, EnableOpen, Disable
  <2>5. CASE OutputPacket \/ PacketFreed  BY <2>5 DEF OutputPacket, PacketFreed
  <2>6. CASE ReadStatus  BY <2>6 DEF ReadStatus
  <2>7. CASE InitHardware \/ InitHardwareFails
    BY <2>7 DEF InitHardware, InitHardwareFails
  <2>8. CASE AckStatus \/ ReadLink \/ ReadAnar \/ ReadAnlp
    BY <2>8 DEF AckStatus, ReadLink, ReadAnar, ReadAnlp
  <2>9. CASE Return  BY <2>9 DEF Return
  <2>10. CASE UNCHANGED vars  BY <2>10 DEF vars
  <2> QED
    BY <2>1, <2>2, <2>3, <2>4, <2>5, <2>6, <2>7, <2>8, <2>9, <2>10 DEF Next, Running
<1> QED  BY <1>1, TypeCorrect, PTL DEF Spec, EnabledOnce
=============================================================================
