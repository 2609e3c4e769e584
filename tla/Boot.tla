--------------------------------- MODULE Boot ---------------------------------
(***************************************************************************)
(* The boot: the start functions of Startup, in which the platform expert's *)
(* start calls initPatcher, whose steps Patcher has.  Only threads of the  *)
(* kernel run beside it then: every other driver waits for the nubs that   *)
(* super::start creates.  The bridge's registers, which PCIStart makes     *)
(* available, are those of PCIConfig.                                      *)
(***************************************************************************)
EXTENDS Startup, Patcher, PCIConfig, SATAConfig

bootVars == <<startVars, patcherVars, callerVars>>

BootInit == StartInit /\ PatcherInit

\* The platform expert is in the step that calls initPatcher.
Patching == Running("pe") /\ Step("pe").what[1] = "patcher"

Patch == Patching /\ PatcherNext /\ UNCHANGED startVars

\* initPatcher returned true, or it returned false and nothing of the step is
\* held.  Calls are over by then: later ones are like the last.
Patched ==
  /\ place = "out"
  /\ patcher = IF "patcher" \in held'["pe"] THEN "done" ELSE "failed"

StartStep(d) == Start(d) /\ (d = "pe" /\ Patching => Patched) /\ UNCHANGED <<patcherVars, callerVars>>

BootNext == Patch \/ \E d \in Drivers : StartStep(d)

\* Every start has a thread, and so has the caller.  Callers that go on calling do
\* not keep the patcher's thread from the processor for ever.
BootSpec ==
  /\ BootInit /\ [][BootNext]_bootVars
  /\ SF_bootVars(Patching /\ InitPatcher /\ UNCHANGED startVars)
  /\ WF_bootVars(Patch)
  /\ SF_bootVars(\E d \in Drivers : StartStep(d) /\ (d \in failed' => patcher = "failed"))

-----------------------------------------------------------------------------
(* An instance for TLC of what Boot_proofs proves                          *)

Sample == {s \in Space : s.deviceNum \in {0, 1, 31} /\ s.functionNum \in {0, 7}}

\* The bytes of the last registers of the sample, with some contents.
Image == [a \in UNION {At(s, 254) .. At(s, 258) : s \in Sample} |-> a % 113]

ASSUME RegistersAssumption ==
  \A s \in Sample, data \in {0, 255, 256, 65535, 305419896} :
    LET written == ConfigWrite32(Image, s, 255, data) IN
    /\ ConfigRead32(written, s, 255) = data
    /\ ConfigRead16(ConfigWrite16(Image, s, 255, data % 65536), s, 255) = data % 65536
    /\ ConfigRead8(ConfigWrite8(Image, s, 255, data % 256), s, 255) = data % 256
    /\ \A t \in Sample \ {s} : ConfigRead32(written, t, 254) = ConfigRead32(Image, t, 254)
=============================================================================
