--------------------- MODULE InterruptController_proofs ---------------------
(***************************************************************************)
(* An enabled vector is never left masked: proof for any set of vectors.   *)
(***************************************************************************)
EXTENDS InterruptController, TLAPS

\* A masked vector has its flag set, or its thread is about to unmask it.
MaskedIsHard ==
  \A v \in registered \ unmasked : v \in hardDisabled \/ threadPc[v] = "unmask"

\* Only the thread that just cleared interruptDisabledSoft finds the other flag
\* set: handleInterrupt sets it for soft disabled vectors only.
HardIsSoft ==
  \A v \in registered : v \in hardDisabled \ softDisabled => threadPc[v] = "test"

\* What handleInterrupt is about to mask has its flag set.
MaskingHard == icPc = "mask" => taken \in hardDisabled

\* Only a registered handler is called.
CallRegistered == icPc = "call" => taken \in registered

IInv == TypeOK /\ CallRegistered /\ MaskedIsHard /\ HardIsSoft /\ MaskingHard

LEMMA InitIInv == Init => IInv
BY VectorAssumption DEF Init, IInv, TypeOK, MaskedIsHard, HardIsSoft, MaskingHard,
                         CallRegistered

\* Each step keeps the types.
LEMMA TypeStep == TypeOK /\ CallRegistered /\ [Next]_vars => TypeOK'
<1> SUFFICES ASSUME TypeOK, CallRegistered, [Next]_vars PROVE TypeOK'
  OBVIOUS
<1> USE VectorAssumption DEF TypeOK
<1>1. ASSUME NEW v \in Vectors, RaiseLine(v) \/ Deliver(v)  PROVE TypeOK'
  BY <1>1 DEF RaiseLine, Deliver, flagVars
<1>2. ASSUME NEW v \in Vectors \cup {Spurious}, Acknowledge(v)  PROVE TypeOK'
  BY <1>2 DEF Acknowledge, flagVars
<1>3. ASSUME HandlerStep  PROVE TypeOK'
  <2>1. CASE TestEnabled        BY <2>1 DEF TestEnabled, flagVars
  <2>2. CASE TestDisabled
    <3>1. taken \in Vectors  BY <2>2 DEF TestDisabled, NowHard
    <3>2. wasted' \in [Vectors -> 0..3]  BY <2>2, <3>1 DEF TestDisabled, NowHard
    <3> QED  BY <2>2, <3>1, <3>2 DEF TestDisabled, NowHard
  <2>3. CASE DisableVectorHard  BY <2>3 DEF DisableVectorHard, Masked, flagVars
  <2>4. CASE CallHandler
    <3>1. taken \in Vectors  BY <2>4 DEF CallHandler, CallRegistered
    <3> QED  BY <2>4, <3>1 DEF CallHandler
  <2>5. CASE Leave              BY <2>5 DEF Leave, flagVars
  <2> QED  BY <1>3, <2>1, <2>2, <2>3, <2>4, <2>5 DEF HandlerStep
<1>4. ASSUME NEW v \in Vectors, ThreadStep(v)  PROVE TypeOK'
  <2> USE DEF Runs, Goto, flagVars
  <2>1. CASE Register(v)       BY <2>1 DEF Register
  <2>2. CASE StartWork(v)      BY <2>2 DEF StartWork
  <2>3. CASE ServiceDevice(v)  BY <2>3 DEF ServiceDevice
  <2>4. CASE EnableSoft(v)     BY <2>4 DEF EnableSoft
  <2>5. CASE EnableTest(v)     BY <2>5 DEF EnableTest
  <2>6. CASE EnableVector(v)   BY <2>6 DEF EnableVector, Unmask
  <2> QED  BY <1>4, <2>1, <2>2, <2>3, <2>4, <2>5, <2>6 DEF ThreadStep
<1>5. CASE UNCHANGED vars  BY <1>5 DEF vars, flagVars
<1> QED  BY <1>1, <1>2, <1>3, <1>4, <1>5 DEF Next

\* Each step keeps the relation between the flags, the bridge and the thread.
LEMMA FlagStep == IInv /\ [Next]_vars =>
                    CallRegistered' /\ MaskedIsHard' /\ HardIsSoft' /\ MaskingHard'
<1> DEFINE Flags == CallRegistered /\ MaskedIsHard /\ HardIsSoft /\ MaskingHard
<1> SUFFICES ASSUME IInv, [Next]_vars PROVE Flags'
  OBVIOUS
<1> USE VectorAssumption DEF IInv, TypeOK, CallRegistered, MaskedIsHard,
        HardIsSoft, MaskingHard
<1>1. ASSUME NEW v \in Vectors, RaiseLine(v) \/ Deliver(v)  PROVE Flags'
  BY <1>1 DEF RaiseLine, Deliver, flagVars
<1>2. ASSUME NEW v \in Vectors \cup {Spurious}, Acknowledge(v)  PROVE Flags'
  BY <1>2 DEF Acknowledge, flagVars
<1>3. ASSUME HandlerStep  PROVE Flags'
  <2>1. CASE TestEnabled        BY <2>1 DEF TestEnabled, flagVars
  <2>2. CASE TestDisabled       BY <2>2 DEF TestDisabled, NowHard
  <2>3. CASE DisableVectorHard  BY <2>3 DEF DisableVectorHard, Masked, flagVars
  <2>4. CASE CallHandler        BY <2>4 DEF CallHandler
  <2>5. CASE Leave              BY <2>5 DEF Leave, flagVars
  <2> QED  BY <1>3, <2>1, <2>2, <2>3, <2>4, <2>5 DEF HandlerStep
<1>4. ASSUME NEW v \in Vectors, ThreadStep(v)  PROVE Flags'
  <2> USE DEF Runs, Goto, flagVars
  <2>1. CASE Register(v)       BY <2>1 DEF Register
  <2>2. CASE StartWork(v)      BY <2>2 DEF StartWork
  <2>3. CASE ServiceDevice(v)  BY <2>3 DEF ServiceDevice
  <2>4. CASE EnableSoft(v)     BY <2>4 DEF EnableSoft
  <2>5. CASE EnableTest(v)     BY <2>5 DEF EnableTest
  <2>6. CASE EnableVector(v)   BY <2>6 DEF EnableVector, Unmask
  <2> QED  BY <1>4, <2>1, <2>2, <2>3, <2>4, <2>5, <2>6 DEF ThreadStep
<1>5. CASE UNCHANGED vars  BY <1>5 DEF vars, flagVars
<1> QED  BY <1>1, <1>2, <1>3, <1>4, <1>5 DEF Next

THEOREM Invariant == Spec => []IInv
<1>1. IInv /\ [Next]_vars => IInv'
  BY TypeStep, FlagStep DEF IInv
<1> QED  BY InitIInv, <1>1, PTL DEF Spec

\* Every state of the controller is well typed: a handler is called, a vector
\* disabled or masked only if it belongs to a device.
THEOREM TypeCorrect == Spec => []TypeOK
<1>1. IInv => TypeOK  BY DEF IInv
<1> QED  BY Invariant, <1>1, PTL

\* Whatever comes between the steps of enableInterrupt and handleInterrupt, an
\* enabled vector is not left masked at the bridge.
THEOREM EnabledStaysUnmasked == Spec => []EnabledNotMasked
<1>1. IInv => EnabledNotMasked
  BY DEF IInv, MaskedIsHard, HardIsSoft, EnabledNotMasked
<1> QED  BY Invariant, <1>1, PTL

-----------------------------------------------------------------------------
(* Storms                                                                  *)

\* Whether an interrupt of v is under way that will find the vector disabled.
OnTheWay(v) == (IF v \in pending THEN 1 ELSE 0)
                 + (IF icPc = "test" /\ taken = v THEN 1 ELSE 0)

\* After the first interrupt of a disabled vector the line is about to be masked,
\* or it is masked and there is at most one more.
MaskedSoon ==
  \A v \in Vectors : wasted[v] > 0 =>
    IF v \in unmasked THEN icPc = "mask" /\ taken = v /\ wasted[v] = 1
                      ELSE wasted[v] + OnTheWay(v) <= 2

LEMMA MaskedSoonStep == TypeOK /\ MaskedSoon /\ [Next]_vars => MaskedSoon'
<1> SUFFICES ASSUME TypeOK, MaskedSoon, [Next]_vars PROVE MaskedSoon'
  OBVIOUS
<1> USE VectorAssumption DEF TypeOK, MaskedSoon, OnTheWay
<1>1. ASSUME NEW v \in Vectors, RaiseLine(v) \/ Deliver(v)  PROVE MaskedSoon'
  BY <1>1 DEF RaiseLine, Deliver
<1>2. ASSUME NEW v \in Vectors \cup {Spurious}, Acknowledge(v)  PROVE MaskedSoon'
  BY <1>2 DEF Acknowledge
<1>3. ASSUME HandlerStep  PROVE MaskedSoon'
  <2>1. CASE TestEnabled        BY <2>1 DEF TestEnabled
  <2>2. CASE TestDisabled
    <3>1. /\ icPc = "test" /\ icPc' = "mask" /\ UNCHANGED <<unmasked, pending, taken>>
          /\ wasted' = [wasted EXCEPT ![taken] = IF @ < 3 THEN @ + 1 ELSE @]
          /\ taken \in Vectors
      BY <2>2 DEF TestDisabled
    <3>2. wasted[taken] \in 0 .. 3  BY <3>1
    <3>3. taken \in unmasked => wasted[taken] = 0  BY <3>1, <3>2
    <3> QED  BY <3>1, <3>2, <3>3
  <2>3. CASE DisableVectorHard  BY <2>3 DEF DisableVectorHard, Masked
  <2>4. CASE CallHandler        BY <2>4 DEF CallHandler
  <2>5. CASE Leave              BY <2>5 DEF Leave
  <2> QED  BY <1>3, <2>1, <2>2, <2>3, <2>4, <2>5 DEF HandlerStep
<1>4. ASSUME NEW v \in Vectors, ThreadStep(v)  PROVE MaskedSoon'
  <2> USE DEF Runs, Goto
  <2>1. CASE Register(v)       BY <2>1 DEF Register
  <2>2. CASE StartWork(v)      BY <2>2 DEF StartWork
  <2>3. CASE ServiceDevice(v)  BY <2>3 DEF ServiceDevice
  <2>4. CASE EnableSoft(v)     BY <2>4 DEF EnableSoft
  <2>5. CASE EnableTest(v)     BY <2>5 DEF EnableTest
  <2>6. CASE EnableVector(v)   BY <2>6 DEF EnableVector, Unmask
  <2> QED  BY <1>4, <2>1, <2>2, <2>3, <2>4, <2>5, <2>6 DEF ThreadStep
<1>5. CASE UNCHANGED vars  BY <1>5 DEF vars
<1> QED  BY <1>1, <1>2, <1>3, <1>4, <1>5 DEF Next

\* A line that stays up costs at most two interrupts before its driver's thread
\* runs, the first of which masks it.
THEOREM StormsBounded == Spec => []StormBounded
<1>1. Init => MaskedSoon  BY DEF Init, MaskedSoon
<1>2. IInv /\ MaskedSoon => StormBounded
  BY DEF IInv, TypeOK, MaskedSoon, OnTheWay, StormBounded
<1>3. IInv /\ MaskedSoon /\ [Next]_vars => MaskedSoon'
  BY MaskedSoonStep DEF IInv
<1> QED  BY Invariant, <1>1, <1>2, <1>3, PTL DEF Spec

-----------------------------------------------------------------------------
(* No lost interrupt                                                       *)

\* A disabled vector was signalled to its driver's thread, or the thread is on
\* its way to enable it.
WillEnable ==
  \A v \in registered \cap softDisabled :
    v \in work \/ threadPc[v] \in {"action", "enable"}

\* A driver that waits has work signalled, or its vector is enabled and its line
\* gets through the bridge.
NoLineDead ==
  \A v \in registered : threadPc[v] = "idle" =>
    v \in work \/ v \in unmasked \ softDisabled

LEMMA WillEnableStep == IInv /\ WillEnable /\ [Next]_vars => WillEnable'
<1> SUFFICES ASSUME IInv, WillEnable, [Next]_vars PROVE WillEnable'
  OBVIOUS
<1> USE VectorAssumption DEF IInv, TypeOK, WillEnable
<1>1. ASSUME NEW v \in Vectors, RaiseLine(v) \/ Deliver(v)  PROVE WillEnable'
  BY <1>1 DEF RaiseLine, Deliver, flagVars
<1>2. ASSUME NEW v \in Vectors \cup {Spurious}, Acknowledge(v)  PROVE WillEnable'
  BY <1>2 DEF Acknowledge, flagVars
<1>3. ASSUME HandlerStep  PROVE WillEnable'
  <2>1. CASE TestEnabled        BY <2>1 DEF TestEnabled, flagVars
  <2>2. CASE TestDisabled       BY <2>2 DEF TestDisabled
  <2>3. CASE DisableVectorHard  BY <2>3 DEF DisableVectorHard, flagVars
  <2>4. CASE CallHandler        BY <2>4 DEF CallHandler
  <2>5. CASE Leave              BY <2>5 DEF Leave, flagVars
  <2> QED  BY <1>3, <2>1, <2>2, <2>3, <2>4, <2>5 DEF HandlerStep
<1>4. ASSUME NEW v \in Vectors, ThreadStep(v)  PROVE WillEnable'
  <2> USE DEF Runs, Goto, flagVars
  <2>1. CASE Register(v)       BY <2>1 DEF Register
  <2>2. CASE StartWork(v)      BY <2>2 DEF StartWork
  <2>3. CASE ServiceDevice(v)  BY <2>3 DEF ServiceDevice
  <2>4. CASE EnableSoft(v)     BY <2>4 DEF EnableSoft
  <2>5. CASE EnableTest(v)     BY <2>5 DEF EnableTest
  <2>6. CASE EnableVector(v)   BY <2>6 DEF EnableVector
  <2> QED  BY <1>4, <2>1, <2>2, <2>3, <2>4, <2>5, <2>6 DEF ThreadStep
<1>5. CASE UNCHANGED vars  BY <1>5 DEF vars, flagVars
<1> QED  BY <1>1, <1>2, <1>3, <1>4, <1>5 DEF Next

\* However handleInterrupt comes between the steps of enableInterrupt, no driver
\* waits for an interrupt that cannot come: neither of the two flags is left set,
\* and no line masked, with nobody to clear it.
THEOREM LineNeverDead == Spec => []NoLineDead
<1>1. Init => WillEnable  BY DEF Init, WillEnable
<1>2. IInv /\ WillEnable => NoLineDead
  BY DEF IInv, MaskedIsHard, HardIsSoft, WillEnable, NoLineDead
<1> QED  BY Invariant, <1>1, <1>2, WillEnableStep, PTL DEF Spec
=============================================================================
