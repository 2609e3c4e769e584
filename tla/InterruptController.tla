------------------------ MODULE InterruptController ------------------------
(***************************************************************************)
(* XenonInterruptController with what surrounds it: the bridge that routes *)
(* the level triggered lines of the devices, the enable and disable        *)
(* protocol of its base class IOInterruptController, and for each vector   *)
(* the event source and workloop thread of the driver that uses it.        *)
(*                                                                         *)
(* There is one processor, as initCPU starts no other.  Interrupts do not  *)
(* nest and no thread runs inside handleInterrupt, so interruptActive,     *)
(* which another processor would wait for, and the priority register,      *)
(* which orders nested interrupts, are left out.  A vector is one that the *)
(* bridge can mask.                                                        *)
(***************************************************************************)
EXTENDS Naturals, FiniteSets

CONSTANTS
  Vectors,   \* vectors of sXenonCPUInterruptMap, each used by one driver
  Filters,   \* those whose driver services the device in an interrupt filter
  Spurious   \* kXenonVectorNone: acknowledged with nothing pending

ASSUME VectorAssumption == Filters \subseteq Vectors /\ Spurious \notin Vectors

VARIABLES
  asserted,      \* the devices' interrupt lines that are up
  unmasked,      \* bridge registers with kXenonPCIBridgeRegIntEnabled
  pending,       \* sent on by the bridge, not acknowledged yet
  icPc, taken,   \* handleInterrupt, and its vectorIndex
  registered,    \* interruptRegistered
  softDisabled,  \* interruptDisabledSoft
  hardDisabled,  \* interruptDisabledHard
  work,          \* the event source was signalled
  threadPc,      \* the driver's thread, for each vector
  wasted         \* interrupts of a disabled vector since its thread ran, to 3

flagVars == <<registered, softDisabled, hardDisabled>>
vars == <<asserted, unmasked, pending, icPc, taken, flagVars, work,
          threadPc, wasted>>

TypeOK ==
  /\ asserted \subseteq Vectors /\ unmasked \subseteq Vectors
  /\ pending \subseteq Vectors
  /\ icPc \in {"none", "test", "call", "mask", "leave"}
  /\ taken \in Vectors \cup {Spurious}
  /\ registered \subseteq Vectors
  /\ softDisabled \subseteq Vectors /\ hardDisabled \subseteq Vectors
  /\ work \subseteq Vectors
  /\ threadPc \in [Vectors -> {"start", "idle", "action", "enable", "wait",
                               "test", "unmask"}]
  /\ wasted \in [Vectors -> 0..3]

\* start() masks every line, purges what is pending and clears the vectors.
Init ==
  /\ asserted \in SUBSET Vectors
  /\ unmasked = {} /\ pending = {}
  /\ icPc = "none" /\ taken = Spurious
  /\ registered = {} /\ softDisabled = {} /\ hardDisabled = {}
  /\ work = {}
  /\ threadPc = [v \in Vectors |-> "start"]
  /\ wasted = [v \in Vectors |-> 0]

-----------------------------------------------------------------------------
(* Devices and bridge                                                      *)

RaiseLine(v) ==
  /\ v \notin asserted
  /\ asserted' = asserted \cup {v}
  /\ UNCHANGED <<unmasked, pending, icPc, taken, flagVars, work, threadPc, wasted>>

\* The bridge sends the vector of a line that is up and not masked, and may
\* send it again as soon as it was acknowledged, before its EOI.
Deliver(v) ==
  /\ v \in asserted \cap unmasked
  /\ v \notin pending
  /\ pending' = pending \cup {v}
  /\ UNCHANGED <<asserted, unmasked, icPc, taken, flagVars, work, threadPc, wasted>>

-----------------------------------------------------------------------------
(* handleInterrupt, disableVectorHard                                      *)

Acknowledge(v) ==
  /\ icPc = "none"
  /\ v \in pending \/ v = Spurious
  /\ pending' = pending \ {v}
  /\ taken' = v
  /\ icPc' = "test"
  /\ UNCHANGED <<asserted, unmasked, flagVars, work, threadPc, wasted>>

\* An enabled vector's handler is called if there is one.
TestEnabled ==
  /\ icPc = "test" /\ taken \notin softDisabled
  /\ icPc' = IF taken \in registered THEN "call" ELSE "leave"
  /\ UNCHANGED <<asserted, unmasked, pending, taken, flagVars, work, threadPc,
                 wasted>>

\* Mutant: interruptDisabledHard is not set.
StillSoft == hardDisabled
NowHard == hardDisabled \cup {taken}

\* An interrupt of a disabled vector: now it is disabled at the bridge too.
TestDisabled ==
  /\ icPc = "test" /\ taken \in softDisabled
  /\ hardDisabled' = NowHard
  /\ wasted' = [wasted EXCEPT ![taken] = IF @ < 3 THEN @ + 1 ELSE @]
  /\ icPc' = "mask"
  /\ UNCHANGED <<asserted, unmasked, pending, taken, registered, softDisabled,
                 work, threadPc>>

\* Mutant: the line stays unmasked.
NotMasked == unmasked
Masked == unmasked \ {taken}

DisableVectorHard ==
  /\ icPc = "mask"
  /\ unmasked' = Masked
  /\ icPc' = "leave"
  /\ UNCHANGED <<asserted, pending, taken, flagVars, work, threadPc, wasted>>

\* The handler is a filter that services its device on the spot, or that of
\* an event source, which disables its level triggered vector and leaves the
\* rest to the workloop.
CallHandler ==
  /\ icPc = "call"
  /\ \/ /\ taken \in Filters
        /\ asserted' = asserted \ {taken}
        /\ UNCHANGED <<softDisabled, work>>
     \/ /\ taken \notin Filters
        /\ softDisabled' = softDisabled \cup {taken}
        /\ work' = work \cup {taken}
        /\ UNCHANGED asserted
  /\ icPc' = "leave"
  /\ UNCHANGED <<unmasked, pending, taken, registered, hardDisabled, threadPc,
                 wasted>>

\* The end of the interrupt, and return.
Leave ==
  /\ icPc = "leave"
  /\ taken' = Spurious
  /\ icPc' = "none"
  /\ UNCHANGED <<asserted, unmasked, pending, flagVars, work, threadPc, wasted>>

-----------------------------------------------------------------------------
(* The driver's thread: registerInterrupt, the event source's action, and  *)
(* enableInterrupt with this controller's enableVector                     *)

Runs(v, step) == threadPc[v] = step /\ icPc = "none"
Goto(v, step) ==
  /\ threadPc' = [threadPc EXCEPT ![v] = step]
  /\ wasted' = [wasted EXCEPT ![v] = 0]

\* A registered vector starts out disabled, and its event source enables it.
Register(v) ==
  /\ Runs(v, "start")
  /\ registered' = registered \cup {v}
  /\ softDisabled' = softDisabled \cup {v}
  /\ hardDisabled' = hardDisabled \cup {v}
  /\ Goto(v, "enable")
  /\ UNCHANGED <<asserted, unmasked, pending, icPc, taken, work>>

StartWork(v) ==
  /\ Runs(v, "idle") /\ v \in work
  /\ work' = work \ {v}
  /\ Goto(v, "action")
  /\ UNCHANGED <<asserted, unmasked, pending, icPc, taken, flagVars>>

\* The driver acknowledges its device.
ServiceDevice(v) ==
  /\ Runs(v, "action")
  /\ asserted' = asserted \ {v}
  /\ Goto(v, "enable")
  /\ UNCHANGED <<unmasked, pending, icPc, taken, flagVars, work>>

EnableSoft(v) ==
  /\ Runs(v, "enable")
  /\ softDisabled' = softDisabled \ {v}
  /\ Goto(v, IF v \in softDisabled THEN "test" ELSE "idle")
  /\ UNCHANGED <<asserted, unmasked, pending, icPc, taken, registered,
                 hardDisabled, work>>

EnableTest(v) ==
  /\ Runs(v, "test")
  /\ hardDisabled' = hardDisabled \ {v}
  /\ Goto(v, IF v \in hardDisabled THEN "unmask" ELSE "idle")
  /\ UNCHANGED <<asserted, unmasked, pending, icPc, taken, registered,
                 softDisabled, work>>

\* Mutant: the vector stays masked at the bridge.
StillMasked(v) == unmasked
Unmask(v) == unmasked \cup {v}

EnableVector(v) ==
  /\ Runs(v, "unmask")
  /\ unmasked' = Unmask(v)
  /\ Goto(v, "idle")
  /\ UNCHANGED <<asserted, pending, icPc, taken, flagVars, work>>

-----------------------------------------------------------------------------
HandlerStep ==
  \/ TestEnabled
  \/ TestDisabled
  \/ DisableVectorHard
  \/ CallHandler
  \/ Leave

ThreadStep(v) ==
  \/ Register(v)
  \/ StartWork(v)
  \/ ServiceDevice(v)
  \/ EnableSoft(v)
  \/ EnableTest(v)
  \/ EnableVector(v)

Next ==
  \/ \E v \in Vectors : RaiseLine(v) \/ Deliver(v) \/ ThreadStep(v)
  \/ \E v \in Vectors \cup {Spurious} : Acknowledge(v)
  \/ HandlerStep

Spec == Init /\ [][Next]_vars

\* The bridge delivers, the processor takes what is pending and returns from
\* the handler, and a thread that interrupts keep from the processor again and
\* again runs in the end.
LiveSpec ==
  /\ Spec
  /\ WF_vars(HandlerStep)
  /\ \A v \in Vectors : /\ SF_vars(Deliver(v))
                        /\ SF_vars(Acknowledge(v))
                        /\ SF_vars(ThreadStep(v))

-----------------------------------------------------------------------------
(* Properties                                                              *)

\* A vector that its driver enabled is not left masked at the bridge: the
\* thread in enableInterrupt is about to unmask it.  handleInterrupt may come
\* between any two steps of that call, and mask the line.
EnabledNotMasked ==
  \A v \in registered \ softDisabled :
    v \notin unmasked => threadPc[v] \in {"test", "unmask"}

\* A line that stays up does not keep the processor busy until its driver gets
\* to run: it is masked at the first interrupt after it was disabled, and at
\* most one more is under way by then.
StormBounded == \A v \in Vectors : wasted[v] <= 2

\* A device whose line is up is serviced in the end.
DeviceServiced == \A v \in Vectors : v \in asserted ~> v \notin asserted
=============================================================================
