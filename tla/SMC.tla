-------------------------------- MODULE SMC --------------------------------
(***************************************************************************)
(* The driver of the system management controller (XenonSMC): its message  *)
(* FIFOs, the interrupt filter that runs in primary interrupt context, the *)
(* secondary handler on the workloop, and the threads that send commands   *)
(* and ask for the time.                                                   *)
(*                                                                         *)
(* Everything runs on one processor.  A thread that holds _lock has        *)
(* interrupts disabled, so it is neither preempted nor interrupted; the    *)
(* filter runs to its end before a thread goes on; only the controller     *)
(* itself works at the same time.                                          *)
(*                                                                         *)
(* A message is abstracted to its kind; the sync button is treated like    *)
(* the tilt switch and shares its kind.  The value of the clock is the     *)
(* number of time responses the controller has made.                       *)
(***************************************************************************)
EXTENDS Integers, Sequences, FiniteSets

CONSTANTS
  Readers,     \* threads that call getRTC
  Secondary,   \* the workloop thread
  Client,      \* a thread that sends some other command (LED, tray, mute)
  Filter,      \* the primary interrupt context
  Nobody,      \* no owner of a lock, NULL
  MaxIn,       \* bound: messages in the inbound FIFO before one more event
  MaxTime,     \* bound: time responses in a behaviour
  CanTimeout,  \* the controller may stay busy longer than kXenonSMCTimeout
  Spurious     \* the interrupt may be taken although there is no message

ASSUME BoundAssumption == MaxIn \in Nat \ {0} /\ MaxTime \in Nat
ASSUME ModeAssumption  ==
  /\ CanTimeout \in BOOLEAN /\ Spurious \in BOOLEAN
ASSUME ActorsAssumption ==
  /\ Nobody \notin Readers \cup {Secondary, Client, Filter}
  /\ Filter \notin Readers \cup {Secondary, Client}
  /\ Secondary # Client /\ Secondary \notin Readers /\ Client \notin Readers

VARIABLES
  \* The controller: outbound message taken but not processed, inbound
  \* messages, interrupt status, the clock, the console about to power off
  smcCmd, fifoIn, intStatus, now, powerOffPending,
  lock,            \* _lock
  filterPc, msg,   \* filterInterrupt, and its message
  stray,           \* the filter has acted on a message that nobody sent
  work,            \* _intEventSource was signalled
  secPc,           \* handleInterrupt
  powerPressed,    \* _powerButtonPressed
  tiltPresent,     \* _tiltStatePresent
  unread,          \* history: events that the filter has noted since the test of
                   \* their flag, unless it was cleared with them
  clientPc,        \* the other client's writeMessage
  readerPc,        \* getRTC, for each reader
  rtcLock,         \* _rtcLock
  rtcSyncer,       \* _rtcSyncer, named by the reader that created it
  rtcValue, rtcPresent,  \* _rtcValue, _rtcValuePresent
  refs, signalled, \* reference count and state of each reader's syncer
  began            \* the clock when getRTC was called

smcVars    == <<smcCmd, fifoIn, intStatus, now, powerOffPending>>
filterVars == <<filterPc, msg, stray>>
flagVars   == <<work, powerPressed, tiltPresent, unread>>
rtcVars    == <<readerPc, rtcLock, rtcSyncer, rtcValue, rtcPresent, refs,
                signalled, began>>
vars == <<smcVars, lock, filterVars, flagVars, secPc, clientPc, rtcVars>>

Threads  == Readers \cup {Secondary, Client}
Async(k) == [kind |-> k, time |-> 0]
Time(t)  == [kind |-> "rtc", time |-> t]
AsyncMessages == {Async("power"), Async("tilt")}
Messages == [kind : {"power", "tilt", "rtc", "other"}, time : Nat]
NoMessage == Async("other")

TypeOK ==
  /\ smcCmd \in {"none", "rtc", "cancel", "reboot", "other"}
  /\ fifoIn \in Seq(Messages)
  /\ intStatus \in BOOLEAN /\ powerOffPending \in BOOLEAN
  /\ now \in Nat
  /\ lock \in Threads \cup {Filter, Nobody}
  /\ filterPc \in {"none", "read", "handle", "cancel", "ack"}
  /\ msg \in Messages /\ stray \in BOOLEAN
  /\ work \in BOOLEAN /\ powerPressed \in BOOLEAN /\ tiltPresent \in BOOLEAN
  /\ unread \subseteq {"power", "tilt"}
  /\ secPc \in {"idle", "power", "clearPower", "reboot", "sending", "tilt", "clearTilt"}
  /\ clientPc \in {"idle", "sending"}
  /\ readerPc \in [Readers -> {"idle", "lock", "write", "sending", "fail", "wait"}]
  /\ rtcLock \in Readers \cup {Nobody}
  /\ rtcSyncer \in Readers \cup {Nobody}
  /\ rtcValue \in Nat /\ rtcPresent \in BOOLEAN
  /\ refs \in [Readers -> Int]
  /\ signalled \in [Readers -> BOOLEAN]
  /\ began \in [Readers -> Nat]

\* start() acknowledges the pending interrupt, whatever the FIFO holds.
Init ==
  /\ smcCmd = "none"
  /\ fifoIn \in {<<>>} \cup {<<m>> : m \in AsyncMessages}
  /\ powerOffPending = (fifoIn = <<Async("power")>>)
  /\ intStatus \in {FALSE, fifoIn # <<>>}
  /\ now = 0
  /\ lock = Nobody
  /\ filterPc = "none" /\ msg = NoMessage /\ stray = FALSE
  /\ work = FALSE /\ powerPressed = FALSE /\ tiltPresent = FALSE
  /\ unread = {}
  /\ secPc = "idle" /\ clientPc = "idle"
  /\ readerPc = [r \in Readers |-> "idle"]
  /\ rtcLock = Nobody /\ rtcSyncer = Nobody
  /\ rtcValue = 0 /\ rtcPresent = FALSE
  /\ refs = [r \in Readers |-> 0]
  /\ signalled = [r \in Readers |-> FALSE]
  /\ began = [r \in Readers |-> 0]

-----------------------------------------------------------------------------
(* The controller                                                          *)

\* A button or the tilt switch: pressing the power button starts the window
\* in which the driver has to answer.
Event(m) ==
  /\ Len(fifoIn) < MaxIn
  /\ fifoIn' = Append(fifoIn, m)
  /\ intStatus' = TRUE
  /\ powerOffPending' = (powerOffPending \/ m = Async("power"))
  /\ UNCHANGED <<smcCmd, now, lock, filterVars, flagVars, secPc, clientPc,
                 rtcVars>>

\* It processes a command and is ready for the next.
Process ==
  /\ smcCmd # "none"
  /\ smcCmd' = "none"
  /\ powerOffPending' = (powerOffPending /\ smcCmd # "cancel")
  /\ IF smcCmd = "rtc"
       THEN /\ now' = now + 1
            /\ fifoIn' = Append(fifoIn, Time(now'))
            /\ intStatus' = TRUE
       ELSE UNCHANGED <<now, fifoIn, intStatus>>
  /\ UNCHANGED <<lock, filterVars, flagVars, secPc, clientPc, rtcVars>>

-----------------------------------------------------------------------------
(* Processor and locks                                                     *)

\* Mutant: the lock is taken with interrupts enabled.
InterruptsStayOn == TRUE
\* IOSimpleLockLockDisableInterrupt: no interrupt while a thread holds _lock.
InterruptsOn == lock = Nobody

\* Thread c gets the processor.
Scheduled(c) == filterPc = "none" /\ lock \in {Nobody, c}

\* writeMessage, entered: the lock.
TakeLock(c) == lock = Nobody /\ lock' = c

\* writeMessage, once the controller is ready: the message is in its FIFO.
Send(c, cmd) ==
  /\ lock = c
  /\ smcCmd = "none"
  /\ smcCmd' = cmd
  /\ lock' = Nobody

\* writeMessage, kIOReturnTimeout.
SendTimeout(c) ==
  /\ CanTimeout
  /\ lock = c
  /\ smcCmd # "none"
  /\ lock' = Nobody

-----------------------------------------------------------------------------
(* filterInterrupt                                                         *)

Interrupt ==
  /\ filterPc = "none"
  /\ intStatus \/ Spurious
  /\ InterruptsOn
  /\ filterPc' = "read"
  /\ UNCHANGED <<smcVars, lock, msg, stray, flagVars, secPc, clientPc, rtcVars>>

\* readMessage.  Without a message it returns kIOReturnNotReady, which the
\* filter does not look at: it goes on with what is on its stack.
FilterRead ==
  /\ filterPc = "read"
  /\ lock = Nobody
  /\ IF fifoIn # <<>>
       THEN msg' = Head(fifoIn) /\ fifoIn' = Tail(fifoIn)
       ELSE /\ msg' \in AsyncMessages \cup {Time(t) : t \in 1..now} \cup {NoMessage}
            /\ UNCHANGED fifoIn
  /\ stray' = (stray \/ fifoIn = <<>>)
  /\ filterPc' = "handle"
  /\ UNCHANGED <<smcCmd, intStatus, now, powerOffPending, lock, flagVars, secPc,
                 clientPc, rtcVars>>

FilterPower ==
  /\ filterPc = "handle" /\ msg.kind = "power"
  /\ lock = Nobody
  /\ lock' = Filter
  /\ filterPc' = "cancel"
  /\ UNCHANGED <<smcVars, msg, stray, flagVars, secPc, clientPc, rtcVars>>

\* Mutant: the command to reboot without kXenonSMCPowerRebootCancel.
RebootAnyway == "reboot"
CancelPowerOff == "cancel"

\* cancelPowerOff, whose result is dropped, and the flag for the workloop.
FilterCancel ==
  /\ filterPc = "cancel"
  /\ \/ Send(Filter, CancelPowerOff)
     \/ SendTimeout(Filter) /\ UNCHANGED smcCmd
  /\ powerPressed' = TRUE
  /\ unread' = unread \cup {"power"}
  /\ filterPc' = "ack"
  /\ UNCHANGED <<fifoIn, intStatus, now, powerOffPending, msg, stray, work,
                 tiltPresent, secPc, clientPc, rtcVars>>

FilterTilt ==
  /\ filterPc = "handle" /\ msg.kind = "tilt"
  /\ tiltPresent' = TRUE
  /\ unread' = unread \cup {"tilt"}
  /\ filterPc' = "ack"
  /\ UNCHANGED <<smcVars, lock, msg, stray, work, powerPressed, secPc, clientPc, rtcVars>>

\* Mutant: signal() keeps its reference.
SignalKeeps(r) == refs[r]
\* IOSyncer::signal gives up one reference.
Signal(r) == IF refs[r] > 0 THEN refs[r] - 1 ELSE 0

\* The time, and the waiter is woken.
FilterTime ==
  /\ filterPc = "handle" /\ msg.kind = "rtc"
  /\ rtcValue' = msg.time
  /\ rtcPresent' = TRUE
  /\ signalled' = [r \in Readers |-> signalled[r] \/ r = rtcSyncer]
  /\ refs' = [r \in Readers |-> IF r = rtcSyncer THEN Signal(r) ELSE refs[r]]
  /\ filterPc' = "ack"
  /\ UNCHANGED <<smcVars, lock, msg, stray, flagVars, secPc, clientPc, readerPc,
                 rtcLock, rtcSyncer, began>>

FilterOther ==
  /\ filterPc = "handle" /\ msg.kind = "other"
  /\ filterPc' = "ack"
  /\ UNCHANGED <<smcVars, lock, msg, stray, flagVars, secPc, clientPc, rtcVars>>

\* Mutant: the power button is left to the filter.
NeedForTilt == msg.kind = "tilt"
NeedSecondary == msg.kind \in {"power", "tilt"}

\* The interrupt is acknowledged, and the secondary handler scheduled.
FilterAck ==
  /\ filterPc = "ack"
  /\ intStatus' \in {FALSE, fifoIn # <<>>}
  /\ work' = (work \/ NeedSecondary)
  /\ msg' = NoMessage
  /\ filterPc' = "none"
  /\ UNCHANGED <<smcCmd, fifoIn, now, powerOffPending, stray, lock, powerPressed,
                 tiltPresent, unread, secPc, clientPc, rtcVars>>

-----------------------------------------------------------------------------
(* handleInterrupt, on the workloop                                        *)

SecondaryStart ==
  /\ Scheduled(Secondary)
  /\ secPc = "idle" /\ work
  /\ work' = FALSE
  /\ secPc' = "power"
  /\ UNCHANGED <<smcVars, lock, filterVars, powerPressed, tiltPresent, unread,
                 clientPc, rtcVars>>

\* The flag is tested, and cleared in a step of its own after the log: a press
\* that the filter notes in between is cleared with the one that was seen.
SecondaryPower ==
  /\ Scheduled(Secondary)
  /\ \/ secPc = "power" /\ secPc' = (IF powerPressed THEN "clearPower" ELSE "tilt")
        /\ UNCHANGED powerPressed
     \/ secPc = "clearPower" /\ secPc' = "reboot" /\ powerPressed' = FALSE
  /\ unread' = unread \ {"power"}
  /\ UNCHANGED <<smcVars, lock, filterVars, work, tiltPresent, clientPc, rtcVars>>

\* Mutant: the two types are mixed up.
RebootMixedUp(reboot) == IF reboot THEN "other" ELSE "reboot"
RebootPowerOff(reboot) == IF reboot THEN "reboot" ELSE "other"

SecondaryReboot ==
  /\ Scheduled(Secondary)
  /\ \/ secPc = "reboot" /\ TakeLock(Secondary) /\ secPc' = "sending"
        /\ UNCHANGED smcCmd
     \/ secPc = "sending" /\ Send(Secondary, RebootPowerOff(TRUE)) /\ secPc' = "tilt"
     \/ secPc = "sending" /\ SendTimeout(Secondary) /\ secPc' = "tilt"
        /\ UNCHANGED smcCmd
  /\ UNCHANGED <<fifoIn, intStatus, now, powerOffPending, filterVars, flagVars,
                 clientPc, rtcVars>>

\* The tilt state is logged, then its flag cleared, with what the filter noted
\* in between: that state is not logged.
SecondaryTilt ==
  /\ Scheduled(Secondary)
  /\ \/ secPc = "tilt" /\ secPc' = (IF tiltPresent THEN "clearTilt" ELSE "idle")
        /\ UNCHANGED tiltPresent
     \/ secPc = "clearTilt" /\ secPc' = "idle" /\ tiltPresent' = FALSE
  /\ unread' = unread \ {"tilt"}
  /\ UNCHANGED <<smcVars, lock, filterVars, work, powerPressed, clientPc, rtcVars>>

-----------------------------------------------------------------------------
(* Another client: setLEDState, ejectTray, muteAudio, peHaltRestart        *)

\* What the kernel's PE_halt_restart sends; nothing for other types.
PeHaltRestart(type) ==
  IF type \in {"kPERestartCPU", "kPEHaltCPU"}
  THEN {RebootPowerOff(type = "kPERestartCPU")} ELSE {}

\* EjectTheMedia of the drive, which has found the SMC, once the drive let go.
EjectTheMedia == {"other"}

\* A client's restart is left out: after it nothing runs.
ClientCommands == {"other"} \cup EjectTheMedia \cup PeHaltRestart("kPEHaltCPU")

ClientSend ==
  /\ Scheduled(Client)
  /\ \/ clientPc = "idle" /\ TakeLock(Client) /\ clientPc' = "sending"
        /\ UNCHANGED smcCmd
     \/ clientPc = "sending" /\ (\E command \in ClientCommands : Send(Client, command))
        /\ clientPc' = "idle"
     \/ clientPc = "sending" /\ SendTimeout(Client) /\ clientPc' = "idle"
        /\ UNCHANGED smcCmd
  /\ UNCHANGED <<fifoIn, intStatus, now, powerOffPending, filterVars, flagVars,
                 secPc, rtcVars>>

-----------------------------------------------------------------------------
(* getRTC                                                                  *)

Goto(r, step) == readerPc' = [readerPc EXCEPT ![r] = step]

\* Bound: the time responses still to come.
Requests ==
  Cardinality({r \in Readers : readerPc[r] \in {"lock", "write", "sending"}}
                \cup (IF smcCmd = "rtc" THEN {Nobody} ELSE {}))

\* The syncer is created with two references, one for each side.
RtcCall(r) ==
  /\ Scheduled(r)
  /\ readerPc[r] = "idle"
  /\ now + Requests < MaxTime
  /\ refs' = [refs EXCEPT ![r] = 2]
  /\ signalled' = [signalled EXCEPT ![r] = FALSE]
  /\ began' = [began EXCEPT ![r] = now]
  /\ Goto(r, "lock")
  /\ UNCHANGED <<smcVars, lock, filterVars, flagVars, secPc, clientPc, rtcLock,
                 rtcSyncer, rtcValue, rtcPresent>>

\* Mutant: the lock is there for the value only.
RtcLockIgnored == TRUE
RtcLockFree == rtcLock = Nobody

RtcLock(r) ==
  /\ Scheduled(r)
  /\ readerPc[r] = "lock"
  /\ RtcLockFree
  /\ rtcLock' = r
  /\ rtcSyncer' = r
  /\ Goto(r, "write")
  /\ UNCHANGED <<smcVars, lock, filterVars, flagVars, secPc, clientPc, rtcValue,
                 rtcPresent, refs, signalled, began>>

RtcSend(r) ==
  /\ Scheduled(r)
  /\ \/ readerPc[r] = "write" /\ TakeLock(r) /\ Goto(r, "sending")
        /\ UNCHANGED smcCmd
     \/ readerPc[r] = "sending" /\ Send(r, "rtc") /\ Goto(r, "wait")
     \/ readerPc[r] = "sending" /\ SendTimeout(r) /\ Goto(r, "fail")
        /\ UNCHANGED smcCmd
  /\ UNCHANGED <<fifoIn, intStatus, now, powerOffPending, filterVars, flagVars,
                 secPc, clientPc, rtcLock, rtcSyncer, rtcValue, rtcPresent, refs,
                 signalled, began>>

\* Mutant: _rtcLock is not released.
RtcUnlockForgotten == UNCHANGED rtcLock
RtcUnlock == rtcLock' = Nobody

\* The request was not sent: one reference is given up.
RtcFail(r) ==
  /\ Scheduled(r)
  /\ readerPc[r] = "fail"
  /\ rtcSyncer' = Nobody
  /\ RtcUnlock
  /\ refs' = [refs EXCEPT ![r] = @ - 1]
  /\ Goto(r, "idle")
  /\ UNCHANGED <<smcVars, lock, filterVars, flagVars, secPc, clientPc, rtcValue,
                 rtcPresent, signalled, began>>

\* wait() returns and gives up its reference; _rtcSyncer keeps the pointer.
RtcReturn(r) ==
  /\ Scheduled(r)
  /\ readerPc[r] = "wait" /\ signalled[r]
  /\ refs' = [refs EXCEPT ![r] = @ - 1]
  /\ rtcPresent' = FALSE
  /\ RtcUnlock
  /\ Goto(r, "idle")
  /\ UNCHANGED <<smcVars, lock, filterVars, flagVars, secPc, clientPc, rtcSyncer,
                 rtcValue, signalled, began>>

-----------------------------------------------------------------------------
FilterStep ==
  \/ Interrupt
  \/ FilterRead
  \/ FilterPower
  \/ FilterCancel
  \/ FilterTilt
  \/ FilterTime
  \/ FilterOther
  \/ FilterAck

SecondaryStep ==
  \/ SecondaryStart
  \/ SecondaryPower
  \/ SecondaryReboot
  \/ SecondaryTilt

ReaderStep(r) ==
  \/ RtcLock(r)
  \/ RtcSend(r)
  \/ RtcFail(r)
  \/ RtcReturn(r)

Next ==
  \/ \E m \in AsyncMessages : Event(m)
  \/ Process
  \/ FilterStep
  \/ SecondaryStep
  \/ ClientSend
  \/ \E r \in Readers : RtcCall(r) \/ ReaderStep(r)

Spec == Init /\ [][Next]_vars

\* The controller processes what it was sent, an interrupt that is up is
\* taken and the filter runs, a thread that holds _lock runs on.  Others may
\* take the processor or a lock again and again, but not always: strong
\* fairness.
LiveSpec ==
  /\ Spec
  /\ WF_vars(Process)
  /\ SF_vars(FilterStep)
  /\ SF_vars(SecondaryStep)
  /\ WF_vars(ClientSend /\ lock = Client)
  /\ \A r \in Readers : SF_vars(ReaderStep(r))

-----------------------------------------------------------------------------
(* Properties                                                              *)

\* The filter takes _lock again in readMessage and in cancelPowerOff.  It
\* never finds it in the hands of the thread it interrupted, which could not
\* go on to release it: the processor would spin forever.
FilterNeverSpins == filterPc # "none" => lock \in {Filter, Nobody}

\* A thread that getRTC's wait() lets go finds a time that the controller read
\* after the call: never the answer to another thread's request or a value left
\* from an earlier one, and never none because another call consumed it, unless
\* the filter made up a message.
RtcFresh ==
  ~stray => \A r \in Readers :
              readerPc[r] = "wait" /\ signalled[r] => rtcPresent /\ rtcValue > began[r]

\* _rtcSyncer is not cleared when getRTC returns.  The filter still never
\* signals a syncer that was released, unless it made up a message.
SignalOnLiveSyncer ==
  filterPc = "handle" /\ msg.kind = "rtc" /\ rtcSyncer # Nobody /\ ~stray
    => refs[rtcSyncer] > 0

\* As long as no message times out, both references of a syncer are given up
\* by the time its getRTC is over.
SyncersReleased == \A r \in Readers : readerPc[r] = "idle" => refs[r] = 0

\* An event that the filter has noted and no test of handleInterrupt has seen
\* still has its flag, and a run of handleInterrupt that will test it: the
\* workloop was signalled, is before the test of that flag, or the filter is about
\* to signal.  From the test on, a run counts for nothing.  What is noted between a
\* test that saw the flag and the clear that follows is cleared with it and no
\* longer promised here: a press is answered by the reboot that this run is about
\* to send (PressReboots), a state of the tilt switch is never logged.
FlagsHaveWork ==
  /\ "power" \in unread =>
       /\ powerPressed
       /\ work \/ secPc = "power" \/ (filterPc = "ack" /\ msg.kind = "power")
  /\ "tilt" \in unread =>
       /\ tiltPresent
       /\ \/ work
          \/ secPc \in {"power", "clearPower", "reboot", "sending", "tilt"}
          \/ filterPc = "ack" /\ msg.kind = "tilt"

\* The filter takes one message per interrupt and acknowledges the interrupt
\* for all of them.  Unless the status comes up again by itself, the rest
\* stays in the FIFO until the next event.
LeftBehind == fifoIn # <<>> /\ ~intStatus /\ filterPc = "none"

\* The power button is answered: the pending power off of the console is
\* cancelled unless messages are left behind.
PressAnswered == powerOffPending ~> (~powerOffPending \/ LeftBehind)

\* A press that the filter noted leads to the command to reboot.
PressReboots == powerPressed ~> smcCmd = "reboot"

\* A call of getRTC ends, although wait() has no timeout, unless messages are
\* left behind.
RtcReturns ==
  \A r \in Readers :
    readerPc[r] # "idle" ~> (readerPc[r] = "idle" \/ LeftBehind)
=============================================================================
