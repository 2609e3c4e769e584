------------------------------- MODULE Patcher -------------------------------
(***************************************************************************)
(* The kernel patcher of XenonPE: initPatcher finds the kernel's symbols,  *)
(* writes a jump over the first four instructions of three functions and   *)
(* keeps those four in trampolines, while a thread may be calling the      *)
(* functions, instruction by instruction.                                  *)
(*                                                                         *)
(* There is one processor, and no thread stands between the first and the  *)
(* fifth instruction of a function whose jump is being written.            *)
(***************************************************************************)
EXTENDS Integers, Sequences

\* The names initPatcher tests and does not route, and those it routes.
Resolved == <<"kmem_alloc_pageable", "mapping_make", "pmap_sync">>
Routed   == <<"Debugger", "pmap_enter", "grade_binary">>
Names3(s) == {s[i] : i \in 1 .. 3}

\* Addresses: the functions, one whose name only begins like theirs, and zero.
Callable  == Names3(Routed) \cup {"other"}
Addresses == Callable \cup {"zero"}

VARIABLES
  symbols,         \* the symbol table, in order: the name each entry begins
                   \* with, and where it points
  patcher, hook,   \* where initPatcher is, and which function it routes
  word, ints,      \* words of the jump written; interrupts are enabled
  code,            \* the first four words at each address
  org,             \* _orgDebugger and so on: the trampolines
  func, place, pc, \* the caller: the function it called, and where it is
  wrapper,         \* which wrapper it is in, 0 for none
  r0, ctr, trace   \* its registers, and what the call has run so far

patcherVars == <<symbols, patcher, hook, word, ints, code, org>>
callerVars  == <<func, place, pc, wrapper, r0, ctr, trace>>

Nowhere   == <<"", "">>

\* Instructions: one of the function's own, or one of a jump.
Own(i)    == <<"own", <<i, "">>>>
Bctr      == <<"bctr", Nowhere>>
Load(dst) == <<<<"lis", dst>>, <<"ori", dst>>, <<"mtctr", Nowhere>>>>
Prologue  == <<Own("1"), Own("2"), Own("3"), Own("4")>>

Entry(n, a) == [begins |-> n, at |-> a]
AllOf(s)    == [i \in 1 .. 3 |-> Entry(s[i], s[i])]

\* Symbol tables: complete; a routed name missing; a longer name in front of
\* one; a name missing that is tested.
Tables == {
  AllOf(Resolved) \o AllOf(Routed) \o <<Entry("Debugger", "other")>>,
  AllOf(Resolved) \o <<Entry("Debugger", "Debugger"), Entry("pmap_enter", "pmap_enter")>>,
  <<Entry("Debugger", "other")>> \o AllOf(Resolved) \o AllOf(Routed),
  Tail(AllOf(Resolved)) \o AllOf(Routed)}

PatcherInit ==
  /\ symbols \in Tables
  /\ patcher = "find" /\ hook = 1 /\ word = 0 /\ ints = TRUE
  /\ code = [a \in Addresses |-> Prologue]
  /\ org = [i \in 1 .. 3 |-> <<>>]
  /\ func = "other" /\ place = "out" /\ pc = 1 /\ wrapper = 0
  /\ r0 = Nowhere /\ ctr = Nowhere /\ trace = <<>>

-----------------------------------------------------------------------------
(* initPatcher                                                             *)

\* What the pages below IOLog hold, the nearest first.
Pages == [1 .. 2 -> {{}, {"magic"}, {"magic", "text"},
                     {"magic", "text", "linkedit", "symtab"}}]

\* The nearest header with a __TEXT segment; it must have the symbols too.
FindKernelMachHeader(pages) ==
  \E p \in 1 .. 2 :
    /\ pages[p] = {"magic", "text", "linkedit", "symtab"}
    /\ \A q \in 1 .. p - 1 : ~({"magic", "text"} \subseteq pages[q])

\* The first entry that begins with the name.
ResolveKernelSymbol(name) ==
  LET hits == {i \in 1 .. Len(symbols) : symbols[i].begins = name} IN
  IF hits = {} THEN "zero"
  ELSE symbols[CHOOSE i \in hits : \A j \in hits : i <= j].at

From == ResolveKernelSymbol(Routed[hook])

Find ==
  /\ patcher = "find"
  /\ \E pages \in Pages :
       patcher' = IF /\ FindKernelMachHeader(pages)
                     /\ \A i \in 1 .. 3 : ResolveKernelSymbol(Resolved[i]) # "zero"
                  THEN "trampoline" ELSE "failed"
  /\ UNCHANGED <<symbols, hook, word, ints, code, org, callerVars>>

\* Mutant: three of the four instructions are kept.
TrampolineShort(from) == Load(<<"rest", from>>) \o SubSeq(code[from], 1, 3) \o <<Bctr>>
\* The address of the fifth instruction, the four kept, and the jump.
Trampoline(from) == Load(<<"rest", from>>) \o code[from] \o <<Bctr>>

CreateTrampoline ==
  /\ patcher = "trampoline" /\ patcher' = "off"
  /\ org' = [org EXCEPT ![hook] = Trampoline(From)]
  /\ UNCHANGED <<symbols, hook, word, ints, code, callerVars>>

\* routeFunction, with interrupts disabled.
InterruptsOff ==
  /\ patcher = "off" /\ patcher' = "write"
  /\ ~(place = "function" /\ func = From /\ pc > 1)
  /\ ints' = FALSE /\ word' = 0
  /\ UNCHANGED <<symbols, hook, code, org, callerVars>>

WriteWord ==
  /\ patcher = "write" /\ word < 4
  /\ code' = [code EXCEPT ![From][word + 1] = (Load(<<"wrap", Routed[hook]>>) \o <<Bctr>>)[word + 1]]
  /\ word' = word + 1
  /\ UNCHANGED <<symbols, patcher, hook, ints, org, callerVars>>

InterruptsOn ==
  /\ patcher = "write" /\ word = 4
  /\ ints' = TRUE /\ word' = 0
  /\ IF hook = 3 THEN patcher' = "done" /\ UNCHANGED hook
                 ELSE patcher' = "trampoline" /\ hook' = hook + 1
  /\ UNCHANGED <<symbols, code, org, callerVars>>

-----------------------------------------------------------------------------
(* A thread that calls the functions                                       *)

Goto(p, i) == place' = p /\ pc' = i

Call ==
  /\ place = "out" /\ ints
  /\ func' \in Callable
  /\ Goto("function", 1)
  /\ UNCHANGED <<wrapper, r0, ctr, trace, patcherVars>>

Instruction ==
  CASE place = "function"   -> code[func][pc]
    [] place = "trampoline" -> org[wrapper][pc]

\* To a wrapper, or to the fifth instruction of the function; else nowhere good.
Branch ==
  \/ /\ ctr[1] = "wrap" /\ Goto("wrap", 1)
     /\ wrapper' = CHOOSE i \in 1 .. 3 : Routed[i] = ctr[2]
  \/ ctr = <<"rest", func>> /\ Goto("rest", 1) /\ UNCHANGED wrapper
  \/ ctr[1] # "wrap" /\ ctr # <<"rest", func>> /\ Goto("wild", 1) /\ UNCHANGED wrapper

\* One instruction of the function's first four, or of the trampoline.
Execute ==
  /\ place \in {"function", "trampoline"} /\ ints
  /\ LET op  == Instruction[1]
         dst == Instruction[2]
     IN
     /\ trace' = IF op = "own" THEN Append(trace, dst[1]) ELSE trace
     /\ r0' = CASE op = "lis" -> <<"high " \o dst[1], dst[2]>>
                [] op = "ori" -> IF r0 = <<"high " \o dst[1], dst[2]>> THEN dst ELSE Nowhere
                [] OTHER      -> r0
     /\ ctr' = IF op = "mtctr" THEN r0 ELSE ctr
     /\ IF op = "bctr" THEN Branch
        ELSE /\ UNCHANGED wrapper
             /\ IF place = "function" /\ pc = 4 THEN Goto("rest", 1) ELSE Goto(place, pc + 1)
  /\ UNCHANGED <<func, patcherVars>>

\* A wrapper calls the original through the trampoline; that of the grading
\* knows the answer for some processors.
Wrap ==
  /\ place = "wrap" /\ ints
  /\ trace' = Append(trace, "wrap")
  /\ \/ Goto(IF org[wrapper] = <<>> THEN "wild" ELSE "trampoline", 1)
     \/ Routed[wrapper] = "grade_binary" /\ Goto("back", 1)
  /\ UNCHANGED <<func, wrapper, r0, ctr, patcherVars>>

\* From the fifth instruction on.
Rest ==
  /\ place = "rest" /\ ints
  /\ trace' = Append(trace, "rest")
  /\ Goto("back", 1)
  /\ UNCHANGED <<func, wrapper, r0, ctr, patcherVars>>

Return ==
  /\ place = "back" /\ ints
  /\ func' = "other" /\ Goto("out", 1) /\ wrapper' = 0
  /\ r0' = Nowhere /\ ctr' = Nowhere /\ trace' = <<>>
  /\ UNCHANGED patcherVars

-----------------------------------------------------------------------------
InitPatcher ==
  Find \/ CreateTrampoline \/ InterruptsOff \/ WriteWord \/ InterruptsOn

PatcherNext ==
  \/ InitPatcher
  \/ Call \/ Execute \/ Wrap \/ Rest \/ Return

-----------------------------------------------------------------------------
(* Properties                                                              *)

Whole == <<"1", "2", "3", "4", "rest">>

\* Each call of a routed function, whenever it is made, runs the wrapper at most
\* once and then the whole function once, every instruction in its order; only
\* the wrapper of the grading may leave the function out.
CallsWhole ==
  /\ place # "wild"
  /\ place = "back" => trace \in {Whole, <<"wrap">> \o Whole}
                               \cup {<<"wrap">> : i \in {wrapper} \cap {3}}
=============================================================================
