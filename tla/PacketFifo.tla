----------------------------- MODULE PacketFifo -----------------------------
(***************************************************************************)
(* What the transmit half of XenonEthernet promises to the network stack:  *)
(* a bounded FIFO of mbufs.  A packet that outputPacket() accepted is put  *)
(* on the wire after the packets accepted before it, is given back to the  *)
(* mbuf allocator only after that, in the same order, and exactly once;    *)
(* while the driver holds it the stack cannot hand it over again.          *)
(*                                                                         *)
(* The FIFO is a set with the order in which its members came, not a       *)
(* sequence: the order of two packets can then be read off the ring        *)
(* without counting the packets between them.                              *)
(***************************************************************************)
EXTENDS Naturals, FiniteSets

CONSTANTS Packets,   \* the mbufs the stack transmits
          Capacity   \* most packets the driver may hold at once

VARIABLES queued,    \* accepted packets not yet freed
          before,    \* pairs of them, the one accepted first on the left
          sent       \* those of them that left on the wire

vars == <<queued, before, sent>>

Init == queued = {} /\ before = {} /\ sent = {}

Accept(p) ==
  /\ p \notin queued
  /\ Cardinality(queued) < Capacity
  /\ queued' = queued \cup {p}
  /\ before' = before \cup (queued \X {p})
  /\ UNCHANGED sent

\* The packets accepted before p.
Before(p) == {q \in queued : <<q, p>> \in before}

Transmit(p) ==
  /\ p \in queued \ sent
  /\ Before(p) \subseteq sent
  /\ sent' = sent \cup {p}
  /\ UNCHANGED <<queued, before>>

Free(p) ==
  /\ p \in sent
  /\ Before(p) = {}
  /\ queued' = queued \ {p}
  /\ before' = {pair \in before : p # pair[1] /\ p # pair[2]}
  /\ sent' = sent \ {p}

Next == \E p \in Packets : Accept(p) \/ Transmit(p) \/ Free(p)

Spec == Init /\ [][Next]_vars
=============================================================================
