------------------------------ MODULE MCTxRing ------------------------------
(* Small instances of TxRing for TLC. *)
EXTENDS TxRing, TLC

Interchangeable == Permutations(Packets)
LastSlot == {DescCount - 1}
=============================================================================
