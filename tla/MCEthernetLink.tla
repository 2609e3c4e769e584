--------------------------- MODULE MCEthernetLink ---------------------------
(* Instances of EthernetLink for TLC. *)
EXTENDS EthernetLink

AllMedia     == Media
ButTheSlowest == Media \ {1}
=============================================================================
