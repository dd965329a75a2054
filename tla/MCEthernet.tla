----------------------------- MODULE MCEthernet -----------------------------
(***************************************************************************)
(* Instances of Ethernet for TLC.                                          *)
(***************************************************************************)
EXTENDS Ethernet
=============================================================================
