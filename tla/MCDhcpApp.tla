----------------------------- MODULE MCDhcpApp -----------------------------
(***************************************************************************)
(* Instances of DhcpApp for TLC.                                           *)
(***************************************************************************)
EXTENDS DhcpApp
=============================================================================
