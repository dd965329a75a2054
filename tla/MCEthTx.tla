------------------------------ MODULE MCEthTx ------------------------------
(***************************************************************************)
(* Instances of EthTx for TLC.                                             *)
(***************************************************************************)
EXTENDS EthTx
=============================================================================
