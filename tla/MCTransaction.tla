--------------------------- MODULE MCTransaction ---------------------------
(***************************************************************************)
(* Instances of Transaction for TLC.                                       *)
(***************************************************************************)
EXTENDS Transaction

CONSTANTS s1, s2

\* Requests 1 and 2 go to the same peer, request 3 to another one.
TwoPeers == [i \in Mids |-> IF i = 3 THEN s2 ELSE s1]

OnePeer == [i \in Mids |-> s1]
=============================================================================
