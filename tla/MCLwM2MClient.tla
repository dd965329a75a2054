--------------------------- MODULE MCLwM2MClient ---------------------------
(***************************************************************************)
(* Instances of LwM2MClient for TLC.                                       *)
(***************************************************************************)
EXTENDS LwM2MClient

Two == [s \in BS \union LS |-> 2]

\* Server 1 may have two requests at a time, so that one can overtake the other.
OneOrTwo == [s \in BS \union LS |-> IF s = 1 THEN 2 ELSE 1]
=============================================================================
