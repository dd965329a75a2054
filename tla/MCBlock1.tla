------------------------------ MODULE MCBlock1 ------------------------------
(***************************************************************************)
(* Instances of Block1 for TLC.                                            *)
(***************************************************************************)
EXTENDS Block1

Body(n, l) == [name |-> n, length |-> l]

\* Blocks of 2 bytes, at most 8: a body with a short last block, one that just fits, and
\* one that does not.
MCBodies == {Body("x", 5), Body("y", 7), Body("z", 9)}
=============================================================================
