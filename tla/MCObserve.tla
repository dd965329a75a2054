----------------------------- MODULE MCObserve -----------------------------
(***************************************************************************)
(* Instances of Observe for TLC.                                           *)
(***************************************************************************)
EXTENDS Observe, TLC

Symmetric == Permutations(Servers) \union Permutations(Uris)

\* What a server sets: the threshold or both periods, one of which it may clear later.
MCAttributes == {{"less"}, {"min", "max"}}
=============================================================================
