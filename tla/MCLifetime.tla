----------------------------- MODULE MCLifetime -----------------------------
(* Model values of Lifetime.                                               *)
EXTENDS Lifetime

CONSTANTS r1, r2, r3
=============================================================================
