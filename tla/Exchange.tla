------------------------------ MODULE Exchange ------------------------------
(***************************************************************************)
(* What the exchange engine of transaction.c promises its callers          *)
(* (registration.c, bootstrap.c, management.c, observe.c): a request that   *)
(* was accepted ends, once, either with an answer of the peer, or because   *)
(* the engine gave it up; answers are handed over one at a time, while one  *)
(* pass over the list may give up several requests.                        *)
(***************************************************************************)
CONSTANT Mids

VARIABLE phase   \* [Mids -> Phase]

Ended == {"reply", "reset", "timeout", "refused"}
Phase == {"idle", "open"} \union Ended

Init == phase = [i \in Mids |-> "idle"]

\* The request is put in the list, or its creation fails.
Start(i) ==
  /\ phase[i] = "idle"
  /\ \E p \in {"open", "refused"} : phase' = [phase EXCEPT ![i] = p]

\* A response or a reset of the peer completes the request.
Answer(i) ==
  /\ phase[i] = "open"
  /\ \E p \in {"reply", "reset"} : phase' = [phase EXCEPT ![i] = p]

\* One pass over the list ends some open requests without an answer.
GiveUp ==
  /\ phase' \in [Mids -> Phase]
  /\ \A i \in Mids : \/ phase'[i] = phase[i]
                     \/ phase[i] = "open" /\ phase'[i] \in {"timeout", "refused"}

Next == GiveUp \/ \E i \in Mids : Start(i) \/ Answer(i)

Spec == Init /\ [][Next]_phase

\* Every accepted request ends.
Ends(i) == phase[i] = "open" /\ phase'[i] \in Ended
FairSpec == Spec /\ \A i \in Mids : WF_phase(Next /\ Ends(i))
=============================================================================
