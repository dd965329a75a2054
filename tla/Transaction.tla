---------------------------- MODULE Transaction ----------------------------
(***************************************************************************)
(* The CoAP exchange engine of wakaama (src/external/wakaama/transaction.c *)
(* and the response half of lwm2m_handle_packet in packet.c): confirmable  *)
(* requests are kept in contextP->transactionList, retransmitted with an   *)
(* exponential back-off, and completed by a piggy-backed response, a       *)
(* separate response, a reset, or by giving up.                            *)
(*                                                                         *)
(* One record of tx per message id stands for one lwm2m_transaction_t.     *)
(* The network loses, duplicates, delays and reorders datagrams: a message *)
(* is Deliverable as long as the peer could ever have produced it.         *)
(* Protocol is UDP/DTLS, the one the samples run.                          *)
(***************************************************************************)
EXTENDS Integers, FiniteSets

CONSTANTS
  Mids,            \* message ids handed out by contextP->nextMID++
  Session,         \* peers, as session handles
  PeerOf,          \* [Mids -> Session]: sessionH given to transaction_new
  Tokenless,       \* the ids of requests created with token_len 0
  Unserializable,  \* the ids of requests coap_serialize_message refuses
  RESPONSE_TIMEOUT, MAX_RETRANSMIT,  \* COAP_RESPONSE_TIMEOUT, COAP_MAX_RETRANSMIT
  TRANSMIT_WAIT,   \* COAP_MAX_TRANSMIT_WAIT
  MaxLag,          \* the longest the main loop stays away from transaction_step
  StartBy,         \* bound: no request is created after this time
  MaxTime,         \* bound: the clock stops here
  MaxUnauth,       \* bound: 4.01 answers a peer gives to one request
  MaxAllocFail     \* bound: allocations of send buffers that fail

None == -1         \* no message id, no token

ASSUME ConstantsAssumption ==
  /\ Mids \subseteq Nat /\ IsFiniteSet(Mids)
  /\ PeerOf \in [Mids -> Session]
  /\ Tokenless \subseteq Mids
  /\ Unserializable \subseteq Mids
  /\ RESPONSE_TIMEOUT \in Nat \ {0}
  /\ MAX_RETRANSMIT \in Nat
  /\ {TRANSMIT_WAIT, MaxLag, StartBy, MaxTime, MaxUnauth, MaxAllocFail} \subseteq Nat
  /\ MaxLag < 2 * RESPONSE_TIMEOUT   \* a retransmission puts retrans_time ahead of now

VARIABLES
  now,         \* lwm2m_gettime(), in seconds
  tx,          \* [Mids -> Tx]
  out,         \* the datagrams the last action handed to the network
  allocFails   \* how many send buffers could not be allocated so far

vars == <<now, tx, out, allocFails>>

Outcome == {"none", "reply", "reset", "timeout", "refused"}

\* A transaction. listed: it is in contextP->transactionList. tried: when there
\* was no memory for its buffer last. sends, calls, outcome, born and unauth
\* record what happened to it (history only).
Tx == [listed : BOOLEAN, buffer : BOOLEAN, ack_received : BOOLEAN,
       retrans_counter : Nat, retrans_time : Nat, tried : Nat,
       sends : Nat, calls : Nat, outcome : Outcome, born : Nat, unauth : Nat]

Fresh == [listed |-> FALSE, buffer |-> FALSE, ack_received |-> FALSE,
          retrans_counter |-> 0, retrans_time |-> 0, tried |-> 0,
          sends |-> 0, calls |-> 0, outcome |-> "none", born |-> 0, unauth |-> 0]

\* What a peer can put on the wire in answer to a request. CON and NON answers
\* carry a message id of the peer's own, which is never compared with ours.
Message == [from : Session, type : {"ACK", "RST", "CON", "NON"},
            mid : Mids \union {None}, tok : Mids \union {None},
            code : {"empty", "final", "unauth"}]

TypeOK ==
  /\ now \in Nat
  /\ tx \in [Mids -> Tx]
  /\ out \subseteq ({"REQ"} \X Mids) \union {<<"ACK", None>>}
  /\ allocFails \in Nat

Init ==
  /\ now = 0
  /\ tx = [i \in Mids |-> Fresh]
  /\ out = {}
  /\ allocFails = 0

-----------------------------------------------------------------------------
(* transaction_send, transaction_new, transaction_step                     *)

\* Mutants: the shift is one too far, or missing.
BackoffShiftedTwice(counter) == RESPONSE_TIMEOUT * 2^counter
BackoffConstant(counter) == RESPONSE_TIMEOUT

\* COAP_RESPONSE_TIMEOUT << (retrans_counter - 1)
Backoff(counter) == RESPONSE_TIMEOUT * 2^(counter - 1)

\* Mutant: the callback runs but the transaction stays in the list.
FinishKeepsEntry(t, o) == [t EXCEPT !.outcome = o, !.calls = @ + 1]

\* transaction_remove, after the callback has run with outcome o.
Finish(t, o) ==
  [t EXCEPT !.listed = FALSE, !.outcome = o, !.calls = @ + 1]

\* transaction_remove on a request that cannot be serialized: no callback.
Refuse(t) == [t EXCEPT !.listed = FALSE, !.outcome = "refused"]

\* Mutants: one transmission too many, one too few.
GivesUpLate(t) == t.ack_received \/ t.retrans_counter > MAX_RETRANSMIT + 2
GivesUpEarly(t) == t.ack_received \/ t.retrans_counter > MAX_RETRANSMIT

GivesUp(t) == t.ack_received \/ t.retrans_counter > MAX_RETRANSMIT + 1

Transmit(t) ==
  IF t.retrans_counter = 0
  THEN [t EXCEPT !.buffer = TRUE, !.sends = @ + 1,
                 !.retrans_counter = 2,
                 !.retrans_time = now + RESPONSE_TIMEOUT]
  ELSE [t EXCEPT !.buffer = TRUE, !.sends = @ + 1,
                 !.retrans_counter = @ + 1,
                 !.retrans_time = @ + Backoff(t.retrans_counter)]

\* transaction_send(contextP, t): noMemory says that lwm2m_malloc of the
\* buffer fails, which leaves the transaction in the list.
Send(i, t, noMemory) ==
  IF ~t.buffer /\ noMemory THEN [t EXCEPT !.tried = now]
  ELSE IF ~t.buffer /\ i \in Unserializable THEN Refuse(t)
  ELSE IF GivesUp(t) THEN Finish([t EXCEPT !.buffer = TRUE], "timeout")
  ELSE Transmit(t)

\* A caller creates a request, puts it in the list and sends it.
New(i) ==
  /\ now <= StartBy
  /\ tx[i] = Fresh
  /\ \A j \in Mids : j < i => tx[j] # Fresh
  /\ \E noMemory \in BOOLEAN :
       /\ noMemory => allocFails < MaxAllocFail
       /\ allocFails' = IF noMemory THEN allocFails + 1 ELSE allocFails
       /\ tx' = [tx EXCEPT ![i] =
                   Send(i, [Fresh EXCEPT !.listed = TRUE, !.born = now], noMemory)]
  /\ out' = {<<"REQ", j>> : j \in {k \in Mids : tx'[k].sends > tx[k].sends}}
  /\ UNCHANGED now

\* Mutant: acknowledged requests are not looked at any more.
DueUnacknowledged(i) ==
  tx[i].listed /\ ~tx[i].ack_received /\ tx[i].retrans_time <= now

Due(i) == tx[i].listed /\ tx[i].retrans_time <= now

\* transaction_step: one pass of transaction_send over every due entry.
Step ==
  /\ \E i \in Mids : Due(i)
  /\ \E starved \in SUBSET {i \in Mids : Due(i) /\ ~tx[i].buffer} :
       /\ allocFails + Cardinality(starved) <= MaxAllocFail
       /\ allocFails' = allocFails + Cardinality(starved)
       /\ tx' = [i \in Mids |->
                   IF Due(i) THEN Send(i, tx[i], i \in starved) ELSE tx[i]]
  /\ out' = {<<"REQ", j>> : j \in {k \in Mids : tx'[k].sends > tx[k].sends}}
  /\ UNCHANGED now

\* When transaction_step asks to be called again for t: its retrans_time, or in
\* a second, as long as there is no memory for its buffer.
WakeUp(t) == IF t.buffer THEN t.retrans_time ELSE t.tried + 1

\* The loop calls transaction_step again at the latest MaxLag seconds after
\* that: select() sleeps no longer than *timeoutP.
Tick ==
  /\ now < MaxTime
  /\ \A i \in Mids : tx[i].listed => now < WakeUp(tx[i]) + MaxLag
  /\ now' = now + 1
  /\ out' = {}
  /\ UNCHANGED <<tx, allocFails>>

-----------------------------------------------------------------------------
(* transaction_handleResponse, called from lwm2m_handle_packet             *)

\* The messages peers and network can deliver now. An empty ACK or RST may be
\* a stranger: left over from an earlier boot, from any session, any id.
Deliverable(m) ==
  /\ m.code = "empty" => m.type \in {"ACK", "RST"} /\ m.tok = None
  /\ m.type = "RST" => m.code = "empty"
  /\ m.type \in {"ACK", "RST"} <=> m.mid # None
  /\ m.type = "ACK" /\ m.code # "empty" =>
       /\ tx[m.mid].sends > 0
       /\ m.from = PeerOf[m.mid]
       /\ m.tok = IF m.mid \in Tokenless THEN None ELSE m.mid
  /\ m.tok # None =>
       /\ m.tok \notin Tokenless
       /\ tx[m.tok].sends > 0
       /\ m.from = PeerOf[m.tok]

\* The acknowledgement test of the loop body ("found" in the code).
Acknowledges(m, i) ==
  ~tx[i].ack_received /\ m.type \in {"ACK", "RST"} /\ m.mid = i

\* prv_checkFinished, after the acknowledgement test.
CheckFinished(m, i) ==
  IF i \in Tokenless THEN tx[i].ack_received \/ Acknowledges(m, i)
                     ELSE m.tok = i

\* Mutant: completed requests are still found by the loop.
MatchesCompleted(m, i) ==
  /\ tx[i].sends > 0
  /\ m.from = PeerOf[i]
  /\ Acknowledges(m, i) \/ CheckFinished(m, i)

Matches(m, i) ==
  /\ tx[i].listed
  /\ m.from = PeerOf[i]
  /\ Acknowledges(m, i) \/ CheckFinished(m, i)

\* The loop stops at the first entry it can use; the list is sorted by id.
FirstMatch(m, i) ==
  Matches(m, i) /\ \A j \in Mids : j < i => ~Matches(m, j)

\* A CON response is acknowledged, whether or not it belongs to a request.
Acknowledge(m) == out' = IF m.type = "CON" THEN {<<"ACK", None>>} ELSE {}

\* RST: the callback gets the reset message.
HandleReset(m, i) ==
  /\ FirstMatch(m, i)
  /\ m.type = "RST" /\ Acknowledges(m, i)
  /\ tx' = [tx EXCEPT ![i] = Finish([@ EXCEPT !.ack_received = TRUE], "reset")]
  /\ out' = {}
  /\ UNCHANGED <<now, allocFails>>

\* An empty ACK: the response will come separately; wait for it.
HandleEmptyAck(m, i) ==
  /\ FirstMatch(m, i)
  /\ m.type # "RST" /\ ~CheckFinished(m, i)
  /\ tx' = [tx EXCEPT ![i].ack_received = TRUE,
                      ![i].retrans_time =
                        now + RESPONSE_TIMEOUT * tx[i].retrans_counter]
  /\ out' = {}
  /\ UNCHANGED <<now, allocFails>>

Retryable(m, i) == m.code = "unauth" /\ MAX_RETRANSMIT > tx[i].retrans_counter

\* 4.01 early in the exchange: forget the answer, retransmit later.
HandleUnauthorized(m, i) ==
  /\ FirstMatch(m, i)
  /\ m.type # "RST" /\ CheckFinished(m, i)
  /\ Retryable(m, i)
  /\ tx[i].unauth < MaxUnauth
  /\ tx' = [tx EXCEPT ![i].ack_received = FALSE,
                      ![i].retrans_time = @ + RESPONSE_TIMEOUT,
                      ![i].unauth = @ + 1]
  /\ Acknowledge(m)
  /\ UNCHANGED <<now, allocFails>>

\* Any other response: callback, then transaction_remove.
HandleFinal(m, i) ==
  /\ FirstMatch(m, i)
  /\ m.type # "RST" /\ CheckFinished(m, i)
  /\ ~Retryable(m, i)
  /\ tx' = [tx EXCEPT ![i] = Finish(@, "reply")]
  /\ Acknowledge(m)
  /\ UNCHANGED <<now, allocFails>>

\* A late, duplicate or foreign response: done is false in packet.c.
HandleUnmatched(m) ==
  /\ \A i \in Mids : ~Matches(m, i)
  /\ Acknowledge(m)
  /\ UNCHANGED <<now, tx, allocFails>>

Receive(m) ==
  /\ Deliverable(m)
  /\ \/ \E i \in Mids : \/ HandleReset(m, i)
                        \/ HandleEmptyAck(m, i)
                        \/ HandleUnauthorized(m, i)
                        \/ HandleFinal(m, i)
     \/ HandleUnmatched(m)

Next ==
  \/ \E i \in Mids : New(i)
  \/ Step
  \/ Tick
  \/ \E m \in Message : Receive(m)

Spec == Init /\ [][Next]_vars

\* The main loop comes back to transaction_step for ever, and time passes.
FairSpec == Spec /\ WF_vars(Step) /\ WF_vars(Tick)

-----------------------------------------------------------------------------
(* Properties                                                              *)

\* transaction_handleResponse and transaction_send both run the callback and
\* then remove the transaction. However answers are duplicated or race with
\* the retransmission timer, the callback of a request runs once, when the
\* request leaves the list; only a request that cannot be serialized leaves it
\* without one.
AnsweredOnce ==
  \A i \in Mids :
    /\ tx[i].calls = IF tx[i].outcome \in {"reply", "reset", "timeout"} THEN 1 ELSE 0
    /\ tx[i].listed => tx[i].outcome = "none"
    /\ tx[i].outcome = "refused" => i \in Unserializable /\ tx[i].sends = 0

\* retrans_counter survives acknowledgements and 4.01 answers, so no mix of
\* them makes transaction_send put a request on the wire more than
\* COAP_MAX_RETRANSMIT + 1 times.
SendsBounded == \A i \in Mids : tx[i].sends <= MAX_RETRANSMIT + 1

\* Congestion control: the k-th transmission of a request never leaves before
\* the first k - 1 back-off intervals have passed since the request was made,
\* late calls of transaction_step, acknowledgements and 4.01 included.
BackoffRespected ==
  \A i \in Mids :
    tx[i].sends > 1 => now >= tx[i].born + RESPONSE_TIMEOUT * (2^(tx[i].sends - 1) - 1)

\* A caller is told "no answer" (callback with NULL) only when the peer stayed
\* silent over the whole retransmission schedule, or acknowledged the request
\* and then let it wait.
TimeoutEarned ==
  \A i \in Mids :
    tx[i].outcome = "timeout" =>
      \/ tx[i].ack_received
      \/ tx[i].sends = MAX_RETRANSMIT + 1

\* registration_step starts an update COAP_MAX_TRANSMIT_WAIT seconds before a
\* registration expires: a request is over by then, whatever the network does.
OverInTime ==
  \A i \in Mids : tx[i].listed => now <= tx[i].born + TRANSMIT_WAIT

\* The engine implements what its callers rely on.
PhaseOf(t) == IF t.listed THEN "open"
              ELSE IF t.outcome = "none" THEN "idle" ELSE t.outcome

Abstract == INSTANCE Exchange WITH phase <- [i \in Mids |-> PhaseOf(tx[i])]

ImplementsExchange == Abstract!Spec

\* And it keeps no request open for ever: every request that enters transactionList
\* leaves it, also one whose buffer could not be allocated, and one that was acknowledged.
ImplementsFairExchange == Abstract!FairSpec
=============================================================================
