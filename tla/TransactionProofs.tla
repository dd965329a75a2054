------------------------- MODULE TransactionProofs -------------------------
(***************************************************************************)
(* Safety of the CoAP exchange engine, for every number of requests and    *)
(* peers and every value of the retransmission parameters.                 *)
(***************************************************************************)
EXTENDS Transaction, FunctionTheorems, FiniteSetTheorems, TLAPS

\* The inductive core of the properties of one transaction: retrans_counter
\* counts the transmissions, a transaction without buffer was never sent, and
\* the history of the callback agrees with the list.
Sound(i, t) ==
  /\ t.retrans_counter = IF t.sends = 0 THEN 0 ELSE t.sends + 1
  /\ t.sends <= MAX_RETRANSMIT + 1
  /\ ~t.buffer => t.sends = 0
  /\ t.listed /\ t.buffer => t.sends > 0
  /\ t.calls = IF t.outcome \in {"reply", "reset", "timeout"} THEN 1 ELSE 0
  /\ t.listed => t.outcome = "none"
  /\ t.outcome = "refused" => i \in Unserializable /\ t.sends = 0
  /\ t.outcome = "timeout" => t.ack_received \/ t.sends = MAX_RETRANSMIT + 1

\* What of it the end of a transaction relies on.
CanFinish(i, t) ==
  /\ t.retrans_counter = IF t.sends = 0 THEN 0 ELSE t.sends + 1
  /\ t.sends <= MAX_RETRANSMIT + 1
  /\ ~t.buffer => t.sends = 0
  /\ t.calls = 0

IInv == TypeOK /\ \A i \in Mids : Sound(i, tx[i])

-----------------------------------------------------------------------------
(* The schedule                                                             *)

\* The subsets of 1 .. k are counted by the power of two.
LEMMA PowerCounts ==
  ASSUME NEW k \in Nat
  PROVE  /\ IsFiniteSet(SUBSET (1 .. k))
         /\ Cardinality(SUBSET (1 .. k)) = 2^k
<1>1. IsFiniteSet(1 .. k) /\ Cardinality(1 .. k) = k  BY FS_Interval
<1> QED  BY <1>1, FS_SUBSET

\* Powers of two are positive, grow, and double.
LEMMA PowerFacts ==
  ASSUME NEW k \in Nat
  PROVE  /\ 2^k \in Nat \ {0}
         /\ 2^(k + 1) = 2 * 2^k
         /\ \A m \in Nat : k <= m => 2^k <= 2^m
<1> DEFINE S == SUBSET (1 .. k)
           f == [s \in S |-> s \union {k + 1}]
           T == {f[s] : s \in S}
<1>1. IsFiniteSet(S) /\ Cardinality(S) = 2^k /\ Cardinality(S) \in Nat
  BY PowerCounts, FS_CardinalityType
<1>2. Cardinality(S) # 0
  <2>1. S # {}  OBVIOUS
  <2> HIDE DEF S
  <2> QED  BY <1>1, <2>1, FS_EmptySet
<1>3. ASSUME NEW m \in Nat, k <= m PROVE 2^k <= 2^m
  <2>1. S \in SUBSET (SUBSET (1 .. m))
    <3>1. 1 .. k \subseteq 1 .. m  BY <1>3
    <3> QED  BY <3>1
  <2>2. IsFiniteSet(SUBSET (1 .. m)) /\ Cardinality(SUBSET (1 .. m)) = 2^m  BY PowerCounts
  <2> HIDE DEF S
  <2>3. Cardinality(S) <= Cardinality(SUBSET (1 .. m))  BY <2>1, <2>2, FS_Subset
  <2> QED  BY <1>1, <2>2, <2>3
<1>4. k + 1 \notin 1 .. k  OBVIOUS
<1>5. f \in Bijection(S, T)
  <2>1. \A s, t \in S : f[s] = f[t] => s = t
    <3> SUFFICES ASSUME NEW s \in S, NEW t \in S, f[s] = f[t] PROVE s = t
      OBVIOUS
    <3>1. k + 1 \notin s /\ k + 1 \notin t  BY <1>4
    <3>2. s \union {k + 1} = t \union {k + 1}  OBVIOUS
    <3> QED  BY <3>1, <3>2
  <2> HIDE DEF S
  <2>2. f \in [S -> T]  OBVIOUS
  <2>3. \A y \in T : \E s \in S : f[s] = y  OBVIOUS
  <2> QED  BY <2>1, <2>2, <2>3, Fun_IsBij
<1>6. IsFiniteSet(T) /\ Cardinality(T) = Cardinality(S)
  <2>1. ExistsBijection(S, T)  BY <1>5 DEF ExistsBijection
  <2> HIDE DEF S, T
  <2> QED  BY <1>1, <2>1, FS_Bijection
<1>7. S \intersect T = {}  BY <1>4
<1>8. SUBSET (1 .. (k + 1)) = S \union T
  <2>1. 1 .. (k + 1) = (1 .. k) \union {k + 1}  OBVIOUS
  <2>2. ASSUME NEW s \in SUBSET (1 .. (k + 1)) PROVE s \in S \union T
    <3>1. CASE k + 1 \notin s  BY <2>1, <3>1
    <3>2. CASE k + 1 \in s
      <4>1. s \ {k + 1} \in S  BY <2>1
      <4>2. f[s \ {k + 1}] = s  BY <3>2, <4>1
      <4> QED  BY <4>1, <4>2
    <3> QED  BY <3>1, <3>2
  <2>3. ASSUME NEW s \in S \union T PROVE s \in SUBSET (1 .. (k + 1))
    BY <2>1
  <2> QED  BY <2>2, <2>3
<1>9. Cardinality(S \union T) = Cardinality(S) + Cardinality(T)
  <2> HIDE DEF S, T
  <2>1. Cardinality({}) = 0  BY FS_EmptySet
  <2> QED  BY <1>1, <1>6, <1>7, <2>1, FS_Union
<1> HIDE DEF S, T
<1>10. Cardinality(SUBSET (1 .. (k + 1))) = 2^(k + 1)
  <2> DEFINE m == k + 1
  <2>1. m \in Nat  OBVIOUS
  <2> HIDE DEF m
  <2>2. Cardinality(SUBSET (1 .. m)) = 2^m  BY <2>1, PowerCounts
  <2> QED  BY <2>2 DEF m
<1>11. 2^(k + 1) = Cardinality(S) + Cardinality(S)
  BY <1>6, <1>8, <1>9, <1>10
<1>12. 2^k \in Nat \ {0}  BY <1>1, <1>2
<1>13. 2^(k + 1) = 2 * 2^k  BY <1>1, <1>11, <1>12
<1> QED  BY <1>3, <1>12, <1>13

\* The delay transaction_send adds is a number of seconds.
LEMMA BackoffType ==
  ASSUME NEW c \in 1 .. MAX_RETRANSMIT + 1
  PROVE  Backoff(c) \in Nat
<1>1. 2^(c - 1) \in Nat
  <2>1. c - 1 \in Nat
    BY ConstantsAssumption
  <2>. QED
    BY <2>1, PowerFacts
<1>2. RESPONSE_TIMEOUT \in Nat
  BY ConstantsAssumption
<1>. QED
  BY <1>1, <1>2 DEF Backoff

\* The updates transaction_send and transaction_remove make keep the type.
LEMMA TransmitType ==
  ASSUME NEW t \in Tx, NEW s \in Nat, NEW c \in Nat, NEW r \in Nat
  PROVE  [t EXCEPT !.buffer = TRUE, !.sends = s, !.retrans_counter = c,
                   !.retrans_time = r] \in Tx
BY DEF Tx

\* So does the end of a transaction.
LEMMA FinishType ==
  ASSUME NEW t \in Tx, NEW o \in Outcome, NEW c \in Nat
  PROVE  [t EXCEPT !.listed = FALSE, !.outcome = o, !.calls = c] \in Tx
BY DEF Tx

\* transaction_remove after a callback, as seen by the history fields.
LEMMA FinishSound ==
  ASSUME TypeOK, NEW i \in Mids, NEW t \in Tx, CanFinish(i, t),
         NEW o \in {"reply", "reset", "timeout"},
         o = "timeout" => t.ack_received \/ t.sends = MAX_RETRANSMIT + 1
  PROVE  Finish(t, o) \in Tx /\ Sound(i, Finish(t, o))
<1>. DEFINE u == Finish(t, o)
<1>1. u = [t EXCEPT !.listed = FALSE, !.outcome = o, !.calls = t.calls + 1]
  BY DEF Finish
<1>2. u \in Tx
  <2>1. t.calls + 1 \in Nat /\ o \in Outcome
    BY DEF Tx, Outcome
  <2>. QED
    BY <1>1, <2>1, FinishType
<1>3. /\ u.listed = FALSE /\ u.outcome = o /\ u.calls = t.calls + 1
      /\ u.buffer = t.buffer /\ u.sends = t.sends
      /\ u.ack_received = t.ack_received /\ u.retrans_counter = t.retrans_counter
  BY <1>1 DEF Tx
<1>4. Sound(i, u)
  BY <1>3 DEF Sound, CanFinish
<1>. QED
  BY <1>2, <1>4

\* transaction_send leaves a well-formed, sound transaction behind.
LEMMA SendSound ==
  ASSUME TypeOK, NEW i \in Mids, NEW t \in Tx, Sound(i, t), t.listed,
         NEW noMemory \in BOOLEAN
  PROVE  Send(i, t, noMemory) \in Tx /\ Sound(i, Send(i, t, noMemory))
<1>1. CASE ~t.buffer /\ noMemory
  <2> DEFINE u == [t EXCEPT !.tried = now]
  <2>1. Send(i, t, noMemory) = u
    BY <1>1 DEF Send
  <2>2. u \in Tx
    BY DEF Tx, TypeOK
  <2>3. Sound(i, u)
    BY DEF Tx, Sound
  <2> HIDE DEF u
  <2> QED
    BY <2>1, <2>2, <2>3
<1>2. CASE ~(~t.buffer /\ noMemory) /\ ~t.buffer /\ i \in Unserializable
  <2>1. Send(i, t, noMemory) = Refuse(t)
    BY <1>2 DEF Send
  <2>2. Refuse(t) \in Tx
    BY DEF Refuse, Tx, Outcome
  <2>3. Sound(i, Refuse(t))
    BY <1>2 DEF Refuse, Tx, Outcome, Sound
  <2>. QED
    BY <2>1, <2>2, <2>3
<1>3. CASE ~(~t.buffer /\ noMemory) /\ ~(~t.buffer /\ i \in Unserializable) /\ GivesUp(t)
  <2>. DEFINE u == [t EXCEPT !.buffer = TRUE]
  <2>1. Send(i, t, noMemory) = Finish(u, "timeout")
    BY <1>3 DEF Send
  <2>2. t.ack_received \/ t.sends = MAX_RETRANSMIT + 1
    BY <1>3, ConstantsAssumption DEF GivesUp, Sound, Tx
  <2>3. u \in Tx /\ CanFinish(i, u) /\ u.listed
    BY DEF Tx, Sound, CanFinish
  <2>4. u.ack_received \/ u.sends = MAX_RETRANSMIT + 1
    BY <2>2 DEF Tx
  <2>. HIDE DEF u
  <2>. QED
    BY <2>1, <2>3, <2>4, FinishSound
<1>4. CASE ~(~t.buffer /\ noMemory) /\ ~(~t.buffer /\ i \in Unserializable) /\ ~GivesUp(t)
  <2>1. Send(i, t, noMemory) = Transmit(t)
    BY <1>4 DEF Send
  <2>2. CASE t.retrans_counter = 0
    <3>1. t.sends = 0
      BY <2>2 DEF Sound, Tx
    <3>2. now + RESPONSE_TIMEOUT \in Nat
      BY ConstantsAssumption DEF TypeOK
    <3>3. Transmit(t) = [t EXCEPT !.buffer = TRUE, !.sends = 1, !.retrans_counter = 2,
                                  !.retrans_time = now + RESPONSE_TIMEOUT]
      BY <2>2, <3>1 DEF Transmit, Tx
    <3>4. Transmit(t) \in Tx
      <4>. DEFINE r == now + RESPONSE_TIMEOUT
      <4>1. r \in Nat /\ 1 \in Nat /\ 2 \in Nat
        BY <3>2
      <4>. HIDE DEF r
      <4>2. [t EXCEPT !.buffer = TRUE, !.sends = 1, !.retrans_counter = 2,
                      !.retrans_time = r] \in Tx
        BY ONLY <4>1, TransmitType, t \in Tx
      <4>. QED
        BY <3>3, <4>2 DEF r
    <3>5. Sound(i, Transmit(t))
      BY <3>3, <3>4, ConstantsAssumption DEF Tx, Sound
    <3>. QED
      BY <2>1, <3>4, <3>5
  <2>3. CASE t.retrans_counter # 0
    <3>1. t.sends > 0 /\ t.retrans_counter = t.sends + 1 /\ t.retrans_counter <= MAX_RETRANSMIT + 1
      BY <2>3, <1>4, ConstantsAssumption DEF Sound, Tx, GivesUp
    <3>2. Backoff(t.retrans_counter) \in Nat
      BY <3>1, BackoffType, ConstantsAssumption DEF Tx
    <3>3. t.retrans_time + Backoff(t.retrans_counter) \in Nat
      BY <3>2 DEF Tx
    <3>4. Transmit(t) = [t EXCEPT !.buffer = TRUE, !.sends = t.sends + 1,
                                  !.retrans_counter = t.retrans_counter + 1,
                                  !.retrans_time = t.retrans_time + Backoff(t.retrans_counter)]
      BY <2>3 DEF Transmit, Tx
    <3>5. Transmit(t) \in Tx
      <4>. DEFINE s == t.sends + 1
                  c == t.retrans_counter + 1
                  r == t.retrans_time + Backoff(t.retrans_counter)
      <4>1. s \in Nat /\ c \in Nat /\ r \in Nat
        BY <3>3 DEF Tx
      <4>. HIDE DEF s, c, r
      <4>2. [t EXCEPT !.buffer = TRUE, !.sends = s, !.retrans_counter = c,
                      !.retrans_time = r] \in Tx
        BY ONLY <4>1, TransmitType, t \in Tx
      <4>. QED
        BY <3>4, <4>2 DEF s, c, r
    <3>6. Sound(i, Transmit(t))
      BY <3>1, <3>4, <3>5, ConstantsAssumption DEF Tx, Sound
    <3>. QED
      BY <2>1, <3>5, <3>6
  <2>. QED
    BY <2>2, <2>3
<1>. QED
  BY <1>1, <1>2, <1>3, <1>4

\* The record of an id that was never used.
LEMMA FreshSound ==
  ASSUME NEW i \in Mids
  PROVE  Fresh \in Tx /\ Sound(i, Fresh) /\ Fresh.outcome = "none" /\ Fresh.calls = 0
<1>1. Fresh \in Tx
  BY DEF Fresh, Tx, Outcome
<1>2. Sound(i, Fresh) /\ Fresh.outcome = "none" /\ Fresh.calls = 0
  BY ConstantsAssumption DEF Fresh, Sound
<1>. QED
  BY <1>1, <1>2

\* What one action does to one transaction: nothing, a fresh one is sent for
\* the first time, a due one is sent again, or a message of its peer hits it.
LEMMA Steps ==
  ASSUME IInv, Next, NEW i \in Mids
  PROVE  tx'[i] \in Tx /\ Sound(i, tx'[i])
<1>. tx \in [Mids -> Tx] /\ tx[i] \in Tx /\ Sound(i, tx[i]) /\ TypeOK
  BY DEF IInv, TypeOK
<1>1. ASSUME NEW j \in Mids, New(j)
      PROVE  tx'[i] \in Tx /\ Sound(i, tx'[i])
  <2>. DEFINE u == [Fresh EXCEPT !.listed = TRUE, !.born = now]
  <2>1. u \in Tx /\ Sound(j, u) /\ u.listed
    <3>1. /\ Fresh \in Tx /\ Sound(j, Fresh) /\ Fresh.outcome = "none" /\ Fresh.calls = 0
          /\ ~Fresh.buffer
      BY FreshSound DEF Fresh
    <3>2. now \in Nat
      BY DEF TypeOK
    <3>. HIDE DEF Fresh
    <3>. QED
      BY <3>1, <3>2 DEF Tx, Sound
  <2>2. PICK noMemory \in BOOLEAN : tx' = [tx EXCEPT ![j] = Send(j, u, noMemory)]
    BY <1>1 DEF New
  <2>. HIDE DEF u
  <2>. QED
    BY <2>1, <2>2, SendSound
<1>2. CASE Step
  <2>1. PICK starved \in SUBSET {k \in Mids : Due(k) /\ ~tx[k].buffer} :
          tx' = [k \in Mids |-> IF Due(k) THEN Send(k, tx[k], k \in starved) ELSE tx[k]]
    BY <1>2 DEF Step
  <2>2. CASE Due(i)
    <3>1. tx'[i] = Send(i, tx[i], i \in starved) /\ (i \in starved) \in BOOLEAN
      BY <2>1, <2>2
    <3>. QED
      BY <3>1, <2>2, SendSound DEF Due
  <2>3. CASE ~Due(i)
    BY <2>1, <2>3
  <2>. QED
    BY <2>2, <2>3
<1>3. CASE Tick
  BY <1>3 DEF Tick
<1>4. ASSUME NEW m \in Message, NEW j \in Mids,
             HandleReset(m, j) \/ HandleFinal(m, j)
      PROVE  tx'[i] \in Tx /\ Sound(i, tx'[i])
  <2>1. tx[j].listed
    BY <1>4 DEF HandleReset, HandleFinal, FirstMatch, Matches
  <2>2. CASE i # j
    BY <1>4, <2>2 DEF HandleReset, HandleFinal
  <2>3. CASE i = j /\ HandleFinal(m, j)
    <3>1. tx'[i] = Finish(tx[i], "reply")
      BY <2>3 DEF HandleFinal
    <3>2. CanFinish(i, tx[i])
      BY <2>1, <2>3 DEF Sound, CanFinish
    <3>. QED
      BY <3>1, <3>2, FinishSound
  <2>4. CASE i = j /\ HandleReset(m, j)
    <3>. DEFINE u == [tx[i] EXCEPT !.ack_received = TRUE]
    <3>1. tx'[i] = Finish(u, "reset")
      BY <2>4 DEF HandleReset
    <3>2. u \in Tx /\ CanFinish(i, u)
      BY <2>1, <2>4 DEF Tx, Sound, CanFinish
    <3>. HIDE DEF u
    <3>. QED
      BY <3>1, <3>2, FinishSound
  <2>. QED
    BY <1>4, <2>2, <2>3, <2>4
<1>5. ASSUME NEW m \in Message, NEW j \in Mids, HandleEmptyAck(m, j)
      PROVE  tx'[i] \in Tx /\ Sound(i, tx'[i])
  <2>1. tx[j].listed
    BY <1>5 DEF HandleEmptyAck, FirstMatch, Matches
  <2>2. now + RESPONSE_TIMEOUT * tx[i].retrans_counter \in Nat
    BY ConstantsAssumption DEF TypeOK, Tx
  <2>3. tx'[i] = tx[i] \/ (i = j /\ tx'[i] = [tx[i] EXCEPT !.ack_received = TRUE,
            !.retrans_time = now + RESPONSE_TIMEOUT * tx[i].retrans_counter])
    BY <1>5 DEF HandleEmptyAck
  <2>. QED
    BY <2>1, <2>2, <2>3 DEF Tx, Sound
<1>6. ASSUME NEW m \in Message, NEW j \in Mids, HandleUnauthorized(m, j)
      PROVE  tx'[i] \in Tx /\ Sound(i, tx'[i])
  <2>1. tx[j].listed
    BY <1>6 DEF HandleUnauthorized, FirstMatch, Matches
  <2>2. tx[i].retrans_time + RESPONSE_TIMEOUT \in Nat /\ tx[i].unauth + 1 \in Nat
    BY ConstantsAssumption DEF Tx
  <2>3. tx'[i] = tx[i] \/ (i = j /\ tx'[i] = [tx[i] EXCEPT !.ack_received = FALSE,
            !.retrans_time = tx[i].retrans_time + RESPONSE_TIMEOUT,
            !.unauth = tx[i].unauth + 1])
    BY <1>6 DEF HandleUnauthorized
  <2>. QED
    BY <2>1, <2>2, <2>3 DEF Tx, Sound
<1>7. ASSUME NEW m \in Message, HandleUnmatched(m)
      PROVE  tx'[i] \in Tx /\ Sound(i, tx'[i])
  BY <1>7 DEF HandleUnmatched
<1>. QED
  BY <1>1, <1>2, <1>3, <1>4, <1>5, <1>6, <1>7 DEF Next, Receive

\* The variables beside tx keep their types, and tx stays a function.
LEMMA Frame ==
  ASSUME TypeOK, Next
  PROVE  /\ now' \in Nat /\ allocFails' \in Nat
         /\ out' \subseteq ({"REQ"} \X Mids) \union {<<"ACK", None>>}
         /\ tx' = [i \in Mids |-> tx'[i]]
<1>. now \in Nat /\ allocFails \in Nat /\ tx = [i \in Mids |-> tx[i]]
  BY DEF TypeOK
<1>1. ASSUME NEW j \in Mids, New(j)
      PROVE  /\ now' \in Nat /\ allocFails' \in Nat
             /\ out' \subseteq ({"REQ"} \X Mids) \union {<<"ACK", None>>}
             /\ tx' = [i \in Mids |-> tx'[i]]
  BY <1>1 DEF New
<1>2. CASE Step
  <2>1. PICK starved \in SUBSET {k \in Mids : Due(k) /\ ~tx[k].buffer} :
          allocFails' = allocFails + Cardinality(starved)
    BY <1>2 DEF Step
  <2>2. IsFiniteSet(starved)
    BY FS_Subset, ConstantsAssumption
  <2>3. allocFails' \in Nat
    BY <2>1, <2>2, FS_CardinalityType
  <2>. QED
    BY <1>2, <2>3 DEF Step
<1>3. CASE Tick
  BY <1>3 DEF Tick
<1>4. ASSUME NEW m \in Message, Receive(m)
      PROVE  /\ now' \in Nat /\ allocFails' \in Nat
             /\ out' \subseteq ({"REQ"} \X Mids) \union {<<"ACK", None>>}
             /\ tx' = [i \in Mids |-> tx'[i]]
  BY <1>4 DEF Receive, HandleReset, HandleEmptyAck, HandleUnauthorized, HandleFinal,
              HandleUnmatched, Acknowledge
<1>. QED
  BY <1>1, <1>2, <1>3, <1>4 DEF Next

\* The invariant holds throughout.
LEMMA Inductive == Spec => []IInv
<1>1. Init => IInv
  <2> SUFFICES ASSUME Init PROVE IInv
    OBVIOUS
  <2>1. \A i \in Mids : tx[i] = Fresh
    BY DEF Init
  <2>2. \A i \in Mids : tx[i] \in Tx /\ Sound(i, tx[i])
    BY <2>1, FreshSound
  <2>3. tx \in [Mids -> Tx]
    BY <2>2 DEF Init
  <2>. QED
    BY <2>2, <2>3 DEF Init, IInv, TypeOK
<1>2. IInv /\ [Next]_vars => IInv'
  <2> SUFFICES ASSUME IInv, [Next]_vars PROVE IInv'
    OBVIOUS
  <2>1. CASE Next
    <3>1. \A i \in Mids : tx'[i] \in Tx /\ Sound(i, tx'[i])
      BY <2>1, Steps
    <3>2. TypeOK
      BY DEF IInv
    <3>3. tx' \in [Mids -> Tx]
      BY <2>1, <3>1, <3>2, Frame
    <3>. QED
      BY <2>1, <3>1, <3>2, <3>3, Frame DEF IInv, TypeOK, Sound
  <2>2. CASE UNCHANGED vars
    BY <2>2 DEF vars, IInv, TypeOK, Sound
  <2>. QED
    BY <2>1, <2>2
<1>. QED
  BY <1>1, <1>2, PTL DEF Spec

\* Type correctness of the engine.
THEOREM TypeCorrect == Spec => []TypeOK
<1>1. IInv => TypeOK
  BY DEF IInv
<1>. QED
  BY <1>1, Inductive, PTL

\* The callback of a request runs once, when the request leaves the list, and only a
\* request that could not be serialized goes without.
THEOREM CallbackOnce == Spec => []AnsweredOnce
<1>1. IInv => AnsweredOnce
  BY DEF IInv, Sound, AnsweredOnce
<1>. QED
  BY <1>1, Inductive, PTL

\* No request is transmitted more than COAP_MAX_RETRANSMIT + 1 times.
THEOREM SendsBound == Spec => []SendsBounded
<1>1. IInv => SendsBounded
  BY DEF IInv, Sound, SendsBounded
<1>. QED
  BY <1>1, Inductive, PTL

\* A caller is told "no answer" only after the whole retransmission schedule, or when the
\* peer acknowledged the request and let it wait.
THEOREM TimeoutIsEarned == Spec => []TimeoutEarned
<1>1. IInv => TimeoutEarned
  BY DEF IInv, Sound, TimeoutEarned
<1>. QED
  BY <1>1, Inductive, PTL

\* transaction_send keeps a transaction open, refuses it or gives it up; the
\* first call for a new transaction does not give it up.
LEMMA SendPhase ==
  ASSUME NEW i \in Mids, NEW t \in Tx, t.listed, Sound(i, t), NEW noMemory \in BOOLEAN
  PROVE  /\ PhaseOf(Send(i, t, noMemory)) \in {"open", "refused", "timeout"}
         /\ t.retrans_counter = 0 /\ ~t.ack_received
              => PhaseOf(Send(i, t, noMemory)) \in {"open", "refused"}
<1>1. Refuse(t).listed = FALSE /\ Refuse(t).outcome = "refused"
  BY DEF Refuse, Tx
<1>2. Transmit(t).listed /\ [t EXCEPT !.tried = now].listed
  BY DEF Transmit, Tx
<1>3. /\ Finish([t EXCEPT !.buffer = TRUE], "timeout").listed = FALSE
      /\ Finish([t EXCEPT !.buffer = TRUE], "timeout").outcome = "timeout"
  BY DEF Finish, Tx
<1>4. t.retrans_counter = 0 /\ ~t.ack_received => ~GivesUp(t)
  BY ConstantsAssumption DEF GivesUp
<1>. QED
  BY <1>1, <1>2, <1>3, <1>4 DEF Send, PhaseOf

\* transaction.c implements the exchanges its callers rely on.
THEOREM Refinement == Spec => ImplementsExchange
<1>. DEFINE bar == [i \in Mids |-> PhaseOf(tx[i])]
<1>1. Init => Abstract!Init
  <2>1. PhaseOf(Fresh) = "idle"
    BY DEF PhaseOf, Fresh
  <2>. QED
    BY <2>1 DEF Init, Abstract!Init
<1>2. IInv /\ [Next]_vars => [Abstract!Next]_bar
  <2> SUFFICES ASSUME IInv, [Next]_vars
               PROVE  Abstract!Next \/ bar' = bar
    OBVIOUS
  <2>0. /\ TypeOK /\ tx \in [Mids -> Tx]
        /\ \A i \in Mids : tx[i] \in Tx /\ Sound(i, tx[i])
    BY DEF IInv, TypeOK
  <2>1. ASSUME NEW j \in Mids, New(j) PROVE Abstract!Next
    <3>. DEFINE u == [Fresh EXCEPT !.listed = TRUE, !.born = now]
    <3>1. u \in Tx /\ Sound(j, u) /\ u.listed /\ u.retrans_counter = 0 /\ ~u.ack_received
      <4>1. Fresh \in Tx /\ Sound(j, Fresh) /\ Fresh.outcome = "none" /\ Fresh.calls = 0
        BY FreshSound
      <4>2. now \in Nat
        BY <2>0 DEF TypeOK
      <4>3. Fresh.retrans_counter = 0 /\ ~Fresh.ack_received /\ ~Fresh.buffer
        BY DEF Fresh
      <4>. HIDE DEF Fresh
      <4>. QED
        BY <4>1, <4>2, <4>3 DEF Tx, Sound
    <3>2. PICK noMemory \in BOOLEAN : tx' = [tx EXCEPT ![j] = Send(j, u, noMemory)]
      BY <2>1 DEF New
    <3>. HIDE DEF u
    <3>3. PhaseOf(Send(j, u, noMemory)) \in {"open", "refused"}
      BY <3>1, SendPhase
    <3>4. bar[j] = "idle"
      BY <2>1 DEF New, PhaseOf, Fresh
    <3>5. bar' = [bar EXCEPT ![j] = PhaseOf(Send(j, u, noMemory))]
      BY <2>0, <3>2
    <3>. QED
      BY <3>3, <3>4, <3>5 DEF Abstract!Next, Abstract!Start
  <2>2. CASE Step
    <3>1. PICK starved \in SUBSET {k \in Mids : Due(k) /\ ~tx[k].buffer} :
            tx' = [k \in Mids |-> IF Due(k) THEN Send(k, tx[k], k \in starved) ELSE tx[k]]
      BY <2>2 DEF Step
    <3>2. ASSUME NEW i \in Mids
          PROVE  \/ bar'[i] = bar[i]
                 \/ bar[i] = "open" /\ bar'[i] \in {"timeout", "refused"}
      <4>1. CASE Due(i)
        <5>1. tx'[i] = Send(i, tx[i], i \in starved) /\ (i \in starved) \in BOOLEAN
          BY <3>1, <4>1
        <5>2. PhaseOf(tx'[i]) \in {"open", "refused", "timeout"}
          BY <2>0, <4>1, <5>1, SendPhase DEF Due
        <5>3. bar[i] = "open"
          BY <4>1 DEF Due, PhaseOf
        <5>. QED
          BY <5>2, <5>3
      <4>2. CASE ~Due(i)
        BY <3>1, <4>2
      <4>. QED
        BY <4>1, <4>2
    <3>3. \A i \in Mids : bar'[i] \in Abstract!Phase
      BY <3>2, <2>0 DEF PhaseOf, Tx, Outcome, Abstract!Phase, Abstract!Ended
    <3>. QED
      BY <3>2, <3>3 DEF Abstract!Next, Abstract!GiveUp
  <2>3. ASSUME NEW m \in Message, NEW j \in Mids, HandleReset(m, j) \/ HandleFinal(m, j)
        PROVE  Abstract!Next
    <3>1. bar[j] = "open"
      BY <2>3 DEF HandleReset, HandleFinal, FirstMatch, Matches, PhaseOf
    <3>2. \E o \in {"reply", "reset"} : tx' = [tx EXCEPT ![j] = tx'[j]] /\ PhaseOf(tx'[j]) = o
      <4>1. CASE HandleFinal(m, j)
        <5>1. tx' = [tx EXCEPT ![j] = Finish(tx[j], "reply")]
          BY <4>1 DEF HandleFinal
        <5>2. PhaseOf(Finish(tx[j], "reply")) = "reply"
          BY <2>0 DEF Finish, PhaseOf, Tx
        <5>. QED
          BY <2>0, <5>1, <5>2
      <4>2. CASE HandleReset(m, j)
        <5>1. tx' = [tx EXCEPT ![j] = Finish([tx[j] EXCEPT !.ack_received = TRUE], "reset")]
          BY <4>2 DEF HandleReset
        <5>2. PhaseOf(Finish([tx[j] EXCEPT !.ack_received = TRUE], "reset")) = "reset"
          BY <2>0 DEF Finish, PhaseOf, Tx
        <5>. QED
          BY <2>0, <5>1, <5>2
      <4>. QED
        BY <2>3, <4>1, <4>2
    <3>3. bar' = [bar EXCEPT ![j] = PhaseOf(tx'[j])]
      BY <2>0, <3>2
    <3>. QED
      BY <3>1, <3>2, <3>3 DEF Abstract!Next, Abstract!Answer
  <2>4. ASSUME NEW m \in Message, NEW j \in Mids, HandleEmptyAck(m, j) \/ HandleUnauthorized(m, j)
        PROVE  bar' = bar
    <3>1. \A i \in Mids : tx'[i].listed = tx[i].listed /\ tx'[i].outcome = tx[i].outcome
      BY <2>0, <2>4 DEF HandleEmptyAck, HandleUnauthorized, Tx
    <3>. QED
      BY <3>1 DEF PhaseOf
  <2>5. CASE Tick \/ (\E m \in Message : HandleUnmatched(m)) \/ UNCHANGED vars
    BY <2>5 DEF Tick, HandleUnmatched, vars
  <2>. QED
    BY <2>1, <2>2, <2>3, <2>4, <2>5 DEF Next, Receive
<1>. QED
  BY <1>1, <1>2, Inductive, PTL DEF Spec, ImplementsExchange, Abstract!Spec
-----------------------------------------------------------------------------
(* Time                                                                    *)

\* The k intervals from the first transmission on take so long.
Elapsed(k) == RESPONSE_TIMEOUT * (2^k - 1)

\* An interval is added by Backoff.
LEMMA ElapsedFacts ==
  ASSUME NEW k \in Nat
  PROVE  /\ Elapsed(k) \in Nat
         /\ Elapsed(0) = 0 /\ Elapsed(1) = RESPONSE_TIMEOUT
         /\ Elapsed(k + 1) = Elapsed(k) + Backoff(k + 1)
         /\ \A m \in Nat : k <= m => Elapsed(k) <= Elapsed(m)
<1>1. RESPONSE_TIMEOUT \in Nat  BY ConstantsAssumption
<1>2. 2^k \in Nat \ {0} /\ 2^(k + 1) = 2 * 2^k  BY PowerFacts
<1>3. Elapsed(0) = 0 /\ Elapsed(1) = RESPONSE_TIMEOUT
  <2>1. 2^0 = 1 /\ 2^1 = 2  OBVIOUS
  <2> QED  BY <1>1, <2>1 DEF Elapsed
<1>4. ASSUME NEW m \in Nat, k <= m PROVE Elapsed(k) <= Elapsed(m)
  <2> DEFINE a == 2^k
             b == 2^m
  <2>1. a \in Nat \ {0} /\ b \in Nat \ {0} /\ a <= b  BY <1>4, PowerFacts
  <2>2. Elapsed(k) = RESPONSE_TIMEOUT * (a - 1) /\ Elapsed(m) = RESPONSE_TIMEOUT * (b - 1)
    BY DEF Elapsed
  <2> HIDE DEF a, b
  <2> QED  BY <1>1, <2>1, <2>2
<1>5. Elapsed(k) \in Nat /\ Elapsed(k + 1) = Elapsed(k) + Backoff(k + 1)
  <2> DEFINE a == 2^k
  <2>1. a \in Nat \ {0}  BY <1>2
  <2>2. /\ Elapsed(k) = RESPONSE_TIMEOUT * (a - 1)
        /\ Elapsed(k + 1) = RESPONSE_TIMEOUT * (2 * a - 1)
    BY <1>2 DEF Elapsed
  <2>3. Backoff(k + 1) = RESPONSE_TIMEOUT * a
    <3>1. (k + 1) - 1 = k  OBVIOUS
    <3> QED  BY <3>1 DEF Backoff
  <2> HIDE DEF a
  <2> QED  BY <1>1, <2>1, <2>2, <2>3
<1> QED  BY <1>3, <1>4, <1>5

\* It is a number at any place of the schedule.
LEMMA BackoffInt ==
  ASSUME NEW k \in Nat
  PROVE  Backoff(k + 1) \in Nat
<1>1. RESPONSE_TIMEOUT \in Nat /\ 2^k \in Nat  BY ConstantsAssumption, PowerFacts
<1>2. (k + 1) - 1 = k  OBVIOUS
<1> QED  BY <1>1, <1>2 DEF Backoff

\* What transaction_send does to a transaction t at the time n: there is no memory for its
\* buffer, it leaves the list, or it stays there and is sent.
Starved(n, t, u) == t.listed /\ ~t.buffer /\ u = [t EXCEPT !.tried = n]

Ended(t, u) == ~u.listed /\ u.sends = t.sends /\ u.born = t.born

Sent(n, t, u) ==
  /\ t.listed /\ ~t.ack_received /\ t.retrans_time <= n
  /\ u.listed /\ u.buffer /\ ~u.ack_received /\ u.born = t.born /\ u.unauth = t.unauth
  /\ u.sends = t.sends + 1
  /\ u.retrans_time = IF t.sends = 0 THEN n + RESPONSE_TIMEOUT
                      ELSE t.retrans_time + Backoff(t.sends + 1)

\* The first of these only if there are more failed allocations than before: b after a.
Tried(n, a, b, t, u) == (a < b /\ Starved(n, t, u)) \/ Ended(t, u) \/ Sent(n, t, u)

\* Besides, it is acknowledged, or answered with 4.01.
Acked(n, t, u) ==
  /\ t.listed /\ ~t.ack_received
  /\ u.listed /\ u.ack_received /\ u.born = t.born /\ u.unauth = t.unauth /\ u.sends = t.sends
  /\ u.buffer = t.buffer /\ u.tried = t.tried
  /\ u.retrans_time = n + RESPONSE_TIMEOUT * t.retrans_counter

Unauthorized(t, u) ==
  /\ t.listed /\ t.retrans_counter < MAX_RETRANSMIT /\ t.unauth < MaxUnauth
  /\ u.listed /\ ~u.ack_received /\ u.born = t.born /\ u.sends = t.sends
  /\ u.buffer = t.buffer /\ u.tried = t.tried
  /\ u.unauth = t.unauth + 1 /\ u.retrans_time = t.retrans_time + RESPONSE_TIMEOUT

Moves(n, a, b, t, u) ==
  u = t \/ Tried(n, a, b, t, u) \/ Acked(n, t, u) \/ Unauthorized(t, u)

\* A transaction that has just been made.
Made(n) == [Fresh EXCEPT !.listed = TRUE, !.born = n]

\* transaction_send moves a transaction that is due.
LEMMA SendMoves ==
  ASSUME NEW i \in Mids, NEW t \in Tx, Sound(i, t), t.listed, t.retrans_time <= now,
         NEW noMemory \in BOOLEAN
  PROVE  \/ noMemory /\ Starved(now, t, Send(i, t, noMemory))
         \/ Ended(t, Send(i, t, noMemory))
         \/ Sent(now, t, Send(i, t, noMemory))
<1> DEFINE u == Send(i, t, noMemory)
<1>1. \/ noMemory /\ ~t.buffer /\ u = [t EXCEPT !.tried = now]
      \/ u = Refuse(t)
      \/ GivesUp(t) /\ u = Finish([t EXCEPT !.buffer = TRUE], "timeout")
      \/ ~GivesUp(t) /\ u = Transmit(t)
  BY DEF Send
<1> SUFFICES (noMemory /\ Starved(now, t, u)) \/ Ended(t, u) \/ Sent(now, t, u)
  OBVIOUS
<1> HIDE DEF u
<1>2. CASE u = Refuse(t)
  <2>1. u = [t EXCEPT !.listed = FALSE, !.outcome = "refused"]  BY <1>2 DEF Refuse
  <2>2. Ended(t, u)  BY <2>1 DEF Tx, Ended
  <2> QED  BY <2>2
<1>3. CASE u = Finish([t EXCEPT !.buffer = TRUE], "timeout")
  <2>1. ~u.listed /\ u.sends = t.sends /\ u.born = t.born  BY <1>3 DEF Finish, Tx
  <2> QED  BY <2>1 DEF Ended
<1>4. CASE ~GivesUp(t) /\ u = Transmit(t)
  <2>1. ~t.ack_received  BY <1>4 DEF GivesUp
  <2>2. t.sends \in Nat /\ t.retrans_counter = (IF t.sends = 0 THEN 0 ELSE t.sends + 1)
    BY DEF Tx, Sound
  <2>3. CASE t.sends = 0
    <3>1. u = [t EXCEPT !.buffer = TRUE, !.sends = t.sends + 1, !.retrans_counter = 2,
                        !.retrans_time = now + RESPONSE_TIMEOUT]
      BY <1>4, <2>2, <2>3 DEF Transmit, Tx
    <3>2. /\ u.listed = t.listed /\ u.buffer /\ u.ack_received = t.ack_received /\ u.born = t.born
          /\ u.unauth = t.unauth /\ u.sends = t.sends + 1
          /\ u.retrans_time = now + RESPONSE_TIMEOUT
      BY <3>1 DEF Tx
    <3>3. Sent(now, t, u)  BY <2>1, <2>3, <3>2 DEF Sent
    <3> QED  BY <3>3
  <2>4. CASE t.sends # 0
    <3>1. u = [t EXCEPT !.buffer = TRUE, !.sends = t.sends + 1,
                        !.retrans_counter = t.retrans_counter + 1,
                        !.retrans_time = t.retrans_time + Backoff(t.sends + 1)]
      BY <1>4, <2>2, <2>4 DEF Transmit, Tx
    <3> DEFINE r == t.retrans_time + Backoff(t.sends + 1)
    <3>2. /\ u.listed = t.listed /\ u.buffer /\ u.ack_received = t.ack_received /\ u.born = t.born
          /\ u.unauth = t.unauth /\ u.sends = t.sends + 1 /\ u.retrans_time = r
      <4> HIDE DEF r
      <4>1. u = [t EXCEPT !.buffer = TRUE, !.sends = t.sends + 1,
                          !.retrans_counter = t.retrans_counter + 1, !.retrans_time = r]
        BY <3>1 DEF r
      <4> QED  BY <4>1 DEF Tx
    <3>3. Sent(now, t, u)  BY <2>1, <2>4, <3>2 DEF Sent
    <3> QED  BY <3>3
  <2> QED  BY <2>3, <2>4
<1> QED  BY <1>1, <1>2, <1>3, <1>4 DEF Starved

\* Allocations that failed stay failed, and their number stays within its bound.
LEMMA FailsBounded ==
  ASSUME IInv, Next
  PROVE  /\ allocFails <= allocFails'
         /\ allocFails <= MaxAllocFail => allocFails' <= MaxAllocFail
<1>0. allocFails \in Nat /\ MaxAllocFail \in Nat
  BY ConstantsAssumption DEF IInv, TypeOK
<1>1. CASE Step
  <2>1. PICK starved \in SUBSET {k \in Mids : Due(k) /\ ~tx[k].buffer} :
          /\ allocFails + Cardinality(starved) <= MaxAllocFail
          /\ allocFails' = allocFails + Cardinality(starved)
    BY <1>1 DEF Step
  <2>2. Cardinality(starved) \in Nat
    <3>1. IsFiniteSet(starved)  BY FS_Subset, ConstantsAssumption
    <3> QED  BY <3>1, FS_CardinalityType
  <2> QED  BY <1>0, <2>1, <2>2
<1>2. CASE \E j \in Mids : New(j)
  <2>1. PICK noMemory \in BOOLEAN :
          /\ noMemory => allocFails < MaxAllocFail
          /\ allocFails' = IF noMemory THEN allocFails + 1 ELSE allocFails
    BY <1>2 DEF New
  <2> QED  BY <1>0, <2>1
<1>3. CASE Tick \/ \E m \in Message : Receive(m)
  <2>1. allocFails' = allocFails
    BY <1>3 DEF Tick, Receive, HandleReset, HandleEmptyAck, HandleUnauthorized, HandleFinal,
                HandleUnmatched
  <2> QED  BY <1>0, <2>1
<1> QED  BY <1>1, <1>2, <1>3 DEF Next

\* Every step either makes a transaction, moves it, or lets a second pass.
LEMMA StepMoves ==
  ASSUME IInv, Next, NEW i \in Mids
  PROVE  \/ now' = now /\ Moves(now, allocFails, allocFails', tx[i], tx'[i])
         \/ now' = now /\ Tried(now, allocFails, allocFails', Made(now), tx'[i])
         \/ /\ now' = now + 1 /\ tx'[i] = tx[i]
            /\ tx[i].listed => now < WakeUp(tx[i]) + MaxLag
<1>0. /\ tx \in [Mids -> Tx] /\ tx[i] \in Tx /\ Sound(i, tx[i]) /\ now \in Nat
      /\ allocFails \in Nat
  BY DEF IInv, TypeOK
<1>1. ASSUME NEW j \in Mids, New(j)
      PROVE  now' = now /\ (tx'[i] = tx[i] \/ Tried(now, allocFails, allocFails', Made(now), tx'[i]))
  <2>1. PICK noMemory \in BOOLEAN :
          /\ tx' = [tx EXCEPT ![j] = Send(j, [Fresh EXCEPT !.listed = TRUE, !.born = now],
                                          noMemory)]
          /\ allocFails' = IF noMemory THEN allocFails + 1 ELSE allocFails
    BY <1>1 DEF New
  <2>2. tx' = [tx EXCEPT ![j] = Send(j, Made(now), noMemory)] /\ now' = now
    BY <1>1, <2>1 DEF Made, New
  <2>3. Made(now) \in Tx /\ Sound(j, Made(now)) /\ Made(now).listed
    <3>1. Fresh \in Tx /\ Sound(j, Fresh) /\ Fresh.outcome = "none" /\ Fresh.calls = 0
          /\ ~Fresh.buffer
      BY FreshSound DEF Fresh
    <3> HIDE DEF Fresh
    <3> QED  BY <1>0, <3>1 DEF Made, Tx, Sound
  <2>4. Made(now).retrans_time <= now  BY <1>0 DEF Made, Fresh
  <2>5. \/ noMemory /\ Starved(now, Made(now), Send(j, Made(now), noMemory))
        \/ Ended(Made(now), Send(j, Made(now), noMemory))
        \/ Sent(now, Made(now), Send(j, Made(now), noMemory))
    BY <1>0, <2>3, <2>4, SendMoves DEF IInv
  <2>6. i # j => tx'[i] = tx[i]  BY <1>0, <2>2
  <2>7. i = j => tx'[i] = Send(j, Made(now), noMemory)  BY <1>0, <2>2
  <2>8. noMemory => allocFails < allocFails'  BY <1>0, <2>1
  <2> QED  BY <2>2, <2>5, <2>6, <2>7, <2>8 DEF Tried
<1>2. CASE Step
  <2>1. PICK starved \in SUBSET {k \in Mids : Due(k) /\ ~tx[k].buffer} :
          /\ allocFails' = allocFails + Cardinality(starved)
          /\ tx' = [k \in Mids |-> IF Due(k) THEN Send(k, tx[k], k \in starved) ELSE tx[k]]
    BY <1>2 DEF Step
  <2>2. now' = now  BY <1>2 DEF Step
  <2>3. CASE Due(i)
    <3>1. tx'[i] = Send(i, tx[i], i \in starved) /\ (i \in starved) \in BOOLEAN
      BY <2>1, <2>3
    <3>2. tx[i].listed /\ tx[i].retrans_time <= now  BY <2>3 DEF Due
    <3>3. \/ i \in starved /\ Starved(now, tx[i], tx'[i])
          \/ Ended(tx[i], tx'[i])
          \/ Sent(now, tx[i], tx'[i])
      BY <1>0, <3>1, <3>2, SendMoves DEF IInv
    <3>4. i \in starved => allocFails < allocFails'
      <4>1. IsFiniteSet(starved)  BY FS_Subset, ConstantsAssumption
      <4>2. Cardinality(starved) \in Nat  BY <4>1, FS_CardinalityType
      <4>3. i \in starved => Cardinality(starved) # 0  BY <4>1, FS_EmptySet
      <4> QED  BY <1>0, <2>1, <4>2, <4>3
    <3>5. Tried(now, allocFails, allocFails', tx[i], tx'[i])  BY <3>3, <3>4 DEF Tried
    <3> QED  BY <2>2, <3>5 DEF Moves
  <2>4. CASE ~Due(i)  BY <2>1, <2>2, <2>4 DEF Moves
  <2> QED  BY <2>3, <2>4
<1>3. CASE Tick
  BY <1>3 DEF Tick
<1>4. ASSUME NEW m \in Message, NEW j \in Mids,
             HandleReset(m, j) \/ HandleFinal(m, j)
      PROVE  now' = now /\ Moves(now, allocFails, allocFails', tx[i], tx'[i])
  <2>1. now' = now /\ (i # j => tx'[i] = tx[i])
    BY <1>0, <1>4 DEF HandleReset, HandleFinal
  <2>2. CASE i = j /\ HandleFinal(m, j)
    <3>1. tx'[i] = Finish(tx[i], "reply")  BY <1>0, <2>2 DEF HandleFinal
    <3>2. Ended(tx[i], tx'[i])  BY <1>0, <3>1 DEF Finish, Tx, Ended
    <3> QED  BY <2>1, <3>2 DEF Moves, Tried
  <2>3. CASE i = j /\ HandleReset(m, j)
    <3>1. tx'[i] = Finish([tx[i] EXCEPT !.ack_received = TRUE], "reset")
      BY <1>0, <2>3 DEF HandleReset
    <3>2. Ended(tx[i], tx'[i])  BY <1>0, <3>1 DEF Finish, Tx, Ended
    <3> QED  BY <2>1, <3>2 DEF Moves, Tried
  <2> QED  BY <1>4, <2>1, <2>2, <2>3 DEF Moves, Tried
<1>5. ASSUME NEW m \in Message, NEW j \in Mids, HandleEmptyAck(m, j)
      PROVE  now' = now /\ Moves(now, allocFails, allocFails', tx[i], tx'[i])
  <2>1. now' = now /\ (i # j => tx'[i] = tx[i])
    BY <1>0, <1>5 DEF HandleEmptyAck
  <2>2. CASE i = j
    <3>1. tx'[i] = [tx[i] EXCEPT !.ack_received = TRUE,
                      !.retrans_time = now + RESPONSE_TIMEOUT * tx[i].retrans_counter]
      BY <1>0, <1>5, <2>2 DEF HandleEmptyAck
    <3>2. tx[i].listed /\ ~tx[i].ack_received
      BY <1>5, <2>2 DEF HandleEmptyAck, FirstMatch, Matches, Acknowledges
    <3>3. Acked(now, tx[i], tx'[i])  BY <1>0, <3>1, <3>2 DEF Acked, Tx
    <3> QED  BY <2>1, <3>3 DEF Moves, Tried
  <2> QED  BY <2>1, <2>2 DEF Moves, Tried
<1>6. ASSUME NEW m \in Message, NEW j \in Mids, HandleUnauthorized(m, j)
      PROVE  now' = now /\ Moves(now, allocFails, allocFails', tx[i], tx'[i])
  <2>1. now' = now /\ (i # j => tx'[i] = tx[i])
    BY <1>0, <1>6 DEF HandleUnauthorized
  <2>2. CASE i = j
    <3>1. tx'[i] = [tx[i] EXCEPT !.ack_received = FALSE,
                      !.retrans_time = tx[i].retrans_time + RESPONSE_TIMEOUT,
                      !.unauth = tx[i].unauth + 1]
      BY <1>0, <1>6, <2>2 DEF HandleUnauthorized
    <3>2. tx[i].listed /\ tx[i].unauth < MaxUnauth /\ MAX_RETRANSMIT > tx[i].retrans_counter
      BY <1>6, <2>2 DEF HandleUnauthorized, FirstMatch, Matches, Retryable
    <3>3. tx[i].retrans_counter < MAX_RETRANSMIT
      BY <1>0, <3>2, ConstantsAssumption DEF Tx
    <3>4. Unauthorized(tx[i], tx'[i])  BY <1>0, <3>1, <3>2, <3>3 DEF Unauthorized, Tx
    <3> QED  BY <2>1, <3>4 DEF Moves, Tried
  <2> QED  BY <2>1, <2>2 DEF Moves, Tried
<1>7. ASSUME NEW m \in Message, HandleUnmatched(m)
      PROVE  now' = now /\ Moves(now, allocFails, allocFails', tx[i], tx'[i])
  BY <1>7 DEF HandleUnmatched, Moves
<1> QED
  BY <1>1, <1>2, <1>3, <1>4, <1>5, <1>6, <1>7 DEF Next, Receive, Moves

-----------------------------------------------------------------------------
(* Not before its time                                                     *)

\* A transaction at the time n: the intervals before its last transmission are over, and the
\* next one will be, unless an acknowledgement has set the timer. Then it is the last one, if
\* no 4.01 follows.
Early(t, n) ==
  /\ t.born <= n
  /\ t.sends > 0 => t.born + Elapsed(t.sends - 1) <= n
  /\ t.listed /\ t.sends > 0 =>
       t.retrans_time >= t.born + IF t.ack_received
                                  THEN Elapsed(t.sends - 1) + RESPONSE_TIMEOUT * (t.sends + 1)
                                  ELSE Elapsed(t.sends)

\* A 4.01 that follows an acknowledgement comes when two transmissions, one interval and what
\* the two messages add are enough for the next interval.
FewRetries == MAX_RETRANSMIT <= 5

\* The first four sums.
LEMMA EarlySums ==
  /\ Elapsed(0) = 0 /\ Elapsed(1) = RESPONSE_TIMEOUT
  /\ Elapsed(2) = 3 * RESPONSE_TIMEOUT /\ Elapsed(3) = 7 * RESPONSE_TIMEOUT
<1>1. RESPONSE_TIMEOUT \in Nat  BY ConstantsAssumption
<1>2. 2^0 = 1 /\ 2^1 = 2 /\ 2^2 = 4 /\ 2^3 = 8  OBVIOUS
<1> QED  BY <1>1, <1>2 DEF Elapsed

\* No move sends a request before its time.
LEMMA MovesEarly ==
  ASSUME FewRetries, NEW i, NEW t \in Tx, NEW u \in Tx, Sound(i, t), NEW n \in Nat,
         NEW a, NEW b, Early(t, n), Moves(n, a, b, t, u)
  PROVE  Early(u, n)
<1> DEFINE k == t.sends
<1>1. /\ k \in Nat /\ t.born \in Nat /\ t.retrans_time \in Nat
      /\ t.ack_received \in BOOLEAN /\ t.listed \in BOOLEAN
      /\ RESPONSE_TIMEOUT \in Nat /\ RESPONSE_TIMEOUT * (k + 1) \in Nat
  BY ConstantsAssumption DEF Tx
<1>2. t.retrans_counter = IF k = 0 THEN 0 ELSE k + 1  BY DEF Sound
<1>3. /\ t.born <= n
      /\ k > 0 => t.born + Elapsed(k - 1) <= n
      /\ t.listed /\ k > 0 =>
           t.retrans_time >= t.born + IF t.ack_received
                                      THEN Elapsed(k - 1) + RESPONSE_TIMEOUT * (k + 1)
                                      ELSE Elapsed(k)
  BY DEF Early
<1>4. /\ Elapsed(k) \in Nat
      /\ k > 0 => k - 1 \in Nat /\ Elapsed(k - 1) \in Nat
      /\ Elapsed(k + 1) = Elapsed(k) + Backoff(k + 1)
      /\ Elapsed(0) = 0 /\ Elapsed(1) = RESPONSE_TIMEOUT
  <2> HIDE DEF k
  <2>1. k > 0 => k - 1 \in Nat  BY <1>1
  <2>2. k > 0 => Elapsed(k - 1) \in Nat  BY <2>1, ElapsedFacts
  <2> QED  BY <1>1, <2>1, <2>2, ElapsedFacts
<1> HIDE DEF k
<1>5. CASE u = t  BY <1>5
<1>10. CASE Starved(n, t, u)
  <2>1. u = [t EXCEPT !.tried = n]  BY <1>10 DEF Starved
  <2>2. /\ u.born = t.born /\ u.sends = t.sends /\ u.listed = t.listed
        /\ u.retrans_time = t.retrans_time /\ u.ack_received = t.ack_received
    BY <2>1 DEF Tx
  <2> QED  BY <2>2 DEF Early
<1>6. CASE Ended(t, u)  BY <1>3, <1>6 DEF Ended, Early, k
<1>7. CASE Sent(n, t, u)
  <2>1. /\ u.born = t.born /\ u.sends = k + 1 /\ ~u.ack_received
        /\ t.listed /\ ~t.ack_received /\ t.retrans_time <= n
        /\ u.retrans_time = IF k = 0 THEN n + RESPONSE_TIMEOUT
                            ELSE t.retrans_time + Backoff(k + 1)
    BY <1>7 DEF Sent, k
  <2>2. Elapsed(k + 1) \in Nat /\ (k + 1) - 1 = k  BY <1>1, ElapsedFacts
  <2>3. t.born + Elapsed(k) <= n
    <3>1. CASE k = 0  BY <1>1, <1>3, <1>4, <3>1
    <3>2. CASE k # 0
      <4>1. t.retrans_time >= t.born + Elapsed(k)  BY <1>1, <1>3, <2>1, <3>2
      <4> QED  BY <1>1, <1>4, <2>1, <4>1
    <3> QED  BY <3>1, <3>2
  <2>4. u.retrans_time >= t.born + Elapsed(k + 1)
    <3>1. CASE k = 0  BY <1>1, <1>3, <1>4, <2>1, <3>1
    <3>2. CASE k # 0
      <4>1. t.retrans_time >= t.born + Elapsed(k)  BY <1>1, <1>3, <2>1, <3>2
      <4>2. Backoff(k + 1) \in Int  BY <1>1, <3>2, BackoffInt
      <4> QED  BY <1>1, <1>4, <2>1, <3>2, <4>1, <4>2
    <3> QED  BY <3>1, <3>2
  <2> QED  BY <1>3, <2>1, <2>2, <2>3, <2>4 DEF Early
<1>8. CASE Acked(n, t, u)
  <2>1. /\ u.born = t.born /\ u.sends = k /\ u.ack_received
        /\ k > 0 => u.retrans_time = n + RESPONSE_TIMEOUT * (k + 1)
    BY <1>2, <1>8 DEF Acked, k
  <2>2. k > 0 => u.retrans_time >= t.born + (Elapsed(k - 1) + RESPONSE_TIMEOUT * (k + 1))
    BY <1>1, <1>3, <1>4, <2>1
  <2> QED  BY <1>3, <2>1, <2>2 DEF Early
<1>9. CASE Unauthorized(t, u)
  <2>1. /\ u.born = t.born /\ u.sends = k /\ ~u.ack_received /\ t.listed
        /\ u.retrans_time = t.retrans_time + RESPONSE_TIMEOUT
        /\ t.retrans_counter < MAX_RETRANSMIT
    BY <1>9 DEF Unauthorized, k
  <2>2. k > 0 => u.retrans_time >= t.born + Elapsed(k)
    <3> SUFFICES ASSUME k > 0 PROVE u.retrans_time >= t.born + Elapsed(k)
      OBVIOUS
    <3>1. CASE ~t.ack_received  BY <1>1, <1>3, <1>4, <2>1, <3>1
    <3>2. CASE t.ack_received
      <4>1. k \in {1, 2, 3}
        BY <1>1, <1>2, <2>1, ConstantsAssumption DEF FewRetries
      <4>2. t.retrans_time >= t.born + (Elapsed(k - 1) + RESPONSE_TIMEOUT * (k + 1))
        BY <1>2, <1>3, <2>1, <3>2
      <4>3. Elapsed(k - 1) + RESPONSE_TIMEOUT * (k + 1) + RESPONSE_TIMEOUT >= Elapsed(k)
        BY <1>1, <4>1, EarlySums
      <4>4. RESPONSE_TIMEOUT * (k + 1) \in Nat  BY <1>1
      <4> QED  BY <1>1, <1>4, <2>1, <4>2, <4>3, <4>4
    <3> QED  BY <1>1, <3>1, <3>2
  <2> QED  BY <1>3, <2>1, <2>2 DEF Early
<1> QED  BY <1>5, <1>6, <1>7, <1>8, <1>9, <1>10 DEF Moves, Tried

-----------------------------------------------------------------------------
(* Not after its time                                                      *)

\* What a 4.01 and an acknowledgement before it can add to the life of a request.
Extra == MaxLag + RESPONSE_TIMEOUT * MAX_RETRANSMIT

\* How long the first transmission takes when a allocations fail: the loop sleeps for a second
\* after each, and may be late.
Starving(a) == a * (MaxLag + 1)

\* When the timer of a transaction runs out, counted from its birth.
Schedule(k) == IF k = 0 THEN 0 ELSE Starving(MaxAllocFail) + Elapsed(k)

\* A transaction at the time n, when a allocations have failed: the loop is not late for it,
\* and its timer is no later than the schedule and the answers so far account for.
Timely(t, n, a) ==
  t.listed =>
    /\ t.unauth <= MaxUnauth
    /\ ~t.buffer => n <= t.born + Starving(a)
    /\ t.buffer =>
         /\ n <= t.retrans_time + MaxLag
         /\ t.retrans_time <=
              t.born + Schedule(t.sends) + t.unauth * Extra
              + (IF t.ack_received THEN MaxLag + RESPONSE_TIMEOUT * t.retrans_counter ELSE 0)

\* One that was tried: if there was no memory, the loop is back for it in time.
Late(t, n, a) ==
  /\ Timely(t, n, a)
  /\ t.listed /\ ~t.buffer => /\ n <= t.tried + 1 + MaxLag
                              /\ t.tried + 1 + MaxLag <= t.born + Starving(a)

\* The life of a request: failing allocations, the whole schedule, every 4.01, a last
\* acknowledgement, and the lag of the loop.
Life ==
  Schedule(MAX_RETRANSMIT + 1) + MaxUnauth * Extra
  + (MaxLag + RESPONSE_TIMEOUT * (MAX_RETRANSMIT + 2)) + MaxLag

WaitIsEnough == Life <= TRANSMIT_WAIT

\* The constants are numbers, and so are what they make up.
LEMMA LateTypes ==
  /\ RESPONSE_TIMEOUT \in Nat \ {0} /\ MAX_RETRANSMIT \in Nat /\ MaxLag \in Nat
  /\ MaxUnauth \in Nat /\ MaxAllocFail \in Nat /\ TRANSMIT_WAIT \in Nat /\ Extra \in Nat
  /\ \A k \in Nat : Schedule(k) \in Nat
<1>1. /\ RESPONSE_TIMEOUT \in Nat \ {0} /\ MAX_RETRANSMIT \in Nat /\ MaxLag \in Nat
      /\ MaxUnauth \in Nat /\ MaxAllocFail \in Nat /\ TRANSMIT_WAIT \in Nat
  BY ConstantsAssumption
<1>2. Extra \in Nat  BY <1>1 DEF Extra
<1>3. Starving(MaxAllocFail) \in Nat  BY <1>1 DEF Starving
<1>4. \A k \in Nat : Schedule(k) \in Nat  BY <1>1, <1>3, ElapsedFacts DEF Schedule
<1> QED  BY <1>1, <1>2, <1>4

\* The more allocations fail, the longer it takes.
LEMMA StarvingFacts ==
  ASSUME NEW a \in Nat, NEW b \in Nat, a <= b
  PROVE  /\ Starving(a) \in Nat /\ Starving(b) \in Nat /\ Starving(a) <= Starving(b)
         /\ a < b => Starving(a) + MaxLag + 1 <= Starving(b)
<1>1. MaxLag \in Nat  BY LateTypes
<1>2. b - a \in Nat  OBVIOUS
<1>3. Starving(b) = Starving(a) + (b - a) * (MaxLag + 1)  BY <1>1, <1>2 DEF Starving
<1>4. Starving(a) \in Nat /\ (b - a) * (MaxLag + 1) \in Nat  BY <1>1, <1>2 DEF Starving
<1>5. a < b => MaxLag + 1 <= (b - a) * (MaxLag + 1)
  <2> SUFFICES ASSUME a < b PROVE MaxLag + 1 <= (b - a) * (MaxLag + 1)
    OBVIOUS
  <2>1. (b - a) * (MaxLag + 1) = (MaxLag + 1) + (b - a - 1) * (MaxLag + 1)  BY <1>1
  <2>2. (b - a - 1) * (MaxLag + 1) \in Nat  BY <1>1
  <2> QED  BY <1>1, <2>1, <2>2
<1> QED  BY <1>1, <1>3, <1>4, <1>5

\* transaction_send leaves a timely transaction with its next call in time.
LEMMA TriedLate ==
  ASSUME NEW i, NEW t \in Tx, NEW u \in Tx, Sound(i, t), NEW n \in Nat,
         NEW a \in Nat, NEW b \in Nat, a <= b, b <= MaxAllocFail,
         Timely(t, n, a), Tried(n, a, b, t, u)
  PROVE  Late(u, n, b)
<1> DEFINE k == t.sends
           e == t.unauth * Extra
<1>1. /\ k \in Nat /\ t.born \in Nat /\ t.retrans_time \in Nat /\ t.unauth \in Nat
      /\ t.ack_received \in BOOLEAN /\ t.listed \in BOOLEAN /\ t.buffer \in BOOLEAN
      /\ e \in Nat
  BY LateTypes DEF Tx
<1>2. (~t.buffer => k = 0) /\ (t.listed /\ t.buffer => k > 0)  BY DEF Sound
<1>3. t.listed =>
        /\ t.unauth <= MaxUnauth
        /\ ~t.buffer => n <= t.born + Starving(a)
        /\ t.buffer => /\ n <= t.retrans_time + MaxLag
                       /\ ~t.ack_received => t.retrans_time <= t.born + Schedule(k) + e
  BY <1>1, LateTypes DEF Timely
<1>4. /\ Elapsed(k) \in Nat /\ Elapsed(k + 1) = Elapsed(k) + Backoff(k + 1)
      /\ Elapsed(1) = RESPONSE_TIMEOUT /\ Backoff(k + 1) \in Nat
  BY <1>1, ElapsedFacts, BackoffInt
<1>5. /\ Starving(a) \in Nat /\ Starving(b) \in Nat /\ Starving(a) <= Starving(b)
      /\ a < b => Starving(a) + MaxLag + 1 <= Starving(b)
      /\ Starving(MaxAllocFail) \in Nat /\ Starving(b) <= Starving(MaxAllocFail)
  BY StarvingFacts, LateTypes
<1> HIDE DEF k, e
<1>6. CASE a < b /\ Starved(n, t, u)
  <2>1. u = [t EXCEPT !.tried = n] /\ t.listed /\ ~t.buffer  BY <1>6 DEF Starved
  <2>2. /\ u.tried = n /\ ~u.buffer /\ u.born = t.born /\ u.unauth = t.unauth
    BY <2>1 DEF Tx
  <2>3. n <= t.born + Starving(a)  BY <1>3, <2>1
  <2>4. n + 1 + MaxLag <= t.born + Starving(b)  BY <1>1, <1>5, <1>6, <2>3, LateTypes
  <2>5. n <= t.born + Starving(b) /\ n <= n + 1 + MaxLag  BY <1>1, <1>5, <2>4, LateTypes
  <2> QED  BY <1>3, <2>1, <2>2, <2>4, <2>5 DEF Late, Timely
<1>7. CASE Ended(t, u)  BY <1>7 DEF Ended, Late, Timely
<1>8. CASE Sent(n, t, u)
  <2>1. /\ u.born = t.born /\ u.sends = k + 1 /\ ~u.ack_received /\ u.unauth = t.unauth
        /\ t.listed /\ ~t.ack_received /\ t.retrans_time <= n /\ u.buffer
        /\ u.unauth * Extra = e
        /\ u.retrans_time = IF k = 0 THEN n + RESPONSE_TIMEOUT
                            ELSE t.retrans_time + Backoff(k + 1)
    BY <1>8 DEF Sent, k, e
  <2>2. Schedule(k + 1) = Starving(MaxAllocFail) + Elapsed(k + 1)  BY <1>1 DEF Schedule
  <2>3. CASE k = 0
    <3>1. k + 1 = 1 /\ ~t.buffer  BY <1>1, <1>2, <2>1, <2>3
    <3>2. n <= t.born + Starving(MaxAllocFail)  BY <1>1, <1>3, <1>5, <2>1, <3>1
    <3>3. u.retrans_time = n + RESPONSE_TIMEOUT  BY <2>1, <2>3
    <3>4. u.retrans_time <= u.born + Schedule(u.sends) + e + 0
      BY <1>1, <1>4, <1>5, <2>1, <2>2, <3>1, <3>2, <3>3, LateTypes
    <3>5. n <= u.retrans_time + MaxLag  BY <3>3, LateTypes
    <3> QED  BY <1>3, <2>1, <3>4, <3>5 DEF Late, Timely
  <2>4. CASE k # 0
    <3>1. Schedule(k) = Starving(MaxAllocFail) + Elapsed(k) /\ t.buffer
      BY <1>1, <1>2, <2>4 DEF Schedule
    <3>2. u.retrans_time = t.retrans_time + Backoff(k + 1)  BY <2>1, <2>4
    <3>3. n <= t.retrans_time + MaxLag /\ t.retrans_time <= t.born + Schedule(k) + e
      BY <1>3, <2>1, <3>1
    <3>4. u.retrans_time <= u.born + Schedule(u.sends) + e + 0
      BY <1>1, <1>4, <1>5, <2>1, <2>2, <3>1, <3>2, <3>3, LateTypes
    <3>5. n <= u.retrans_time + MaxLag  BY <1>1, <1>4, <3>2, <3>3, LateTypes
    <3> QED  BY <1>3, <2>1, <3>4, <3>5 DEF Late, Timely
  <2> QED  BY <2>3, <2>4
<1> QED  BY <1>6, <1>7, <1>8 DEF Tried

\* No move keeps a request beyond its time.
LEMMA MovesLate ==
  ASSUME NEW i, NEW t \in Tx, NEW u \in Tx, Sound(i, t), Sound(i, u), NEW n \in Nat,
         NEW a \in Nat, NEW b \in Nat, a <= b, b <= MaxAllocFail,
         Late(t, n, a), Moves(n, a, b, t, u)
  PROVE  Late(u, n, b)
<1> DEFINE k == t.sends
           e == t.unauth * Extra
           c == RESPONSE_TIMEOUT * t.retrans_counter
<1>1. /\ k \in Nat /\ t.born \in Nat /\ t.retrans_time \in Nat /\ t.unauth \in Nat
      /\ t.ack_received \in BOOLEAN /\ t.listed \in BOOLEAN /\ t.retrans_counter \in Nat
      /\ t.buffer \in BOOLEAN /\ t.tried \in Nat /\ e \in Nat /\ c \in Nat
  BY LateTypes DEF Tx
<1>2. t.retrans_counter = IF k = 0 THEN 0 ELSE k + 1  BY DEF Sound
<1>3. t.listed =>
        /\ t.unauth <= MaxUnauth
        /\ ~t.buffer => /\ n <= t.born + Starving(a) /\ n <= t.tried + 1 + MaxLag
                        /\ t.tried + 1 + MaxLag <= t.born + Starving(a)
        /\ t.buffer =>
             /\ n <= t.retrans_time + MaxLag
             /\ t.retrans_time <= t.born + Schedule(k) + e
                                  + (IF t.ack_received THEN MaxLag + c ELSE 0)
  BY DEF Late, Timely
<1>4. Schedule(k) \in Nat  BY <1>1, LateTypes
<1>5. Starving(a) \in Nat /\ Starving(b) \in Nat /\ Starving(a) <= Starving(b)
  BY StarvingFacts
<1>6. t.listed /\ ~t.buffer => /\ n <= t.born + Starving(b)
                               /\ t.tried + 1 + MaxLag <= t.born + Starving(b)
  BY <1>1, <1>3, <1>5, LateTypes
<1> HIDE DEF k, e, c
<1>7. CASE u = t  BY <1>3, <1>6, <1>7 DEF Late, Timely, k, e, c
<1>8. CASE Tried(n, a, b, t, u)
  <2>1. Timely(t, n, a)  BY DEF Late
  <2> QED  BY <1>8, <2>1, TriedLate
<1>9. CASE Acked(n, t, u)
  <2>1. /\ u.born = t.born /\ u.sends = k /\ u.ack_received /\ u.unauth = t.unauth
        /\ t.listed /\ ~t.ack_received /\ u.unauth * Extra = e
        /\ u.retrans_time = n + c /\ u.buffer = t.buffer /\ u.tried = t.tried
    BY <1>9 DEF Acked, k, e, c
  <2>2. u.retrans_counter = t.retrans_counter  BY <1>2, <2>1 DEF Sound
  <2>3. CASE t.buffer
    <3>1. n <= t.retrans_time + MaxLag /\ t.retrans_time <= t.born + Schedule(k) + e
      BY <1>1, <1>3, <1>4, <2>1, <2>3
    <3>2. u.retrans_time <= u.born + Schedule(u.sends) + e + (MaxLag + c)
      BY <1>1, <1>4, <2>1, <3>1, LateTypes
    <3>3. n <= u.retrans_time + MaxLag  BY <1>1, <2>1, LateTypes
    <3> QED  BY <1>3, <2>1, <2>2, <2>3, <3>2, <3>3 DEF Late, Timely, c
  <2>4. CASE ~t.buffer  BY <1>3, <1>6, <2>1, <2>4 DEF Late, Timely
  <2> QED  BY <1>1, <2>3, <2>4
<1>10. CASE Unauthorized(t, u)
  <2>1. /\ u.born = t.born /\ u.sends = k /\ ~u.ack_received /\ t.listed
        /\ u.unauth = t.unauth + 1 /\ t.unauth < MaxUnauth
        /\ u.retrans_time = t.retrans_time + RESPONSE_TIMEOUT
        /\ t.retrans_counter < MAX_RETRANSMIT /\ u.buffer = t.buffer /\ u.tried = t.tried
    BY <1>10 DEF Unauthorized, k
  <2>2. u.unauth * Extra = e + Extra
    BY <1>1, <2>1, LateTypes DEF e
  <2>3. u.unauth <= MaxUnauth  BY <1>1, <2>1, LateTypes
  <2>4. CASE t.buffer
    <3>1. c + RESPONSE_TIMEOUT <= RESPONSE_TIMEOUT * MAX_RETRANSMIT
      <4>1. t.retrans_counter + 1 <= MAX_RETRANSMIT  BY <1>1, <2>1, LateTypes
      <4>2. RESPONSE_TIMEOUT * (t.retrans_counter + 1) <= RESPONSE_TIMEOUT * MAX_RETRANSMIT
        BY <1>1, <4>1, LateTypes
      <4>3. RESPONSE_TIMEOUT * (t.retrans_counter + 1) = c + RESPONSE_TIMEOUT
        BY <1>1, LateTypes DEF c
      <4> QED  BY <4>2, <4>3
    <3>2. /\ t.retrans_time <= t.born + Schedule(k) + e + (MaxLag + c)
          /\ n <= t.retrans_time + MaxLag
      BY <1>1, <1>3, <1>4, <2>1, <2>4, LateTypes
    <3>3. /\ RESPONSE_TIMEOUT * MAX_RETRANSMIT \in Nat
          /\ Extra = MaxLag + RESPONSE_TIMEOUT * MAX_RETRANSMIT
      BY LateTypes DEF Extra
    <3>4. u.retrans_time <= u.born + Schedule(u.sends) + (e + Extra) + 0
      BY <1>1, <1>4, <2>1, <3>1, <3>2, <3>3, LateTypes
    <3>5. n <= u.retrans_time + MaxLag  BY <1>1, <2>1, <3>2, LateTypes
    <3> QED  BY <2>1, <2>2, <2>3, <2>4, <3>4, <3>5 DEF Late, Timely
  <2>5. CASE ~t.buffer  BY <1>6, <1>3, <2>1, <2>3, <2>5 DEF Late, Timely
  <2> QED  BY <1>1, <2>4, <2>5
<1> QED  BY <1>7, <1>8, <1>9, <1>10 DEF Moves

\* A request is over in time, or can still be.
LEMMA LateInTime ==
  ASSUME WaitIsEnough, NEW i, NEW t \in Tx, Sound(i, t), NEW n \in Nat,
         NEW a \in Nat, a <= MaxAllocFail, Late(t, n, a), t.listed
  PROVE  n <= t.born + TRANSMIT_WAIT
<1> DEFINE k == t.sends
           m == MAX_RETRANSMIT + 1
           e == t.unauth * Extra
           f == MaxUnauth * Extra
           c == RESPONSE_TIMEOUT * t.retrans_counter
           d == RESPONSE_TIMEOUT * (MAX_RETRANSMIT + 2)
<1>1. /\ k \in Nat /\ t.born \in Nat /\ t.retrans_time \in Nat /\ t.unauth \in Nat
      /\ t.ack_received \in BOOLEAN /\ t.buffer \in BOOLEAN /\ t.retrans_counter \in Nat
      /\ e \in Nat /\ c \in Nat /\ f \in Nat /\ d \in Nat /\ m \in Nat
  BY LateTypes DEF Tx
<1>2. k <= m /\ t.retrans_counter <= MAX_RETRANSMIT + 2
  BY <1>1, LateTypes DEF Sound
<1>3. /\ t.unauth <= MaxUnauth
      /\ ~t.buffer => n <= t.born + Starving(a)
      /\ t.buffer => /\ n <= t.retrans_time + MaxLag
                     /\ t.retrans_time <= t.born + Schedule(k) + e
                                          + (IF t.ack_received THEN MaxLag + c ELSE 0)
  BY DEF Late, Timely
<1>4. e <= f  BY <1>1, <1>3, LateTypes
<1>5. c <= d  BY <1>1, <1>2, LateTypes
<1>6. /\ Starving(a) \in Nat /\ Starving(MaxAllocFail) \in Nat
      /\ Starving(a) <= Starving(MaxAllocFail)
  BY StarvingFacts, LateTypes
<1>7. Schedule(k) <= Schedule(m) /\ Starving(MaxAllocFail) <= Schedule(m)
  <2> HIDE DEF k, m
  <2>1. Elapsed(k) \in Nat /\ Elapsed(m) \in Nat /\ Elapsed(k) <= Elapsed(m)
    BY <1>1, <1>2, ElapsedFacts
  <2>2. m # 0  BY LateTypes DEF m
  <2> QED  BY <1>6, <2>1, <2>2, LateTypes DEF Schedule
<1>8. Schedule(k) \in Nat /\ Schedule(m) \in Nat  BY <1>1, LateTypes
<1>9. Schedule(m) + f + (MaxLag + d) + MaxLag <= TRANSMIT_WAIT
  BY DEF WaitIsEnough, Life
<1> HIDE DEF k, m, e, f, c, d
<1>10. CASE t.buffer
  <2>1. t.retrans_time <= t.born + Schedule(m) + f + (MaxLag + d)
    BY <1>1, <1>3, <1>4, <1>5, <1>7, <1>8, <1>10, LateTypes
  <2>2. n <= t.born + (Schedule(m) + f + (MaxLag + d) + MaxLag)
    BY <1>1, <1>3, <1>8, <1>10, <2>1, LateTypes
  <2> QED  BY <1>1, <1>8, <1>9, <2>2, LateTypes
<1>11. CASE ~t.buffer
  <2>1. n <= t.born + Schedule(m)  BY <1>1, <1>3, <1>6, <1>7, <1>8, <1>11
  <2> QED  BY <1>1, <1>8, <1>9, <2>1, LateTypes
<1> QED  BY <1>1, <1>10, <1>11

-----------------------------------------------------------------------------
(* Both of every transaction                                               *)

\* One that was not used, or has just been made, is neither early nor late.
LEMMA FreshInTime ==
  ASSUME NEW n \in Nat, NEW a \in Nat
  PROVE  /\ Early(Fresh, n) /\ Late(Fresh, n, a)
         /\ Early(Made(n), n) /\ Timely(Made(n), n, a)
         /\ Made(n) \in Tx /\ \A i \in Mids : Sound(i, Made(n))
<1>1. Early(Fresh, n) /\ Late(Fresh, n, a)  BY DEF Early, Late, Timely, Fresh
<1>2. /\ Made(n).born = n /\ Made(n).sends = 0 /\ Made(n).unauth = 0
      /\ Made(n).retrans_time = 0 /\ ~Made(n).ack_received /\ ~Made(n).buffer
  BY DEF Made, Fresh
<1>3. Early(Made(n), n)  BY <1>2 DEF Early
<1>4. Timely(Made(n), n, a)
  <2>1. Starving(a) \in Nat  BY StarvingFacts
  <2> QED  BY <1>2, <2>1, LateTypes DEF Timely
<1>5. Made(n) \in Tx
  <2>1. Fresh \in Tx  BY DEF Fresh, Tx, Outcome
  <2> QED  BY <2>1 DEF Made, Tx
<1>6. \A i \in Mids : Sound(i, Made(n))
  BY ConstantsAssumption DEF Made, Fresh, Sound
<1> QED  BY <1>1, <1>3, <1>4, <1>5, <1>6

AllEarly == \A i \in Mids : Early(tx[i], now)
AllLate == allocFails <= MaxAllocFail /\ \A i \in Mids : Late(tx[i], now, allocFails)

\* No transmission before its time, as long as there are few retransmissions.
THEOREM BackoffHolds == ASSUME FewRetries PROVE Spec => []BackoffRespected
<1>1. Init => AllEarly
  BY FreshInTime DEF Init, AllEarly
<1>2. IInv /\ IInv' /\ AllEarly /\ [Next]_vars => AllEarly'
  <2> SUFFICES ASSUME IInv, IInv', AllEarly, [Next]_vars, NEW i \in Mids
               PROVE  Early(tx'[i], now')
    BY DEF AllEarly
  <2>1. /\ Early(tx[i], now) /\ now \in Nat /\ tx[i] \in Tx /\ tx'[i] \in Tx
        /\ Sound(i, tx[i])
    BY DEF IInv, TypeOK, AllEarly, Sound
  <2>2. CASE UNCHANGED vars  BY <2>1, <2>2 DEF vars
  <2>3. CASE now' = now /\ Moves(now, allocFails, allocFails', tx[i], tx'[i])  BY <2>1, <2>3, MovesEarly
  <2>4. CASE now' = now /\ Tried(now, allocFails, allocFails', Made(now), tx'[i])
    <3>1. Made(now) \in Tx /\ Sound(i, Made(now)) /\ Early(Made(now), now)
      BY <2>1, FreshInTime
    <3>2. Moves(now, allocFails, allocFails', Made(now), tx'[i])  BY <2>4 DEF Moves
    <3> QED  BY <2>1, <2>4, <3>1, <3>2, MovesEarly
  <2>5. CASE now' = now + 1 /\ tx'[i] = tx[i]
    <3>1. tx[i].born \in Nat /\ (tx[i].sends > 0 => Elapsed(tx[i].sends - 1) \in Nat)
      <4>1. tx[i].born \in Nat /\ tx[i].sends \in Nat  BY <2>1 DEF Tx
      <4>2. tx[i].sends > 0 => tx[i].sends - 1 \in Nat  BY <4>1
      <4> QED  BY <4>1, <4>2, ElapsedFacts
    <3> QED  BY <2>1, <2>5, <3>1 DEF Early
  <2> QED  BY <2>2, <2>3, <2>4, <2>5, StepMoves
<1>3. IInv /\ AllEarly => BackoffRespected
  <2> SUFFICES ASSUME IInv, AllEarly, NEW i \in Mids, tx[i].sends > 1
               PROVE  now >= tx[i].born + RESPONSE_TIMEOUT * (2^(tx[i].sends - 1) - 1)
    BY DEF BackoffRespected
  <2>1. tx[i].sends \in Nat /\ tx[i].born \in Nat /\ now \in Nat
    BY DEF IInv, TypeOK, Tx
  <2>2. tx[i].born + Elapsed(tx[i].sends - 1) <= now  BY <2>1 DEF AllEarly, Early
  <2>3. tx[i].sends - 1 \in Nat /\ Elapsed(tx[i].sends - 1) \in Nat
    <3>1. tx[i].sends - 1 \in Nat  BY <2>1
    <3> QED  BY <3>1, ElapsedFacts
  <2>4. now >= tx[i].born + Elapsed(tx[i].sends - 1)  BY <2>1, <2>2, <2>3
  <2> QED  BY <2>4 DEF Elapsed
<1> QED  BY Inductive, <1>1, <1>2, <1>3, PTL DEF Spec

\* Every request is over when COAP_MAX_TRANSMIT_WAIT has passed, if that is no less than what
\* failing allocations, the schedule, the 4.01 answers and the lag of the loop add up to.
THEOREM OverBeforeWait == ASSUME WaitIsEnough PROVE Spec => []OverInTime
<1>1. Init => AllLate
  BY FreshInTime, LateTypes DEF Init, AllLate
<1>2. IInv /\ IInv' /\ AllLate /\ [Next]_vars => AllLate'
  <2> SUFFICES ASSUME IInv, IInv', AllLate, [Next]_vars
               PROVE  AllLate'
    OBVIOUS
  <2>1. CASE UNCHANGED vars  BY <2>1 DEF vars, AllLate
  <2>2. CASE Next
    <3>1. /\ allocFails <= allocFails' /\ allocFails' <= MaxAllocFail
          /\ allocFails \in Nat /\ allocFails' \in Nat
      BY <2>2, FailsBounded DEF AllLate, IInv, TypeOK
    <3>2. ASSUME NEW i \in Mids PROVE Late(tx'[i], now', allocFails')
      <4>1. /\ Late(tx[i], now, allocFails) /\ now \in Nat /\ tx[i] \in Tx /\ tx'[i] \in Tx
            /\ Sound(i, tx[i]) /\ Sound(i, tx'[i])
        BY DEF IInv, TypeOK, AllLate, Sound
      <4>2. CASE now' = now /\ Moves(now, allocFails, allocFails', tx[i], tx'[i])
        BY <3>1, <4>1, <4>2, MovesLate
      <4>3. CASE now' = now /\ Tried(now, allocFails, allocFails', Made(now), tx'[i])
        <5>1. Made(now) \in Tx /\ Sound(i, Made(now)) /\ Timely(Made(now), now, allocFails)
          BY <3>1, <4>1, FreshInTime
        <5> QED  BY <3>1, <4>1, <4>3, <5>1, TriedLate
      <4>4. CASE /\ now' = now + 1 /\ tx'[i] = tx[i]
                 /\ tx[i].listed => now < WakeUp(tx[i]) + MaxLag
        <5>1. /\ tx[i].retrans_time \in Nat /\ tx[i].tried \in Nat /\ tx[i].born \in Nat
              /\ tx[i].buffer \in BOOLEAN
          BY <4>1 DEF Tx
        <5>2. /\ Starving(allocFails) \in Nat /\ Starving(allocFails') \in Nat
              /\ Starving(allocFails) <= Starving(allocFails')
          BY <3>1, StarvingFacts
        <5>3. tx[i].listed /\ tx[i].buffer => now' <= tx[i].retrans_time + MaxLag
          BY <4>1, <4>4, <5>1, LateTypes DEF WakeUp
        <5>4. tx[i].listed /\ ~tx[i].buffer => now' <= tx[i].tried + 1 + MaxLag
          BY <4>1, <4>4, <5>1, LateTypes DEF WakeUp
        <5>5. tx[i].listed /\ ~tx[i].buffer =>
                tx[i].tried + 1 + MaxLag <= tx[i].born + Starving(allocFails')
          BY <4>1, <5>1, <5>2, LateTypes DEF Late
        <5>6. tx[i].listed /\ ~tx[i].buffer => now' <= tx[i].born + Starving(allocFails')
          BY <4>1, <4>4, <5>1, <5>2, <5>4, <5>5, LateTypes
        <5> QED  BY <4>1, <4>4, <5>1, <5>3, <5>4, <5>5, <5>6 DEF Late, Timely
      <4> QED  BY <2>2, <4>2, <4>3, <4>4, StepMoves
    <3> QED  BY <3>1, <3>2 DEF AllLate
  <2> QED  BY <2>1, <2>2
<1>3. WaitIsEnough /\ IInv /\ AllLate => OverInTime
  <2> SUFFICES ASSUME IInv, AllLate, NEW i \in Mids, tx[i].listed
               PROVE  now <= tx[i].born + TRANSMIT_WAIT
    BY DEF OverInTime
  <2>1. /\ tx[i] \in Tx /\ Sound(i, tx[i]) /\ now \in Nat /\ Late(tx[i], now, allocFails)
        /\ allocFails \in Nat /\ allocFails <= MaxAllocFail
    BY DEF IInv, TypeOK, AllLate
  <2> QED  BY <2>1, LateInTime
<1> QED  BY Inductive, <1>1, <1>2, <1>3, PTL DEF Spec
=============================================================================
