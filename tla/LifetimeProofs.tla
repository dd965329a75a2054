--------------------------- MODULE LifetimeProofs ---------------------------
(***************************************************************************)
(* Theorems about Lifetime, for every lifetime, delay and number of        *)
(* requests.                                                               *)
(***************************************************************************)
EXTENDS Lifetime, TLAPS

\* nextUpdate comes early enough for an answer that was under way, and for the loop.
Margin == Delay + Lag < lifetime - NextUpdate

\* It comes early enough for a whole exchange, too.
WideMargin == Delay + Lag + OpenFor < lifetime - NextUpdate

\* A 2.04 answer under way tells how long ago the server renewed at least.
AnswerInv ==
  \A r \in Requests : \A a \in requests[r].answers : listed /\ left + a >= lifetime

\* The clocks of a registered client and of the server differ by one answer.
RegisteredInv ==
  status = "REGISTERED" => /\ listed
                           /\ left + age >= lifetime - Delay
                           /\ age <= NextUpdate + Lag

\* Without commands there is one update at a time, made in time.
PendingInv ==
  commands = 0 =>
    /\ status # "UPDATE_NEEDED"
    /\ status = "REGISTERED" => \A r \in Requests : ~requests[r].open
    /\ status = "UPDATE_PENDING" =>
         /\ listed
         /\ \E r \in Requests : requests[r].open
         /\ \A r, s \in Requests : requests[r].open /\ requests[s].open => r = s
         /\ \A r \in Requests : requests[r].open =>
              left + requests[r].age >= lifetime - Delay - NextUpdate - Lag

\* nextUpdate is a natural number.
LEMMA NextUpdateType == NextUpdate \in Nat
BY ConstantsAssumption DEF NextUpdate

\* The answers under way stay within Delay, and are those of before, a second older.
LEMMA OlderType ==
  ASSUME NEW S \in SUBSET (0 .. Delay)
  PROVE  Older(S) \in SUBSET (0 .. Delay) /\ \A a \in Older(S) : a - 1 \in S
BY ConstantsAssumption DEF Older

\* No action leaves the types.
LEMMA TypeStep == TypeOK /\ [Next]_vars => TypeOK'
<1> SUFFICES ASSUME TypeOK, [Next]_vars PROVE TypeOK'
  OBVIOUS
<1> USE ConstantsAssumption, NextUpdateType
<1>0. NoRequest \in Request
  BY DEF NoRequest, Request
<1>1. ASSUME NEW r \in Requests, SendUpdate(r) PROVE TypeOK'
  <2>1. NewRequest \in Request /\ NewRequest.open
    BY DEF NewRequest, Request
  <2> QED  BY <1>1, <2>1 DEF SendUpdate, TypeOK, Status
<1>2. ASSUME NEW r \in Requests, GiveUp(r) PROVE TypeOK'
  BY <1>0, <1>2 DEF GiveUp, Close, Settled, TypeOK, Status
<1>3. ASSUME NEW r \in Requests, Serve(r) PROVE TypeOK'
  <2>1. requests[r] \in Request /\ requests[r].open
    BY <1>3 DEF Serve, TypeOK
  <2>2. /\ [requests[r] EXCEPT !.answers = @ \union {0}] \in Request
        /\ [requests[r] EXCEPT !.refusals = @ \union {0}] \in Request
    BY <2>1 DEF Request
  <2>3. /\ requests' \in [Requests -> Request]
        /\ \A s \in Requests : /\ requests'[s].open = requests[s].open
                              /\ s # r => requests'[s] = requests[s]
    BY <1>3, <2>2 DEF Serve, TypeOK, Request
  <2> QED  BY <1>3, <2>1, <2>3 DEF Serve, Renewed, TypeOK
<1>4. ASSUME NEW r \in Requests, NEW ok \in BOOLEAN, Reply(r, ok) PROVE TypeOK'
  BY <1>0, <1>4 DEF Reply, Close, Settled, TypeOK, Status
<1>5. CASE Command  BY <1>5 DEF Command, TypeOK, Status
<1>6. CASE Forget  BY <1>6 DEF Forget, TypeOK
<1>7. CASE Tick
  <2>1. ASSUME NEW r \in Requests
        PROVE  Aged(r) \in Request /\ (~Aged(r).open => Aged(r) = NoRequest)
    <3>1. requests[r] \in Request /\ (~requests[r].open => requests[r] = NoRequest)
      BY DEF TypeOK
    <3>2. requests[r].open => requests[r].age + 1 \in 0 .. OpenFor
      BY <1>7, <3>1 DEF Tick, Request
    <3>3. /\ Older(requests[r].answers) \in SUBSET (0 .. Delay)
          /\ Older(requests[r].refusals) \in SUBSET (0 .. Delay)
      BY <3>1, OlderType DEF Request
    <3> QED  BY <3>1, <3>2, <3>3 DEF Aged, Request
  <2>2. left' \in 0 .. lifetime /\ age' \in Nat
    BY <1>7 DEF Tick, TypeOK
  <2> QED  BY <1>7, <2>1, <2>2 DEF Tick, TypeOK
<1>8. CASE UNCHANGED vars  BY <1>8 DEF vars, TypeOK
<1> QED  BY <1>1, <1>2, <1>3, <1>4, <1>5, <1>6, <1>7, <1>8 DEF Next

\* The types hold at the start.
LEMMA TypeInit == Init => TypeOK
BY ConstantsAssumption DEF Init, TypeOK, NoRequest, Request, Status

\* The variables keep their types, and a request that is not open has no answers.
THEOREM TypeCorrect == Spec => []TypeOK
BY TypeInit, TypeStep, PTL DEF Spec

\* An answer under way proves a renewal that the server has not yet had time to forget.
LEMMA AnswerStep ==
  ASSUME Margin, TypeOK, AnswerInv, [Next]_vars
  PROVE  AnswerInv'
<1> USE ConstantsAssumption, NextUpdateType
<1>0. /\ \A r \in Requests : requests[r] \in Request /\ requests[r].answers \subseteq 0 .. Delay
      /\ left \in 0 .. lifetime /\ requests \in [Requests -> Request]
  BY DEF TypeOK, Request
<1>1. ASSUME NEW r \in Requests, SendUpdate(r) PROVE AnswerInv'
  BY <1>0, <1>1 DEF SendUpdate, AnswerInv, NewRequest
<1>2. ASSUME NEW r \in Requests, Close(r), UNCHANGED <<listed, left>> PROVE AnswerInv'
  BY <1>0, <1>2 DEF Close, AnswerInv, NoRequest
<1>3. ASSUME NEW r \in Requests, Serve(r) PROVE AnswerInv'
  <2>1. CASE listed
    <3>1. left' = lifetime /\ listed'
      BY <1>3, <2>1 DEF Serve, Renewed
    <3>2. \A s \in Requests : requests'[s].answers \subseteq requests[s].answers \union {0}
      BY <1>0, <1>3, <2>1 DEF Serve, Request
    <3> QED  BY <1>0, <3>1, <3>2 DEF AnswerInv
  <2>2. CASE ~listed
    <3>1. \A s \in Requests : requests'[s].answers = requests[s].answers
      BY <1>0, <1>3, <2>2 DEF Serve, Request
    <3> QED  BY <1>0, <1>3, <2>2, <3>1 DEF Serve, AnswerInv
  <2> QED  BY <2>1, <2>2
<1>4. CASE Command  BY <1>4 DEF Command, AnswerInv
<1>5. CASE Forget
  <2>1. \A r \in Requests : requests[r].answers = {}
    BY <1>0, <1>5 DEF Forget, AnswerInv, Margin
  <2> QED  BY <1>5, <2>1 DEF Forget, AnswerInv
<1>6. CASE Tick
  <2> SUFFICES ASSUME NEW r \in Requests, NEW a \in requests'[r].answers
               PROVE  listed' /\ left' + a >= lifetime
    BY DEF AnswerInv
  <2>1. requests'[r] = Aged(r)
    BY <1>6 DEF Tick
  <2>2. CASE ~requests[r].open
    <3>1. requests'[r].answers = {}
      BY <2>1, <2>2 DEF Aged, TypeOK, NoRequest
    <3> QED  BY <3>1
  <2>3. CASE requests[r].open
    <3>1. a \in Older(requests[r].answers)
      BY <1>0, <2>1, <2>3 DEF Aged, Request
    <3>2. a - 1 \in requests[r].answers /\ a \in 0 .. Delay
      BY <1>0, <3>1, OlderType
    <3>3. listed /\ left + (a - 1) >= lifetime
      BY <3>2 DEF AnswerInv
    <3> QED  BY <1>0, <1>6, <3>2, <3>3 DEF Tick
  <2> QED  BY <2>2, <2>3
<1>7. CASE UNCHANGED vars  BY <1>7 DEF vars, AnswerInv
<1> QED  BY <1>1, <1>2, <1>3, <1>4, <1>5, <1>6, <1>7 DEF Next, GiveUp, Reply

\* The client takes its time from an answer, and looks at it before it is too late.
LEMMA RegisteredStep ==
  ASSUME Margin, TypeOK, AnswerInv, RegisteredInv, [Next]_vars
  PROVE  RegisteredInv'
<1> USE ConstantsAssumption, NextUpdateType
<1>0. left \in 0 .. lifetime /\ age \in Nat
  BY DEF TypeOK
<1>1. ASSUME NEW r \in Requests, SendUpdate(r) PROVE RegisteredInv'
  BY <1>1 DEF SendUpdate, RegisteredInv
<1>2. ASSUME NEW r \in Requests, GiveUp(r) PROVE RegisteredInv'
  BY <1>2 DEF GiveUp, Settled, RegisteredInv
<1>3. ASSUME NEW r \in Requests, Serve(r) PROVE RegisteredInv'
  BY <1>0, <1>3 DEF Serve, Renewed, RegisteredInv
<1>4. ASSUME NEW r \in Requests, NEW ok \in BOOLEAN, Reply(r, ok) PROVE RegisteredInv'
  <2>1. CASE ok /\ status = "UPDATE_PENDING"
    <3>1. PICK a \in requests[r].answers : TRUE
      BY <1>4, <2>1 DEF Reply
    <3>2. a \in 0 .. Delay
      BY <3>1 DEF TypeOK, Request
    <3>3. listed /\ left + a >= lifetime
      BY <3>1 DEF AnswerInv
    <3>4. age' = 0 /\ left' = left /\ listed' = listed
      BY <1>4, <2>1 DEF Reply, Settled
    <3> QED  BY <1>0, <3>2, <3>3, <3>4 DEF RegisteredInv
  <2>2. CASE ~(ok /\ status = "UPDATE_PENDING")
    BY <1>4, <2>2 DEF Reply, Settled, RegisteredInv
  <2> QED  BY <2>1, <2>2
<1>5. CASE Command  BY <1>5 DEF Command, RegisteredInv
<1>6. CASE Forget  BY <1>0, <1>6 DEF Forget, RegisteredInv, Margin
<1>7. CASE Tick  BY <1>0, <1>7 DEF Tick, RegisteredInv
<1>8. CASE UNCHANGED vars  BY <1>8 DEF vars, RegisteredInv
<1> QED  BY <1>1, <1>2, <1>3, <1>4, <1>5, <1>6, <1>7, <1>8 DEF Next

\* A client that counts itself registered is known at the server.
THEOREM RegisteredKnown ==
  ASSUME Margin
  PROVE  Spec => []RegisteredIsKnown
<1> DEFINE Inv == TypeOK /\ AnswerInv /\ RegisteredInv
<1>1. Init => Inv
  BY TypeInit, NextUpdateType, ConstantsAssumption
     DEF Init, AnswerInv, RegisteredInv, NoRequest
<1>2. Inv /\ [Next]_vars => Inv'
  BY TypeStep, AnswerStep, RegisteredStep
<1>3. Inv => RegisteredIsKnown
  BY DEF RegisteredInv, RegisteredIsKnown
<1> QED  BY <1>1, <1>2, <1>3, PTL DEF Spec

\* The one update of a client that is left alone ends before the server forgets.
LEMMA PendingStep ==
  ASSUME WideMargin, TypeOK, RegisteredInv, RegisteredInv', PendingInv, [Next]_vars
  PROVE  PendingInv'
<1> USE ConstantsAssumption, NextUpdateType
<1>0. /\ left \in 0 .. lifetime /\ age \in Nat /\ commands \in Nat
      /\ requests \in [Requests -> Request]
      /\ \A r \in Requests : requests[r].open \in BOOLEAN /\ requests[r].age \in 0 .. OpenFor
  BY DEF TypeOK, Request
<1>1. ASSUME NEW r \in Requests, SendUpdate(r) PROVE PendingInv'
  <2> SUFFICES ASSUME commands = 0 PROVE PendingInv'
    BY <1>1 DEF SendUpdate, PendingInv
  <2>1. status = "REGISTERED" /\ status' = "UPDATE_PENDING" /\ UNCHANGED <<listed, left>>
    BY <1>1 DEF SendUpdate, Due, PendingInv
  <2>2. /\ requests'[r].open /\ requests'[r].age = 0
        /\ \A s \in Requests : requests'[s].open => s = r
    BY <1>0, <1>1, <2>1 DEF SendUpdate, NewRequest, PendingInv
  <2>3. listed /\ left >= lifetime - Delay - NextUpdate - Lag
    BY <1>0, <2>1 DEF RegisteredInv
  <2> QED  BY <1>0, <2>1, <2>2, <2>3 DEF PendingInv
<1>2. ASSUME NEW r \in Requests, requests[r].open, Close(r), NEW ok \in BOOLEAN, Settled(ok),
             UNCHANGED commands
      PROVE PendingInv'
  <2> SUFFICES ASSUME commands = 0 PROVE PendingInv'
    BY <1>2 DEF PendingInv
  <2>1. CASE status = "UPDATE_PENDING"
    <3>1. \A s \in Requests : ~requests'[s].open
      BY <1>0, <1>2, <2>1 DEF Close, NoRequest, PendingInv
    <3> QED  BY <1>2, <2>1, <3>1 DEF Settled, PendingInv
  <2>2. CASE status # "UPDATE_PENDING"
    <3>1. \A s \in Requests : requests'[s].open => requests[s].open
      BY <1>0, <1>2 DEF Close, NoRequest
    <3> QED  BY <1>2, <2>2, <3>1 DEF Settled, PendingInv
  <2> QED  BY <2>1, <2>2
<1>3. ASSUME NEW r \in Requests, Serve(r) PROVE PendingInv'
  <2>1. \A s \in Requests : /\ requests'[s].open = requests[s].open
                            /\ requests'[s].age = requests[s].age
    BY <1>0, <1>3 DEF Serve, Request
  <2>2. left' \in 0 .. lifetime /\ left' >= left /\ UNCHANGED <<status, listed, commands>>
    BY <1>0, <1>3 DEF Serve, Renewed
  <2> QED  BY <1>0, <2>1, <2>2 DEF PendingInv
<1>4. CASE Command  BY <1>0, <1>4 DEF Command, PendingInv
<1>5. CASE Forget
  <2>1. commands = 0 => status # "UPDATE_PENDING"
    BY <1>0, <1>5 DEF Forget, PendingInv, WideMargin
  <2> QED  BY <1>5, <2>1 DEF Forget, PendingInv
<1>6. CASE Tick
  <2>1. \A s \in Requests : /\ requests'[s].open = requests[s].open
                            /\ requests[s].open => requests'[s].age = requests[s].age + 1
    BY <1>0, <1>6 DEF Tick, Aged, Request
  <2>2. UNCHANGED <<status, listed, commands>> /\ (listed => left' = left - 1)
    BY <1>6 DEF Tick
  <2> QED  BY <1>0, <2>1, <2>2 DEF PendingInv
<1>7. CASE UNCHANGED vars  BY <1>7 DEF vars, PendingInv
<1> QED  BY <1>1, <1>2, <1>3, <1>4, <1>5, <1>6, <1>7 DEF Next, GiveUp, Reply

\* A client that the user leaves alone is known until its update has been answered or
\* given up, whatever the network loses.
THEOREM PendingKnown ==
  ASSUME WideMargin
  PROVE  Spec => []PendingIsKnown
<1> DEFINE Inv == TypeOK /\ AnswerInv /\ RegisteredInv /\ PendingInv
<1>0. Margin
  BY ConstantsAssumption, NextUpdateType DEF Margin, WideMargin
<1>1. Init => Inv
  BY TypeInit, NextUpdateType, ConstantsAssumption
     DEF Init, AnswerInv, RegisteredInv, PendingInv, NoRequest
<1>2. Inv /\ [Next]_vars => Inv'
  BY <1>0, TypeStep, AnswerStep, RegisteredStep, PendingStep
<1>3. Inv => PendingIsKnown
  BY DEF TypeOK, Status, RegisteredInv, PendingInv, PendingIsKnown
<1> QED  BY <1>1, <1>2, <1>3, PTL DEF Spec
=============================================================================
