------------------------------ MODULE Lifetime ------------------------------
(***************************************************************************)
(* One registration in time, at the client and at the server: the update   *)
(* timer of registration_step, update requests and their answers, the      *)
(* update command of the user, and the end of life at the server           *)
(* (registration.c, both halves).                                          *)
(*                                                                         *)
(* Requests are taken from what Transaction shows: a request is over in    *)
(* OpenFor seconds, any number of its copies arrives meanwhile. The server *)
(* looks at lifetimes as soon as one is over, which is what its            *)
(* registration_step asks the loop for. Copies that arrive later would     *)
(* only make the server wait longer and are left out. What the client does *)
(* once its registration has failed is in LwM2MClient.                     *)
(***************************************************************************)
EXTENDS Integers

CONSTANTS
  lifetime,       \* the lifetime of the registration, as both sides know it
  TRANSMIT_WAIT,  \* COAP_MAX_TRANSMIT_WAIT
  OpenFor,        \* the longest a request stays in transactionList
  Delay,          \* the longest an answer is under way
  Lag,            \* the longest the main loop stays away from lwm2m_step
  Requests,       \* bound: updates outstanding at one time
  MaxCommands     \* bound: update commands of the user

ASSUME ConstantsAssumption ==
  /\ lifetime \in Nat \ {0}
  /\ {TRANSMIT_WAIT, OpenFor, Delay, Lag, MaxCommands} \subseteq Nat

VARIABLES
  status,    \* targetP->status at the client
  age,       \* the present time minus targetP->registration (while it is looked at)
  requests,  \* [Requests -> Request]
  listed,    \* the server has the client in clientList
  left,      \* clientP->endOfLife minus the present time
  commands   \* how many commands the user has given

vars == <<status, age, requests, listed, left, commands>>

\* age: since it was made. answers and refusals: the 2.04 and the 4.04 answers to it that
\* are under way, each by the time it has been so.
Request == [open : BOOLEAN, age : 0 .. OpenFor,
            answers : SUBSET (0 .. Delay), refusals : SUBSET (0 .. Delay)]

NoRequest == [open |-> FALSE, age |-> 0, answers |-> {}, refusals |-> {}]
NewRequest == [open |-> TRUE, age |-> 0, answers |-> {}, refusals |-> {}]

\* Both kinds of update that can be needed are "UPDATE_NEEDED".
Status == {"REGISTERED", "UPDATE_NEEDED", "UPDATE_PENDING", "REG_FAILED"}

\* Mutant: the time that an exchange takes is not subtracted.
NextUpdateLate == IF TRANSMIT_WAIT < lifetime THEN lifetime ELSE lifetime \div 2

\* nextUpdate of registration_step
NextUpdate ==
  IF TRANSMIT_WAIT < lifetime THEN lifetime - TRANSMIT_WAIT ELSE lifetime \div 2

TypeOK ==
  /\ status \in Status
  /\ age \in Nat
  /\ requests \in [Requests -> Request]
  /\ \A r \in Requests : ~requests[r].open => requests[r] = NoRequest
  /\ listed \in BOOLEAN
  /\ left \in 0 .. lifetime
  /\ commands \in 0 .. MaxCommands

\* The answer to the registration has just arrived.
Init ==
  /\ status = "REGISTERED" /\ age = 0
  /\ requests = [r \in Requests |-> NoRequest]
  /\ listed = TRUE
  /\ left \in {n \in 0 .. lifetime : n >= lifetime - Delay}
  /\ commands = 0

-----------------------------------------------------------------------------
(* The client                                                              *)

Due == \/ status = "UPDATE_NEEDED"
       \/ status = "REGISTERED" /\ age >= NextUpdate

\* registration_step, prv_updateRegistration
SendUpdate(r) ==
  /\ Due /\ ~requests[r].open
  /\ requests' = [requests EXCEPT ![r] = NewRequest]
  /\ status' = "UPDATE_PENDING"
  /\ UNCHANGED <<age, listed, left, commands>>

\* Mutant: an update that fails is tried again later.
SettledRetries(ok) ==
  IF status = "UPDATE_PENDING" THEN age' = 0 /\ status' = "REGISTERED"
  ELSE UNCHANGED <<age, status>>

\* prv_handleRegistrationUpdateReply; whose answer it is, is not looked at.
Settled(ok) ==
  IF status = "UPDATE_PENDING"
  THEN age' = 0 /\ status' = IF ok THEN "REGISTERED" ELSE "REG_FAILED"
  ELSE UNCHANGED <<age, status>>

\* transaction_remove
Close(r) == requests' = [requests EXCEPT ![r] = NoRequest]

\* The answer to request r arrives.
Reply(r, ok) ==
  /\ requests[r].open
  /\ (IF ok THEN requests[r].answers ELSE requests[r].refusals) # {}
  /\ Close(r)
  /\ Settled(ok)
  /\ UNCHANGED <<listed, left, commands>>

\* transaction_step gives request r up.
GiveUp(r) ==
  /\ requests[r].open
  /\ Close(r)
  /\ Settled(FALSE)
  /\ UNCHANGED <<listed, left, commands>>

\* lwm2m_update_registration. The loop calls lwm2m_step right after it.
Command ==
  /\ commands < MaxCommands
  /\ status \in {"REGISTERED", "UPDATE_PENDING"}
  /\ commands' = commands + 1
  /\ status' = "UPDATE_NEEDED"
  /\ UNCHANGED <<age, requests, listed, left>>

-----------------------------------------------------------------------------
(* The server, and time                                                    *)

\* Mutant: the update does not move the end of life.
RenewedNot == left

Renewed == lifetime

\* registration_handleRequest gets a copy of request r: 2.04 or 4.04.
Serve(r) ==
  /\ requests[r].open
  /\ left' = IF listed THEN Renewed ELSE left
  /\ requests' = IF listed THEN [requests EXCEPT ![r].answers = @ \union {0}]
                 ELSE [requests EXCEPT ![r].refusals = @ \union {0}]
  /\ UNCHANGED <<status, age, listed, commands>>

\* registration_step at the server
Forget ==
  /\ listed /\ left = 0
  /\ listed' = FALSE
  /\ UNCHANGED <<status, age, requests, left, commands>>

\* Answers that are under way for too long are lost.
Older(S) == {a + 1 : a \in {b \in S : b < Delay}}

Aged(r) ==
  IF ~requests[r].open THEN requests[r]
  ELSE [requests[r] EXCEPT !.age = @ + 1, !.answers = Older(@), !.refusals = Older(@)]

\* A second passes. Nobody is late: not the loop of the client by more than Lag, nor
\* the loop of the server, nor the engine that keeps the requests.
Tick ==
  /\ status # "UPDATE_NEEDED"
  /\ status = "REGISTERED" => age < NextUpdate + Lag
  /\ \A r \in Requests : requests[r].open => requests[r].age < OpenFor
  /\ listed => left > 0
  /\ age' = IF status = "REGISTERED" THEN age + 1 ELSE age
  /\ left' = IF listed THEN left - 1 ELSE left
  /\ requests' = [r \in Requests |-> Aged(r)]
  /\ UNCHANGED <<status, listed, commands>>

Next ==
  \/ \E r \in Requests :
       \/ SendUpdate(r)
       \/ GiveUp(r)
       \/ Serve(r)
       \/ \E ok \in BOOLEAN : Reply(r, ok)
  \/ Command
  \/ Forget
  \/ Tick

Spec == Init /\ [][Next]_vars

\* Both loops run for ever, every request ends, and time passes.
FairSpec ==
  /\ Spec
  /\ WF_vars(\E r \in Requests : SendUpdate(r))
  /\ WF_vars(\E r \in Requests : GiveUp(r))
  /\ WF_vars(Forget)
  /\ WF_vars(Tick)

-----------------------------------------------------------------------------
(* Properties                                                              *)

\* A client that counts itself registered is known at the server, whichever of its
\* updates the last answer belonged to: the client counts from the answer, the server
\* from the request, and nextUpdate leaves room for the difference.
RegisteredIsKnown == status = "REGISTERED" => listed

\* nextUpdate also leaves room for the exchange: without commands of the user, a client
\* is known until its update has been answered or given up, whatever the network loses.
PendingIsKnown == status # "REG_FAILED" /\ commands = 0 => listed

\* A client that the server has forgotten finds out.
DroppedIsNoticed == ~listed ~> status = "REG_FAILED"
=============================================================================
