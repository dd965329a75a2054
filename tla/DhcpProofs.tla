----------------------------- MODULE DhcpProofs -----------------------------
(***************************************************************************)
(* Safety of the network start-up, for every limit on the tries and every  *)
(* number of offers.                                                       *)
(***************************************************************************)
EXTENDS DhcpApp, TLAPS

\* Where DHCP_thread is tells what it has stored; until it has seen an address
\* the user task has not been started.
ThreadInv ==
  /\ pc = "none" => DHCP_state = "OFF" /\ started = 0
  /\ pc = "discover" => DHCP_state = "START"
  /\ pc = "tries" => DHCP_state = "WAIT_ADDRESS"
  /\ pc \in {"stop", "assign"} => DHCP_state = "TIMEOUT"
  /\ DHCP_state \in {"START", "WAIT_ADDRESS", "LINK_DOWN"} => started = 0

\* The client is off until DHCP_thread starts it. Until the thread has seen an address, the
\* timers run only in a client that has the lease, or for a lease that was taken back: no
\* other client renews or rebinds.
LeaseInv ==
  /\ pc = "none" \/ DHCP_state = "LINK_DOWN" \/ (DHCP_state = "START" /\ pc = "poll")
       => lwip = "off" /\ ~timers
  /\ DHCP_state \in {"START", "WAIT_ADDRESS"} =>
       /\ (timers => lwip \in {"bound", "renewing", "rebinding"} \/ orphaned)
       /\ (lwip \in {"bound", "renewing", "rebinding"} => addr = "lease" \/ orphaned)

\* Once dhcp_stop has run nothing brings the client back.
FallbackInv ==
  /\ pc = "assign" => lwip = "off"
  /\ FallbackHolds

IInv == TypeOK /\ ThreadInv /\ LeaseInv /\ FallbackInv

\* The values the counters are set to are in range.
LEMMA Ranges ==
  /\ MaxOffers \in Nat
  /\ 0 \in 0 .. TriesCap /\ 1 \in 0 .. TriesCap /\ 0 \in 0 .. MaxOffers
  /\ tries \in 0 .. TriesCap => OneMore \in 0 .. TriesCap
<1>1. MaxOffers \in Nat /\ MAX_DHCP_TRIES \in Nat
  BY ConstantsAssumption
<1>2. TriesCap \in Nat /\ TriesCap >= 1
  BY <1>1, ConstantsAssumption
<1>. QED
  BY <1>1, <1>2 DEF OneMore

LEMMA InitInv == Init => IInv
<1>1. Init => TypeOK
  <2>1. 0 \in Nat
    OBVIOUS
  <2>. QED
    BY <2>1, Ranges, Zenon DEF Init, TypeOK
<1>2. Init => ThreadInv /\ LeaseInv /\ FallbackInv
  BY DEF Init, ThreadInv, LeaseInv, FallbackInv, FallbackHolds
<1>. QED
  BY <1>1, <1>2 DEF IInv

\* Every step of DHCP_thread keeps the invariant.
LEMMA ThreadStep == IInv /\ Thread => IInv'
<1>. SUFFICES ASSUME IInv, Thread PROVE IInv'
  OBVIOUS
<1>. USE DEF IInv, TypeOK, ThreadInv, LeaseInv, FallbackInv, FallbackHolds, thread
<1>1. CASE LinkDown
  BY <1>1, Ranges DEF LinkDown
<1>2. CASE Start
  BY <1>2, Ranges DEF Start
<1>3. CASE StartFails
  BY <1>3, Ranges DEF StartFails
<1>4. CASE StartCounts
  BY <1>4, Ranges DEF StartCounts
<1>5. CASE Assigned
  BY <1>5, Ranges DEF Assigned
<1>6. CASE NotYet
  BY <1>6, Ranges DEF NotYet
<1>7. CASE CheckTries
  BY <1>7, Ranges DEF CheckTries
<1>8. CASE Stop
  BY <1>8, Ranges DEF Stop
<1>9. CASE AssignStatic
  BY <1>9, Ranges DEF AssignStatic
<1>. QED
  BY <1>1, <1>2, <1>3, <1>4, <1>5, <1>6, <1>7, <1>8, <1>9 DEF Thread

\* Every step of the client keeps the invariant.
LEMMA ClientStep == IInv /\ Client => IInv'
<1>. SUFFICES ASSUME IInv, Client PROVE IInv'
  OBVIOUS
<1>. USE DEF IInv, TypeOK, ThreadInv, LeaseInv, FallbackInv, FallbackHolds, thread
<1>1. CASE DiscoverTimeout
  BY <1>1, Ranges DEF DiscoverTimeout, Try
<1>2. CASE Offer
  BY <1>2, Ranges DEF Offer, Try
<1>3. CASE RequestTimeout
  <2>1. CASE Try("requesting") /\ UNCHANGED <<timers, orphaned>>
    BY <1>3, <2>1, Ranges DEF RequestTimeout, Try
  <2>2. CASE Try("selecting") /\ timers' = FALSE /\ orphaned' = FALSE
    BY <1>3, <2>2, Ranges DEF RequestTimeout, Try
  <2>. QED
    BY <1>3, <2>1, <2>2 DEF RequestTimeout
<1>4. CASE Ack
  BY <1>4, Ranges DEF Ack, Try
<1>5. CASE CheckAgain
  BY <1>5, Ranges DEF CheckAgain, Try
<1>6. CASE Bind
  <2>1. offers' \in 0 .. MaxOffers
    BY <1>6, Ranges DEF Bind
  <2>. QED
    BY <1>6, <2>1, Ranges DEF Bind
<1>7. CASE Decline
  BY <1>7, Ranges DEF Decline, Try
<1>8. CASE HandleNak
  <2>1. tries' \in 0 .. TriesCap
    BY <1>8, Ranges DEF HandleNak, Try
  <2>2. CASE timers
    BY <1>8, <2>1, <2>2, Ranges DEF HandleNak, Try
  <2>3. CASE ~timers
    BY <1>8, <2>1, <2>3, Ranges DEF HandleNak, Try
  <2>. QED
    BY <2>2, <2>3
<1>9. CASE Renew
  BY <1>9, Ranges DEF Renew, Try
<1>10. CASE Expire
  BY <1>10, Ranges DEF Expire
<1>. QED
  BY <1>1, <1>2, <1>3, <1>4, <1>5, <1>6, <1>7, <1>8, <1>9, <1>10 DEF Client

LEMMA StepInv == IInv /\ [Next]_vars => IInv'
<1>. SUFFICES ASSUME IInv, [Next]_vars PROVE IInv'
  OBVIOUS
<1>1. CASE \E up \in BOOLEAN : AppEthernetInit(up)
  BY <1>1 DEF AppEthernetInit, IInv, TypeOK, ThreadInv, LeaseInv, FallbackInv, FallbackHolds, thread
<1>2. CASE Thread
  BY <1>2, ThreadStep
<1>3. CASE Client
  BY <1>3, ClientStep
<1>4. CASE Done \/ UNCHANGED vars
  BY <1>4 DEF Done, vars, IInv, TypeOK, ThreadInv, LeaseInv, FallbackInv, FallbackHolds, thread
<1>. QED
  BY <1>1, <1>2, <1>3, <1>4 DEF Next

\* The invariant holds in every state of every behaviour of the start-up.
THEOREM Invariance == Spec => []IInv
BY InitInv, StepInv, PTL DEF Spec

\* The thread, the client and the interface keep their types: dhcp->tries
\* saturates whatever the servers send.
THEOREM TypeCorrect == Spec => []TypeOK
<1>1. IInv => TypeOK
  BY DEF IInv
<1>. QED
  BY <1>1, Invariance, PTL

\* After the fallback to the static address the client is off and the address
\* stays, whatever answer came between the checks of DHCP_thread.
THEOREM FallbackFinal == Spec => []FallbackHolds
<1>1. IInv => FallbackHolds
  BY DEF IInv, FallbackInv
<1>. QED
  BY <1>1, Invariance, PTL

\* Only Assigned calls user_init_callback, in a state where it was never called and where
\* the lease is on the interface, or has been taken back.
LEMMA StartStep ==
  IInv /\ [Next]_vars => (started' # started => started = 0 /\ (addr = "lease" \/ orphaned))
<1>. SUFFICES ASSUME IInv, Next, started' # started
     PROVE  started = 0 /\ (addr = "lease" \/ orphaned)
  BY DEF vars
<1>1. Assigned
  <2>1. CASE \E up \in BOOLEAN : AppEthernetInit(up)
    BY <2>1 DEF AppEthernetInit
  <2>2. CASE Thread
    BY <2>2 DEF Thread, LinkDown, Start, StartFails, StartCounts, NotYet, CheckTries, Stop,
                AssignStatic
  <2>3. CASE Client
    BY <2>3 DEF Client, thread, DiscoverTimeout, Offer, RequestTimeout, Ack, CheckAgain, Bind,
                Decline, HandleNak, Renew, Expire
  <2>4. CASE Done
    BY <2>4 DEF Done, vars
  <2>. QED
    BY <2>1, <2>2, <2>3, <2>4 DEF Next
<1>. QED
  BY <1>1 DEF Assigned, IInv, ThreadInv, LeaseInv

\* The user task is started at most once, and without the address of a lease only when a
\* server has taken the lease back before DHCP_thread saw it.
THEOREM Starts == Spec => StartsWithLease
<1>1. IInv /\ [Next]_vars =>
        [started' # started => started = 0 /\ (addr = "lease" \/ orphaned)]_vars
  BY StartStep
<1>. QED
  BY <1>1, Invariance, PTL DEF Spec, StartsWithLease
=============================================================================
