------------------------------ MODULE DhcpApp ------------------------------
(***************************************************************************)
(* How the board gets an address (src/app/net/app_ethernet.c): the thread  *)
(* DHCP_thread polls lwIP's DHCP client (dhcp.c) every 250 ms, starts the   *)
(* user task on a lease, and falls back to a static address when the client*)
(* has tried too often. The client runs in the tcpip thread, whose higher  *)
(* priority makes each of its handlers one step, and lets them run between *)
(* any two reads of DHCP_thread.                                           *)
(***************************************************************************)
EXTENDS Integers

CONSTANTS
  MAX_DHCP_TRIES,  \* as in app_ethernet.c
  RETRIES,         \* requests dhcp.c repeats before it discovers again
  TriesCap,        \* bound: dhcp->tries stops here (dhcp.c: at 255)
  MaxOffers        \* bound: offers that servers make and leases that they renew

ASSUME ConstantsAssumption ==
  /\ {MAX_DHCP_TRIES, RETRIES, MaxOffers} \subseteq Nat
  /\ TriesCap \in Nat /\ TriesCap > MAX_DHCP_TRIES

VARIABLES
  pc,          \* where DHCP_thread is
  DHCP_state,
  lwip,        \* dhcp->state
  tries,       \* dhcp->tries
  timers,      \* the timers of a lease run (t0_timeout is set)
  orphaned,    \* history: they are those of a lease that a server took back
  addr,        \* the address of gnetif
  started,     \* how often user_init_callback was called
  offers       \* offers and renewals so far (for the bound)

thread == <<pc, DHCP_state, started>>
vars == <<pc, DHCP_state, lwip, tries, timers, orphaned, addr, started, offers>>

TypeOK ==
  /\ pc \in {"none", "poll", "discover", "tries", "stop", "assign"}
  /\ DHCP_state \in {"OFF", "START", "WAIT_ADDRESS", "ADDRESS_ASSIGNED",
                     "TIMEOUT", "LINK_DOWN"}
  /\ lwip \in {"off", "selecting", "requesting", "checking", "backing_off",
               "bound", "renewing", "rebinding"}
  /\ tries \in 0 .. TriesCap
  /\ timers \in BOOLEAN /\ orphaned \in BOOLEAN
  /\ addr \in {"none", "lease", "static"}
  /\ started \in Nat
  /\ offers \in 0 .. MaxOffers

Init ==
  /\ pc = "none"
  /\ DHCP_state = "OFF"
  /\ lwip = "off"
  /\ tries = 0
  /\ timers = FALSE /\ orphaned = FALSE
  /\ addr = "none"
  /\ started = 0
  /\ offers = 0

\* if (dhcp->tries < 255) dhcp->tries++
OneMore == IF tries < TriesCap THEN tries + 1 ELSE tries

\* dhcp_set_state resets tries when the state is new; what the client sends in
\* that state counts as one try.
Try(s) == lwip' = s /\ tries' = IF lwip = s THEN OneMore ELSE 1

-----------------------------------------------------------------------------
(* app_ethernet_init and DHCP_thread                                       *)

\* app_ethernet_init: User_notification looks once whether the interface is up
\* (Netif_Config found a link or not), then the thread is created.
AppEthernetInit(up) ==
  /\ pc = "none"
  /\ pc' = "poll"
  /\ DHCP_state' = IF up THEN "START" ELSE "LINK_DOWN"
  /\ UNCHANGED <<lwip, tries, timers, orphaned, addr, started, offers>>

LinkDown ==
  /\ pc = "poll" /\ DHCP_state = "LINK_DOWN"
  /\ DHCP_state' = "OFF"
  /\ lwip' = "off" /\ tries' = 0
  /\ UNCHANGED <<pc, timers, orphaned, addr, started, offers>>

\* dhcp_start, called in this thread, up to the first discover message ...
Start ==
  /\ pc = "poll" /\ DHCP_state = "START"
  /\ pc' = "discover"
  /\ lwip' = "selecting" /\ tries' = 0
  /\ timers' = FALSE /\ orphaned' = FALSE
  /\ addr' = "none"
  /\ UNCHANGED <<DHCP_state, started, offers>>

\* ... which it never sends when an allocation fails: that of the control block, or of the
\* message, and then dhcp_stop leaves a client that is off and has not tried; or that of the
\* client, and then dhcp->tries is whatever is read through NULL. The result is not looked at.
StartFails ==
  /\ pc = "poll" /\ DHCP_state = "START"
  /\ DHCP_state' = "WAIT_ADDRESS"
  /\ lwip' = "off" /\ tries' \in 0 .. TriesCap
  /\ timers' = FALSE /\ orphaned' = FALSE
  /\ addr' = "none"
  /\ UNCHANGED <<pc, started, offers>>

\* ... and from there on: an answer to it may have come in before the try is counted.
StartCounts ==
  /\ pc = "discover"
  /\ pc' = "poll"
  /\ DHCP_state' = "WAIT_ADDRESS"
  /\ tries' = OneMore
  /\ UNCHANGED <<lwip, timers, orphaned, addr, started, offers>>

\* Mutant: an address that is still being checked counts as supplied.
AssignedWhileChecking ==
  /\ pc = "poll" /\ DHCP_state = "WAIT_ADDRESS"
  /\ lwip \in {"checking", "bound", "renewing"}
  /\ DHCP_state' = "ADDRESS_ASSIGNED"
  /\ started' = started + 1
  /\ UNCHANGED <<pc, lwip, tries, timers, orphaned, addr, offers>>

\* dhcp_supplied_address says yes.
Assigned ==
  /\ pc = "poll" /\ DHCP_state = "WAIT_ADDRESS" /\ lwip \in {"bound", "renewing"}
  /\ DHCP_state' = "ADDRESS_ASSIGNED"
  /\ started' = started + 1
  /\ UNCHANGED <<pc, lwip, tries, timers, orphaned, addr, offers>>

\* dhcp_supplied_address says no; dhcp->tries is read later.
NotYet ==
  /\ pc = "poll" /\ DHCP_state = "WAIT_ADDRESS" /\ lwip \notin {"bound", "renewing"}
  /\ pc' = "tries"
  /\ UNCHANGED <<DHCP_state, lwip, tries, timers, orphaned, addr, started, offers>>

\* Mutant: dhcp->tries is not looked at.
CheckTriesNever ==
  /\ pc = "tries"
  /\ pc' = "poll"
  /\ UNCHANGED <<DHCP_state, lwip, tries, timers, orphaned, addr, started, offers>>

CheckTries ==
  /\ pc = "tries"
  /\ IF tries > MAX_DHCP_TRIES
     THEN pc' = "stop" /\ DHCP_state' = "TIMEOUT"
     ELSE pc' = "poll" /\ UNCHANGED DHCP_state
  /\ UNCHANGED <<lwip, tries, timers, orphaned, addr, started, offers>>

\* Mutant: the static address is set while the client keeps running.
StopKeepsClient ==
  /\ pc = "stop"
  /\ pc' = "assign"
  /\ UNCHANGED <<DHCP_state, lwip, tries, timers, orphaned, addr, started, offers>>

\* dhcp_stop, called in this thread
Stop ==
  /\ pc = "stop"
  /\ pc' = "assign"
  /\ lwip' = "off" /\ tries' = 0
  /\ UNCHANGED <<DHCP_state, timers, orphaned, addr, started, offers>>

\* netif_set_addr with the static address
AssignStatic ==
  /\ pc = "assign"
  /\ pc' = "poll"
  /\ addr' = "static"
  /\ UNCHANGED <<DHCP_state, lwip, tries, timers, orphaned, started, offers>>

Thread == \/ LinkDown \/ Start \/ StartFails \/ StartCounts \/ Assigned \/ NotYet
          \/ CheckTries \/ Stop \/ AssignStatic

-----------------------------------------------------------------------------
(* lwIP's DHCP client: timers and messages handled in the tcpip thread     *)

\* dhcp_timeout, dhcp_discover
DiscoverTimeout ==
  /\ lwip \in {"selecting", "backing_off"}
  /\ Try("selecting")
  /\ UNCHANGED <<thread, timers, orphaned, addr, offers>>

\* dhcp_handle_offer, dhcp_select
Offer ==
  /\ lwip = "selecting" /\ offers < MaxOffers
  /\ Try("requesting")
  /\ offers' = offers + 1
  /\ UNCHANGED <<thread, timers, orphaned, addr>>

\* dhcp_timeout: the request is repeated, or released and discovery starts anew.
RequestTimeout ==
  /\ lwip = "requesting"
  /\ \/ tries <= RETRIES /\ Try("requesting") /\ UNCHANGED <<timers, orphaned>>
     \/ tries > RETRIES /\ Try("selecting") /\ timers' = FALSE /\ orphaned' = FALSE
  /\ UNCHANGED <<thread, addr, offers>>

\* dhcp_recv: the server grants the address; dhcp_check asks by ARP who has it.
Ack ==
  /\ lwip = "requesting"
  /\ Try("checking")
  /\ UNCHANGED <<thread, timers, orphaned, addr, offers>>

\* dhcp_timeout: nobody has the address; the question is repeated once.
CheckAgain ==
  /\ lwip = "checking" /\ tries <= 1
  /\ Try("checking")
  /\ UNCHANGED <<thread, timers, orphaned, addr, offers>>

\* dhcp_bind, after the ARP check, or at the answer to a renewal
Bind ==
  /\ \/ lwip = "checking" /\ tries > 1 /\ UNCHANGED offers
     \/ lwip \in {"renewing", "rebinding"} /\ offers < MaxOffers /\ offers' = offers + 1
  /\ lwip' = "bound" /\ tries' = 0
  /\ timers' = TRUE /\ orphaned' = FALSE
  /\ addr' = "lease"
  /\ UNCHANGED thread

\* dhcp_arp_reply, dhcp_decline: the address is in use.
Decline ==
  /\ lwip = "checking"
  /\ Try("backing_off")
  /\ UNCHANGED <<thread, timers, orphaned, addr, offers>>

\* dhcp_handle_nak: the server takes its offer or the lease back. The timers of the lease
\* are not stopped.
HandleNak ==
  /\ lwip \in {"requesting", "renewing", "rebinding"}
  /\ Try("selecting")
  /\ addr' = "none"
  /\ orphaned' = timers
  /\ UNCHANGED <<thread, timers, offers>>

\* dhcp_coarse_tmr goes off every minute, whenever the lease began, and a timer of less than
\* 90 s is one of its ticks: it may fire before DHCP_thread has looked.
\* dhcp_t1_timeout, dhcp_t2_timeout: renew with the server, or with any.
Renew ==
  /\ timers
  /\ \/ lwip \in {"requesting", "bound", "renewing"} /\ Try("renewing")
     \/ lwip \in {"requesting", "bound", "renewing", "rebinding"} /\ Try("rebinding")
  /\ UNCHANGED <<thread, timers, orphaned, addr, offers>>

\* dhcp_coarse_tmr: the lease runs out. dhcp_release takes the address away if
\* dhcp_supplied_address says that it is DHCP's.
Expire ==
  /\ timers
  /\ lwip # "off"
  /\ lwip' = "selecting" /\ tries' = 1
  /\ timers' = FALSE /\ orphaned' = FALSE
  /\ addr' = IF lwip \in {"bound", "renewing"} THEN "none" ELSE addr
  /\ UNCHANGED <<thread, offers>>

Client == \/ DiscoverTimeout \/ Offer \/ RequestTimeout \/ Ack \/ CheckAgain \/ Bind
          \/ Decline \/ HandleNak \/ Renew \/ Expire

\* The thread goes on polling when there is nothing left for it to do.
Done ==
  /\ pc = "poll" /\ DHCP_state \in {"OFF", "ADDRESS_ASSIGNED", "TIMEOUT"}
  /\ UNCHANGED vars

Next ==
  \/ \E up \in BOOLEAN : AppEthernetInit(up)
  \/ Thread
  \/ Client
  \/ Done

Spec == Init /\ [][Next]_vars

\* DHCP_thread wakes up every 250 ms; dhcp_fine_tmr goes off, and so does dhcp_coarse_tmr,
\* until a lease that is not renewed has run out.
FairSpec ==
  /\ Spec
  /\ WF_vars(\E up \in BOOLEAN : AppEthernetInit(up))
  /\ WF_vars(Thread)
  /\ WF_vars(DiscoverTimeout) /\ WF_vars(RequestTimeout)
  /\ WF_vars(CheckAgain \/ (lwip = "checking" /\ Bind))
  /\ WF_vars(lwip = "rebinding" /\ Expire)

-----------------------------------------------------------------------------
(* Properties                                                              *)

\* user_init_callback creates the task of the user, which opens sockets at once: it is
\* called a single time, whatever becomes of the lease, and while the interface has the
\* address of the lease, unless a server has taken that lease back and its timers, which go
\* on, have brought a client without an address to a state that passes for one with it.
StartsWithLease ==
  [][started' # started => started = 0 /\ (addr = "lease" \/ orphaned)]_vars

\* The fallback wins over a late answer: an ACK that arrives between the look
\* at dhcp->tries and dhcp_stop leaves neither a running client nor an address
\* that could be taken away again.
FallbackHolds ==
  DHCP_state = "TIMEOUT" /\ pc = "poll" => addr = "static" /\ lwip = "off"

\* When dhcp_start has succeeded DHCP_thread does not wait for an address for ever, as long
\* as servers do not go on making offers that no lease follows.
WaitEnds ==
  DHCP_state = "WAIT_ADDRESS" /\ lwip # "off" ~> DHCP_state \in {"ADDRESS_ASSIGNED", "TIMEOUT"}

\* dhcp_release removes the address from the interface when the lease is over
\* (dhcp.c: "remove IP address from interface"): an address from DHCP is one
\* that a lease still covers.
NoExpiredAddress == addr = "lease" => lwip \in {"bound", "renewing", "rebinding"}
=============================================================================
