# Verification of the IoT security base

TLA+ models of the parts of this repository that carry its own logic, checked
with TLC on small instances, and proofs with TLAPS for every instance. The
reference is the code under `src/`; every definition that stands for code is
listed with its lines in `PROJECT.json` under `map`.

## 1. The system

The repository is a base for secure IoT firmware on an STM32F767: FreeRTOS, lwIP,
mbedTLS and the wakaama LwM2M stack, with application glue in `src/app` and samples
for the board and for POSIX in `src/samples`.

```
 samples (main loop: lwm2m_step / select / lwm2m_handle_packet / commands)
    |                                   |
 wakaama: lwm2m_step -> bootstrap_step, registration_step, transaction_step
    |        |                          ^ lwm2m_handle_packet: commands, responses
    |     objects (security, server, ...)
 connection list, easy_tls (DTLS), sockets
    |
 lwIP (tcpip thread) -- ethernetif (interrupt, semaphore, input thread)
    ^
 DHCP_thread (app_ethernet.c): lease or static address, starts the user task
```

### Inventory

| Component | State it keeps | Operations | Hard behaviour | Correct when |
|---|---|---|---|---|
| Request engine: `transaction.c`, `packet.c` | `transactionList`: id, peer, counters, timer, buffer, callback | `transaction_new`, `_send`, `_step`, `_handleResponse` | lost, repeated, late answers; failing malloc; a loop that lags | each request ends once, is repeated as CoAP says, and always ends |
| Client: `liblwm2m.c`, `bootstrap.c`, `registration.c`, `objects.c` | `state`, two server lists with status, session, dirty flag; the Security and Server objects | `lwm2m_step`, bootstrap commands, replies, updates | commands in any order from several servers, requests outliving servers and sessions, failing connections | lists follow the objects; nothing waits without a request; bootstrap starts and ends when it should |
| `DHCP_thread`: `app_ethernet.c` with lwIP's `dhcp.c` | `DHCP_state`, `dhcp->state`, `dhcp->tries`, the address | poll, start, stop; time-outs and messages of the client | the client preempts the poll between its reads | one user task; fallback final; the wait ends |
| Ethernet driver: `ethernetif.c`, `stm32f7xx_hal_eth.c` | semaphore, two DMA rings, the HAL handle with its lock | interrupt, drain loop, allocation; copy and hand-over of frames | interrupt against drain and sender, threads that preempt, rings full, pbufs exhausted | no frame is stranded, torn or overtaken; what is reported as sent is sent |
| Sample glue: `samples/*/lwm2m/client` | connection list, socket, TLS sessions on it | connect, handshake, close, read, loop | freed connections still referred to | sessions are live and their server's own |
| Server: `registration.c`, `management.c` | client list with objects and lifetime | register, update, deregister, expiry | a client that registers anew while requests are open | one client per name; expiry |
| Observation: `observe.c` | entries with their watchers: attributes, last notification | observe, set attributes, value changed, step, cancel, reset | periods and thresholds against changes; the sleep of the loop | every server is told in time, and only its own observations end |
| Block transfer: `block1.c` | buffer, size, last message id | next block | repeated and reordered blocks, failing malloc | the body is what was sent |
| TLS sessions: `easy_tls.c` | context, session | create, handshake, free | failure half way | freed once |
| Timer port: `timing_alt.c` | start tick, delays | set, get | tick wrap | delays in order |
| Lists: `lwm2m_list.c` | sorted list | add, find, remove, newId | gaps | sorted, ids unique |
| Objects, encodings, samples, vendored code | data | | | not modelled, see section 7 |

How they interact: `lwm2m_step` is called by the main loop and calls the machines;
they make requests (`transaction_new`, `transaction_send`) and get their results in
callbacks that run inside `transaction_step` or `lwm2m_handle_packet`. Sessions are
pointers handed out by the sample (`lwm2m_connect_server`) and shared by a server
structure and its requests. `DHCP_thread` and the DHCP client share `dhcp->state`,
`dhcp->tries` and the address without a lock.

`PROJECT.json` lists every component with its status and, under `hazards`, what is
hard to test in it, at the line where it bites, with the properties about it.

## 2. Modules

| Module | What it is | Code |
|---|---|---|
| `Transaction` | the request engine against peers and a network that loses, repeats, delays and reorders | `transaction.c`, response half of `packet.c` |
| `Exchange` | what the engine promises its callers: the abstract specification | |
| `LwM2MClient` | `lwm2m_step` and everything between two steps | `liblwm2m.c`, `bootstrap.c`, `registration.c`, `objects.c`, the loop of the sample client |
| `Observe` | the observations of the servers, with the loop's sleep | `observe.c` (client half), `packet.c` |
| `Block1` | reassembly of a body against a sender and a network | `block1.c`, its caller in `packet.c` |
| `Lifetime` | one registration in time, at the client and at the server | both halves of `registration.c` |
| `Connections` | the connection list, the socket and TLS sessions of the sample client | `lwm2m_client_main.c`, `lwm2m_connection.c`, `easy_tls.c` |
| `DhcpApp` | `DHCP_thread` and the DHCP client | `app_ethernet.c`, `dhcp.c` |
| `EthRx` | from the wire to lwIP: DMA ring, interrupt, drain loop | `ethernetif.c`, `stm32f7xx_hal_eth.c` |
| `EthTx` | from lwIP to the wire: `low_level_output`, `HAL_ETH_TransmitFrame` | the same |
| `Ethernet` | both at work, over the one lock of the HAL handle | the same |
| `TransactionProofs`, `LwM2MClientProofs`, `ObserveProofs`, `Block1Proofs`, `LifetimeProofs`, `ConnectionsProofs`, `DhcpProofs`, `EthernetProofs` | theorems, one module for each component | |
| `MCTransaction`, `MCLwM2MClient`, `MCObserve`, `MCLifetime`, `MCBlock1`, `MCConnections`, `MCDhcpApp`, `MCEthernet`, `MCEthTx` | instances for TLC | |

### Transaction

`tx[i]` is the `lwm2m_transaction_t` with message id `i`; `listed` is membership of
`transactionList`, `now` the clock in seconds, `out` the datagrams of the last action.
`sends`, `calls`, `outcome`, `born` and `unauth` record the history that the properties
are about; `tried` is when an allocation for it last failed. The actions:

- `New`: a caller makes, lists and sends a request (`transaction_new` .. `transaction_send`).
- `Step`: one `transaction_step`, which sends every entry that is due.
- `Tick`: a second passes. The main loop sleeps in `select()` no longer than
  `*timeoutP`, which is until the timer of a request or, when there was no memory for its buffer, one second
  (`WakeUp`); `MaxLag` is how much later it may come back.
- `HandleReset`, `HandleEmptyAck`, `HandleUnauthorized`, `HandleFinal`,
  `HandleUnmatched`: the ways through `transaction_handleResponse`, on the first entry
  of the sorted list that the message fits.

A message can be delivered at any time and any number of times once the peer could have
sent it (`Deliverable`). Empty ACKs and resets may also be strangers with any id, as
those left over from an earlier boot.

### LwM2MClient

`srv[s]` is the `lwm2m_server_t` of the security instance `s`, `sec` and `obj` the
instances of the Security object and of the Server object, `req` the transactions.
A transaction knows whether its server was freed (`orphan`) and whether its peer
handle is its server's session, a leaked one, or one that was freed (`via`).

- `Step` is one whole `lwm2m_step`: `Machine` follows the `switch` with its `goto`s,
  then `RegistrationStep` and `Returns` (`transaction_step`, in which any requests of
  earlier steps may run out). What the step meets is chosen at its start: which servers
  refuse a connection, which timers have elapsed, which malloc fails, and which block
  of a freed server structure malloc gives to a new one. The step fails as a whole if
  one of its parts returns an error, and then the sample leaves its loop (`run` is
  "stopped"); use of freed memory may crash it ("crashed").
- Between two steps the loop handles at most one thing: `Reply`, the bootstrap
  commands `WriteSecurity` .. `Finish`, a management request, a command of the user, or
  nothing (`Idle`).

A packet is attributed to the session it arrived on; what the sample does instead is told
under "Known facts". An instance keeps
its kind (bootstrap or LwM2M server), short server ids are unique, and writing one
instance is atomic.

### DhcpApp

`pc` is where `DHCP_thread` is inside one poll, so that the client can run between its
reads; `lwip` and `tries` are `dhcp->state` and `dhcp->tries`. The tcpip thread has the
higher priority (`TCPIP_THREAD_PRIO` is `osPriorityHigh`, `DHCP_thread` is
`osPriorityNormal`), so each handler of the client is one action. The timers of a lease
are ticks of `dhcp_coarse_tmr`, which goes off every minute whenever the lease began, so that
`Renew` and `Expire` may come at any time, also before the thread has seen the lease. `StartFails` are the ways out
of `dhcp_start` with an error, which `DHCP_thread` does not look at. `orphaned` is history: the timers that run are those of a
lease that a server has taken back.

### Observe

`observed` is `contextP->observedList`, each entry with its `watcherList`, in the order of
the lists: which watcher `observe_cancel` takes depends on it. A watcher's `lastTime` is
kept as its `age` in seconds, capped at `maxPeriod`. `lastMid` is the id of its last notification, and 0 before the
first, as `memset` leaves it. `told` is history: the value that `message_send` was given for its server last. A notification is
not confirmed, and the result of `message_send` is not looked at (`observe.c:665`), so that it may get lost.

- `Register`, `SetParameters`: a request with the Observe option 0; a Write-Attributes.
- `Unobserve`: a request with the option 1, whose id is `LWM2M_MAX_ID`, or a reset of any id, both through `Cancel`, which is
  `observe_cancel` with its two different comparisons.
- `Change`: `lwm2m_resource_value_changed`.
- `Step`, `Tick`: `lwm2m_step`, whose `observe_step` notifies (`Notify`) and shortens the
  sleep of the loop (`Intervals`), and a second of that sleep. A request, a reset or a change
  ends the sleep.

Message ids are numbers up to `LWM2M_MAX_ID`. `nextMID` starts anywhere, wraps, and counts all other messages too:
notifications of one `Step` get different ids, those of different steps may get the same. A server may reset any
message it was sent, whatever it was, so a reset has any id.

### Block1

`data` is `lwm2m_block1_data_t`; a buffer is a sequence of pieces, so that a body that was put
together wrongly can be told from one that was not. The actions of the receiver are the ways through
`coap_block1_handler`: `First`, `Unknown`, `Repeated`, `OutOfOrder`, `TooLarge`,
`NoMemory`, `Store`. The server sends one block at a time and goes on when it gets 2.31; it
may begin a new transfer at any time (`Begin`), in which case the messages of the one before
are taken to be gone. `stale` says whether the network lets messages of the current transfer be
overtaken.

### Lifetime

The client counts its registration from the arrival of an answer, the server from the arrival of a
request; both clocks are in this module, with nothing else of the two sides. `age` is the time since
`targetP->registration`, `left` the time until `endOfLife`, `requests` the updates outstanding with the answers
that are under way to each. `SendUpdate`, `Reply`, `GiveUp` and `Command` are the client's, `Serve` and
`Forget` the server's. `Tick` says what may be late and by how much: an answer (`Delay`), the
loop of the client (`Lag`), a request in the list (`OpenFor`, which `OverInTime` of `Transaction` bounds by
`COAP_MAX_TRANSMIT_WAIT`).

### Connections

`live` are the allocated `connection_t`s, `conn` their members and what freed memory still
holds, `head` is `dataP->connP`, `held[s]` the session handle in the server structure. All connections share one
socket, which `TLSSession_free` closes. `Connect`, `Close`, `DeleteServer`, `Send`
and `Receive` are the calls of the core into the sample, and the loop's read of the head's session.
`lwm2m_connect_server` fails in two ways, both through `connection_free` (`FreeAll`): when the handshake does
(`HandshakeFailure`), which closes the socket, and when `TLSSession` has no memory or cannot be set up (`SetupFailure`), before the
session has a descriptor: then the socket stays open unless an older session closes it. `early` records that it did.
A crash (use of a freed connection, or freeing it again) is a value of `run`.

### EthRx, EthTx, Ethernet

`EthRx` has the MAC (`Arrive`), the receive DMA with its ring (`Store`, `StoreFirst`,
`Suspend`), the interrupt in two steps (`IrqGive`, `IrqClear`: the handler gives the semaphore before
it clears the flag and unlocks the handle) and `ethernetif_input`, cut at every point where the DMA or the interrupt
can change what it reads next. Of a sender it knows only that it takes the lock and gives it back.
`EthTx` has the sender in full, cut in the same way, with the transmit DMA; to it the interrupt is something that
unlocks the handle at any time. `Ethernet` puts the two together: `ImplementsReceive` says
that the composition is a behaviour of `EthRx`, `TransmitRefined` that it is one of `EthTx`.
Priorities are the code's: `ethernetif_input` is `osPriorityRealtime`, above the tcpip thread, above
`DHCP_thread`.

## 3. Runs

| Run | Instance | Shows |
|---|---|---|
| `transaction` | three requests to two peers: one without a token, one that cannot be serialized; two retransmissions (too few for a 4.01 to be tried again), one failing malloc | safety of the engine, and that it implements `Exchange` |
| `transaction_timed` | one request, the constants of `er-coap-13.h` (2 s, 4 retransmissions, 93 s), lag of 2 s, one failing malloc | over in `COAP_MAX_TRANSMIT_WAIT`; it implements `Exchange` with its fairness: always over |
| `client_two_servers` | one bootstrap server, two LwM2M servers, two requests at a time for one of them, failing mallocs | lists follow the objects; nothing waits for a request that could not be made; registering ends, bootstrap requests settle, failure is noticed; the client bootstraps, registers and falls back when it should |
| `client_dangling` | one server of each kind | **violated**: a finding, see below |
| `observe` | two servers, two resources with values on both sides of a threshold, periods of 1 and 2 s, message ids 0 to 2 | lists stay sound, changes and maximal periods are told in time, a message ends one observation at most: the sender's, or one behind a head that has its id |
| `lifetime` | lifetime 12, `TRANSMIT_WAIT` 9, three updates, two commands | the server knows a client that counts itself registered, and, without commands, one whose update is under way; who is dropped finds out |
| `block1` | bodies of several lengths around the maximum, eight messages, failing mallocs, with and without overtaking | what is handed on is a body as it was sent |
| `connections` | three servers, four blocks of memory, UDP and DTLS | sessions are live and the server's own while the socket is open; so is the list, and the loop never reads over a freed connection, unless a TLS session failed before it had its descriptor |
| `dhcp` | the constants of the code; three offers or renewals | the user task starts once and on the lease, or on one that a server took back; the fallback is final; the wait ends once `dhcp_start` has succeeded |
| `dhcp_expiry` | the same | **violated**: a finding, see below |
| `ethernet` | three receive and two transmit descriptors, three frames each way, one failing `pbuf_alloc` | no lost wake-up, no meeting with the lock, frames whole and in order both ways, and they move; the composition implements `EthRx` |
| `eth_tx_two_senders` | two senders of different priority, frames of two pbufs | **violated**: a finding, see below |

Every property of a passing run has a mutant in `PROJECT.json`: a plausible bug in a
mapped definition (the operators named in comments as "Mutant") that violates it. The type
invariants of `Transaction`, `DhcpApp`, `Connections`, `Block1` and `Lifetime` are theorems and not in the runs; those of the
others are the first conjunct of another invariant (`RegisteredHasSession`, `ListsSound`, `WholeFrame`, `WireInOrder`).

### Bounds

- `Transaction`: `StartBy` and `MaxTime` bound the clock; in each instance
  `MaxTime` is beyond the end of every request, so the whole life of a request is
  explored. `MaxUnauth` bounds the 4.01 answers: they move the timer without
  counting, so without a bound the state space is infinite. `OverInTime` needs it to be 1:
  with two separate 4.01 answers a request can outlive `COAP_MAX_TRANSMIT_WAIT`.
  `MaxAllocFail` bounds failing mallocs, so that a heap that never has memory does
  not count as a behaviour that must make progress. Each failure costs the second that the loop then sleeps and its lag;
  `OverInTime` holds with one failure, and with two the sum of section 5 is beyond `COAP_MAX_TRANSMIT_WAIT`.
  `MaxLag` is less than two response time-outs (`ConstantsAssumption`).
- `LwM2MClient`: `MaxOutstanding` bounds the requests in the heap for each server;
  two are enough for an update to be overtaken by another, which is the only way the
  code has of making a second, and one server is enough for it to happen. `MaxStray` bounds the requests that outlive their session,
  `Failures` which mallocs may fail, one server at a time.
- `Observe`: every minimal period, every maximal one and every threshold is the same; ages count no
  further than `maxPeriod`, beyond which nothing tells them apart. `Clears` are the attributes that a
  server takes away again: only the minimal period, whose end is what the loop sleeps for. `MaxWatchers` is 2, so that a list has a watcher behind the
  head, or two entries one each. `LWM2M_MAX_ID` is 2 for the code's 65535: the id of a watcher that was never notified, the one that
  stands for any at a head, and one between them, all three of which messages can have. The sleep of the loop is 3 s for the code's 60, longer than every period.
- `Lifetime`: the instance is near the limits that the theorems of section 5 give, where an exchange just fits.
  `Requests` and `MaxCommands` let an update be overtaken by another; with one command already
  the server can drop the client. A lifetime below `TRANSMIT_WAIT` is left to the theorems.
- `Block1`: `MaxMid` is 8, two transfers and more: the longest body has as many
  blocks as fit into the maximum. That the first buffer of a transfer can be allocated is taken for granted, as
  by the code.
- `Connections`: four handles for three servers, so that memory is used again; no counter.
- `DhcpApp`: `TriesCap` stands for 255; only the comparisons with `MAX_DHCP_TRIES`,
  `RETRIES` and 1 matter, and it lies beyond them. `MaxOffers` bounds offers and renewals: without it `WaitEnds` is false, since every offer that is refused starts
  `tries` again. Three are enough for a lease, its renewal, and one more offer.
- `Ethernet`: `MaxFrames` and `MaxSent` are 3, enough to fill the ring, wrap it and meet a descriptor
  twice; the receive ring has three descriptors, so that a frame of two leaves one. `MaxAllocFail` bounds the failures of
  `pbuf_alloc`. A frame to send fits into one buffer, which the MTU guarantees. One
  sender: with two the finding below is in the way.

### Fairness

- `Transaction`: weak fairness of `Step` and `Tick`: the loop of the samples calls
  `lwm2m_step` for ever, and clocks go on. Nothing is assumed about the network.
- `LwM2MClient`: weak fairness of the loop, for the same reason, and that every request leaves
  the list again and again, which is what `ImplementsFairExchange` of `Transaction` gives. No fairness for replies,
  commands or timers.
- `DhcpApp`: `DHCP_thread` wakes up every 250 ms and the timers of lwIP (`dhcp_fine_tmr`,
  `dhcp_coarse_tmr`) go off: a client that asks any server for its lease again gets it, or the lease runs out. Nothing about
  servers.
- `EthRx`, `EthTx`, `Ethernet`: the DMA engines work, an interrupt that is due is handled, and
  `ethernetif_input`, of the highest priority, runs. Nothing is assumed about the senders.
- `Lifetime`: both loops run, so that an update that is due is sent and a client whose time is over is dropped; every
  request ends (`ImplementsFairExchange`); time passes. Nothing about the network.
- `Observe`, `Block1`, `Connections`: safety only; that the loop wakes in time is stated with the clock.

## 4. Findings

1. **A request may outlive its session** (`client_dangling`, `bootstrap.c:171`). When
   a bootstrap server sends commands and Finish before its reply to the bootstrap request
   arrives (or the reply is lost), `bootstrap_step` closes the session and frees it,
   while the request is still in `transactionList` and is retransmitted over the freed
   handle. `transaction.c:160` says "no transactions without peer".
2. **An expired lease is kept** (`dhcp_expiry`, `dhcp.c:1927`): in the state rebinding
   `dhcp_release` does not remove the address, against its comment at `dhcp.c:1316`.
3. **A frame is dropped and reported as sent** (`eth_tx_two_senders`, `ethernetif.c:341`).
   `low_level_output` ignores the result of `HAL_ETH_TransmitFrame`, which refuses when the handle is
   locked or the next descriptor is not free; that happens when the tcpip thread preempts
   `DHCP_thread` inside it. `ethernetif.c:272` says "@return ERR_OK if the packet could be
   sent". With one sender it is true, which is proved (`OneSenderReportsTrue`).

### Known facts

What the models show of the code beside the properties, without a run of its own:

- After the fallback to the static address `DHCP_thread` never starts the user task
  (`app_ethernet.c:191`), although `src/app/README.md:10` says that it runs after the
  network has been set up.
- A body of exactly `MAX_BLOCK1_SIZE` bytes is refused with 4.13 (`block1.c:110` compares with
  ">="). A message that was repeated and overtaken, together with a failing malloc, leads to a copy to
  or from the null pointer (`NeverCopiesNull` excludes overtaking). A last block that is repeated hands the body
  on a second time.
- `nextUpdate` keeps a client known while `Delay + Lag` is less than what it leaves of the lifetime; the
  exchange itself is covered only while `OpenFor` fits in as well. With the constants of `er-coap-13.h` and no 4.01
  answers, and memory for it, a request is over after 78 s of the 93. Update commands can make a client
  wait for longer (`PendingIsKnown` is about clients without), and with a lifetime of 93 s or less
  it can be dropped while its update is repeated; then the answer is 4.04 and its registration fails.
- In no model: the monitoring callback of a server does not find the client that leaves in `clientList` (`registration.c:1200`
  and `:1307` take it out before), although `liblwm2m.h:714` says that it is present.
- The main loop hands every packet to the core with the head of the connection list as its
  session (`lwm2m_client_main.c:1058`), whoever sent it; `liblwm2m.h:641` asks for a session that
  identifies the peer.
- A handshake that fails closes the socket of all connections, frees those that follow in the
  list and leaves the list pointing at one of them; a later `lwm2m_buffer_send` over a session that the core still
  holds uses freed memory. `ListIsLive` and `HeldIsOwn` are therefore about an open socket.
- When `TLSSession` fails before it sets `session->net.fd` (`easy_tls.c:315-331`: no memory, or `tls_set_default`) for the first
  connection, nothing closes the socket, and `connP` is left at the connection that `connection_free` has freed
  (`lwm2m_client_main.c:337`, `:344`): the next packet makes `connection_read` read it, and the next connection is put
  before it. What the core holds is not affected (`HeldIsOwn`). `ListIsLive` and `LoopReadsLive` leave this out by
  `early`; without it TLC shows the read. In the second case `TLSSession_free` closes whatever descriptor the
  uninitialized member happens to name; the model has it close nothing, or, as in `HandshakeFailure`, the socket.
- `lwm2m_close_connection` reads the `session` of the connection that it has just freed (`lwm2m_client_main.c:383`). The model
  takes it to be what it was.
- When `dhcp_start` fails (`dhcp.c:724-772`) the client is off and has not tried, and `DHCP_thread`, which ignores the
  result (`app_ethernet.c:166`), waits for an address for ever, with neither the user task nor the static address. Without
  memory for the client itself, `dhcp->tries` is read through NULL, and what is there decides. `WaitEnds` is about a client that has started.
- A server may take back a lease whose timers go on. The client then discovers anew, and when such a timer finds it in the
  state requesting it becomes one that renews, for which `dhcp_supplied_address` says yes, without an address. If
  `DHCP_thread` had not seen the lease, since it was that short, it starts the user task there. `StartsWithLease` says that this is the only
  case.
- `observe_cancel` with the option 1 takes the first entry whose head watcher is the sender's, whatever
  the resource; behind the head it compares sessions the wrong way round (`observe.c:242`), so that a server
  whose watcher is not at the head cannot end its observation with a reset, and that a cancellation or a reset of a server
  ends the observation of another one when that is behind a head and its last message has the same id: 0 before it was
  ever notified, 65535 for a cancellation, or one of an earlier cycle of ids. `OthersKept` says that nothing else is lost. Attributes are only
  taken away once there are some (`observe.c:324`); a maximal period alone holds changes back until it ends;
  the end of a minimal period notifies whatever the thresholds say. `ToldInTime` states what is left.

## 5. Proofs

`TransactionProofs` proves for every set of message ids and sessions and every value of
the protocol constants that satisfies `ConstantsAssumption`:

- `TypeCorrect`: `Spec => []TypeOK`.
- `CallbackOnce`, `SendsBound`, `TimeoutIsEarned`: `AnsweredOnce`, `SendsBounded` and
  `TimeoutEarned` are invariants.
- `Refinement`: `Spec => Abstract!Spec`, the engine implements `Exchange`.

- `BackoffHolds`: `BackoffRespected` is an invariant, if there are at most five retransmissions
  (`FewRetries`; `COAP_MAX_RETRANSMIT` is 4).
- `OverBeforeWait`: `OverInTime` is an invariant, if `TRANSMIT_WAIT` covers what failing allocations, the schedule, the
  4.01 answers and the lag of the loop add up to (`WaitIsEnough`).

None of the invariants is inductive: that a request is sent at most
`MAX_RETRANSMIT + 1` times follows from `retrans_counter` only if the counter tells how often
it was sent, and that a refused request was never sent needs the fact that a
transaction without a buffer was not sent. `Sound` adds these facts for one
transaction, and `IInv` is `TypeOK` with `Sound` of every transaction. The lemmas show that
`Send` and `Finish` keep `Sound`; the step lemma then has one case per action.
For the refinement, `IInv` gives that a listed transaction has no outcome yet, so that an
action moves `phase` only from "open", or from "idle" in `New`.

The two theorems about time share one lemma, `StepMoves`: a step ends a transaction, sends it,
takes an acknowledgement or a 4.01 for it, makes it, or lets a second pass, and says where the timer
goes. `Early` then bounds the timer from below: it runs out no earlier than the next interval ends,
`RESPONSE_TIMEOUT * (2^k - 1)` after the birth of a request that was sent k times, unless an acknowledgement has
set it. A 4.01 after an acknowledgement makes the engine send again from that earlier time; whether that is
too early depends on how many retransmissions are left, and five is the limit: with six TLC finds a request
that is sent before its time. `Timely` bounds the timer from above, by the failing allocations before the first transmission (`Starving`), the schedule
and what each answer can add (`Extra`); `Late` adds, for a request without a buffer, when the loop is back for it. With 2 s,
4 retransmissions, a lag of 2 s, one failing allocation and one 4.01 the sum is 91 s, and `COAP_MAX_TRANSMIT_WAIT`
is 93; with a second failing allocation it is 94, and nothing is proved; with two 4.01 answers TLC finds a request that outlives it. That powers of two are positive, grow and
double (`PowerFacts`) needs induction, which the provers at hand cannot apply. It is taken from counting subsets
(`FS_SUBSET` of the library), so it rests on the library's statement of that theorem, as the rest does on the other
facts about finite sets.

`DhcpProofs` proves for every limit on the tries and every number of offers:

- `TypeCorrect`: `Spec => []TypeOK`.
- `FallbackFinal`: `Spec => []FallbackHolds`.
- `Starts`: `Spec => StartsWithLease`.

That `Assigned` starts the user task on a lease needs to know that a client which counts as
supplied has an address. It need not: after a NAK the timers of the old lease still
run, and can take the client from requesting to renewing without one. `LeaseInv` says that until the thread has seen an
address this is the only way: a client that is bound, renews or rebinds has the lease, or its timers are those of one that was taken back
(`orphaned`), and timers run only in those states or then. `ThreadInv` says that `started` is 0
until then, and `FallbackInv` that between `dhcp_stop` and the static address no
handler brings the client back.

`ConnectionsProofs` proves for any number of servers and connections `TypeCorrect`, `SessionsOwn` (`HeldIsOwn`),
`ListSafe` (`ListIsLive`) and `ReadsSafe` (`LoopReadsLive`). `HeldIsOwn` is inductive together with the types. A
connection that is freed while it is held must have gone with the socket: a failing handshake closes it, and so
does any other failure of `TLSSession` when the list has a connection with a session (`Front`: over DTLS and an open socket,
all that are allocated have one, and while there are any the head is one of them). The list is the least
set that holds the head and every successor, so that it holds nothing else is what takes an argument: `Linked` says
that no connection follows two others and none is followed by the head. Then what is left after
`connection_free` has unlinked one connection is again the least such set, with no induction along the list.

`EthernetProofs` proves for rings of any size, any number of pbufs and frames, and any senders where it does not say
otherwise:

- Of the receive path, `LoopNeverBusy`. `NeverBusy` alone is not inductive: that the loop finds
  the handle unlocked follows from the interrupt that woke it having unlocked it, and from
  every thread that could lock it being preempted until the loop sleeps again (`LockInv`).
- `CopyIsWhole` (`WholeFrame`) and `HandledInOrder` (`InOrder`). `RxInv` describes the ring by distances from the oldest descriptor
  that the CPU has (`Base`): the CPU has those up to the DMA's position (`RxRing`); they hold frames of one part or
  of two, the last of which may be incomplete (`Parts`); the first `segCount` of them are what
  the loop has looked at (`CountedParts`); and their frames are in the order of their arrival (`Sorted`).
- `WakeupKept` (`NoLostWakeup`). `WakeInv`: when a complete frame lies in the ring and the thread sleeps, or is about to
  since it got no pbuf, the flag is set or the semaphore given, unless memory ran out. It rests on the loop
  leaving nothing behind when it finds no frame (`NoneComplete`), which is where `RxInv` and `LockInv` come in.
- Of the transmit path with one sender, `OneSenderReportsTrue` and `OneSenderInOrder`. What the sender fills is the
  buffer of `TxDesc`, which is its own descriptor from the first copy to the hand-over, and a frame once passed to the DMA stays
  passed until it is on the wire (`TxInv`). What the DMA owns lies between its own position and that of the sender (`Ring`),
  what is before is older (`Ordered`). This holds for an interrupt that unlocks the handle anywhere. The two-sender run shows
  that the assumption of one sender is needed.
- Of both together, `ReceiveRefined` (with `Seen`, that the senders inside
  `HAL_ETH_TransmitFrame` are what the receive path sees) and `TransmitRefined`: the composition implements `EthRx` and
  `EthTx`. `StackNeverBusy`, `StackReceives` and `StackInOrder` carry what was shown of the parts over to the whole.

`LwM2MClientProofs` proves for any servers, any number of requests and strays and any failing mallocs
`AlwaysAwaited` (`PendingHasRequest`), `SessionKept` (`RegisteredHasSession`, types included),
`ListsFollowSecurity` (`ServersCurrent`), and of steps `RegistrationsFresh` (`RegistersAfresh`), `FallsBackLast`
(`FallsBackWhenAllFailed`) and `UsedWhenFinished` (`BootstrapFinished`). `Step` is one action with some
ten calls inside, so the invariant is about the servers and requests as they are between two calls: `Sound(v, q, S)` of
the servers `v`, the requests `q` and the security instances `S`, with one lemma for each call of `lwm2m_step`.
For each server it says: a bootstrap server never has the status of a registration and the other way round;
one that is registered or waits has a session; one that has finished its bootstrap has none; one that is not dirty
stands for an instance as it was read; and whatever it waits for, a request of that kind is on the way on its session
(`Awaited`). `First` says that there are no servers before the first step. The three properties of steps follow
from what each call guarantees of the states before and after it (`Guarantee`).

`ObserveProofs` proves for any servers, resources, values and periods `ListsStaySound` (`ListsSound`),
`ToldBeforeSleep` (`ToldInTime`), `MaxPeriodNeverExceeded` (`MaxPeriodKept`) and `OthersStay` (`OthersKept`). `IInv` has
three parts besides the types. `Shape`: one entry for a resource, one watcher for a server in it, no empty entry; the searches of
the code find what they look for only if that is so. `Fits`: a watcher that is out of date is tagged (`update`), has
the last value its server was told. `Waits`, while the loop
sleeps: the rest of the sleep is at most what is left of every maximal period, and of every minimal one that holds back a change;
that is because `lwm2m_step` takes the minimum over all watchers (`Intervals`). `OthersStay` needs `Shape`: with one watcher for a
server in an entry, and one entry for a resource, taking one watcher out of the lists ends one observation; which one is what `Takes`
compares.

`Block1Proofs` proves for bodies and blocks of any length and any number of messages `TypeCorrect`,
`BodyIsWhole` (whatever is lost, repeated, overtaken or not allocated), `BufferStaysPrefix` (`BufferIsPrefix`) and
`NoNullCopy` (when nothing is overtaken). The invariant has four parts. `SenderInv`: the messages of a transfer
have consecutive ids and numbers, so that an id tells a number. `DataInv`: the buffer holds the first k pieces of one body,
its size is theirs, and once the transfer has been answered with 2.31 it is a prefix of the server's own body whose last piece has the
id `lastmid`. `AnswerInv`: 2.31 is given only to a block that is not the last. `LostInv`: a buffer that was lost keeps
the server where it is, since the size has grown past the block that is repeated. The code compares sizes and not
numbers; that a size determines the number (`SizeTells`) is the arithmetic of the full
pieces and the last one. `Size` sums the pieces of any buffer; that it gives `PrefixSize` for a prefix (`SizeOfPrefix`)
is shown by the least piece where it would not (`UpTo`).

`LifetimeProofs` proves for every lifetime, delay, lag and number of requests `TypeCorrect`; `RegisteredKnown`,
if `Delay + Lag` is less than the lifetime minus `NextUpdate` (`Margin`); and `PendingKnown`, if that holds with `OpenFor`
added (`WideMargin`). Three invariants are built on each other. `AnswerInv`: a 2.04 that has been under way for
a seconds was given by a server that has at most a seconds less than the lifetime left. So `RegisteredInv`: the clocks
of the two sides differ by one answer, whichever update it answered. `PendingInv`: without commands there is
one update at a time, made no later than `NextUpdate + Lag` after the last answer. The margins are assumptions
of the theorems, not of the module: they are about the network.

With these, every safety invariant and every action property of a passing run is a theorem, and so is the step-wise
part of each refinement. Out of the reach of TLAPS here, and left to TLC: liveness under
fairness (`ImplementsFairExchange`, the leads-to and `[]<>` properties) and ENABLED. The theorems are about the models; what
those leave out is in section 7.

## 6. Plan

Done: the modules of section 2 and the theorems of section 5. What the project would take up next, in this order:

1. `Lifecycle`: the promise of the client to its user (it bootstraps, registers, is
   ready, and falls back), implemented by `LwM2MClient`.
2. The server half of `observe.c` and the client list of `registration.c`: requests whose client, or whose observation,
   goes before they end.
3. The management requests (`management.c`) and the bootstrap server.

## 7. Not modelled

Vendored code (HAL, CMSIS, FreeRTOS, lwIP but for `dhcp.c`, mbedTLS, FatFs, libcoap) is not this
repository's logic. Encodings (`er-coap-13`, `tlv.c`, `json.c`, `coap.c`) are byte-level
parsers; messages are records here. Resource values of objects are data. The standalone
samples are straight-line programs. CoAP over TCP, an option of the POSIX sample, differs
in the encoding and the socket; the models are of UDP and DTLS. The branches for a failing
`lwm2m_gettime` are left out.
`lwm2m_close` and deregistration follow the end of the main loop.
Of the server half of wakaama (`LWM2M_SERVER_MODE`), a sample for testing the client, only the lifetime of a registration is
modelled. In `Lifetime` an update that cannot be allocated is left out: it is tried again at the next step. Of
`observe.c` a watcher that cannot be allocated, thresholds other than `lt`, a value that cannot be read and the
watchers of a server that is deleted are left out. `TLSCtx` and the server half of `TLSSession`, `timing_alt.c` and
`lwm2m_list.c` are short sequential code with nothing to interleave. Setting up the MAC and the PHY is a
sequence of register writes.
