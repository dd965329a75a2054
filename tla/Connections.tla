---------------------------- MODULE Connections ----------------------------
(***************************************************************************)
(* The connection list of the sample client, and the one socket that all   *)
(* its connections share (src/samples/posix/lwm2m/client: lwm2m_client_    *)
(* main.c, lwm2m_connection.c), with the life of a TLS session             *)
(* (src/app/lwm2m/easy_tls.c), as lwm2m_step and the main loop drive them. *)
(***************************************************************************)

CONSTANTS
  Servers,         \* security instances, each with its address
  Handles,         \* blocks that malloc may return for a connection_t
  Null

ASSUME ConstantsAssumption == Null \notin Handles \union Servers

VARIABLES
  secure,   \* g_proto is coaps: connections have a TLS session
  live,     \* the connections that are allocated
  conn,     \* their members, and those that freed memory still holds
  head,     \* dataP->connP
  open,     \* data.sock is open
  held,     \* server->sessionH of each server structure
  run,      \* "up", or what it has crashed in: "send", "read", "free"
  early     \* history: a TLS session failed before it had its descriptor, and the socket
            \* stayed open

vars == <<secure, live, conn, head, open, held, run, early>>

Address == Servers \union {Null}
Link == Handles \union {Null}

TypeOK ==
  /\ secure \in BOOLEAN
  /\ live \subseteq Handles
  /\ conn \in [Handles -> [addr : Address, next : Link, session : BOOLEAN]]
  /\ head \in Link
  /\ open \in BOOLEAN
  /\ held \in [Servers -> Link]
  /\ run \in {"up", "send", "read", "free"}
  /\ early \in BOOLEAN

Init ==
  /\ secure \in BOOLEAN
  /\ live = {}
  /\ conn = [c \in Handles |-> [addr |-> Null, next |-> Null, session |-> FALSE]]
  /\ head = Null /\ open = TRUE
  /\ held = [s \in Servers |-> Null]
  /\ run = "up" /\ early = FALSE

\* The connections from c on, whether they are allocated or not: what is in every set that
\* holds c and is closed under next.
Chain(c) ==
  {d \in Handles : \A S \in SUBSET Handles :
     {c} \union {conn[e].next : e \in S} \subseteq S \union {Null} => d \in S}

-----------------------------------------------------------------------------
(* lwm2m_connect_server                                                    *)

Enlist(s, c, session) ==
  /\ live' = live \union {c}
  /\ conn' = [conn EXCEPT ![c] = [addr |-> s, next |-> head, session |-> session]]
  /\ head' = c

\* The connection is put before the others, and the socket is connected anew.
Connect(s) ==
  /\ run = "up" /\ held[s] = Null /\ open
  /\ \E c \in Handles \ live : Enlist(s, c, secure) /\ held' = [held EXCEPT ![s] = c]
  /\ UNCHANGED <<secure, open, run, early>>

\* connection_free of the new connection c: it goes with all that follow it, and so do
\* their TLS sessions. connP is left at c. What has gone already, or a list that comes back
\* to itself, is freed twice.
FreeAll(s, c) ==
  /\ conn' = [d \in Handles |->
               CASE d = c                    -> [addr |-> s, next |-> head, session |-> FALSE]
                 [] d \in Chain(head) \ {c} -> [conn[d] EXCEPT !.session = FALSE]
                 [] OTHER                    -> conn[d]]
  /\ head' = c
  /\ live' = live \ Chain(head)
  /\ run' = IF /\ Chain(head) \subseteq live
               /\ head # Null => \E d \in Chain(head) : conn[d].next = Null
            THEN run ELSE "free"

\* TLSSession may fail in two ways. Mutant: the descriptor stays open.
HandshakeFailureKeepsSocket(s) ==
  /\ secure
  /\ run = "up" /\ held[s] = Null /\ open
  /\ \E c \in Handles \ live : FreeAll(s, c)
  /\ UNCHANGED <<secure, open, held, early>>

\* The handshake fails: TLSSession_free closes its descriptor, which is that of the socket.
HandshakeFailure(s) ==
  /\ secure
  /\ run = "up" /\ held[s] = Null /\ open
  /\ \E c \in Handles \ live : FreeAll(s, c)
  /\ open' = FALSE
  /\ UNCHANGED <<secure, held, early>>

\* malloc fails, or tls_set_default does before the session has its descriptor: the socket
\* is closed only with the sessions of the connections that follow. (TLSSession_free then
\* closes an uninitialized descriptor. Should that be the socket, it is as above.)
SetupFailure(s) ==
  /\ secure
  /\ run = "up" /\ held[s] = Null /\ open
  /\ \E c \in Handles \ live : FreeAll(s, c)
  /\ open' = (\A d \in Chain(head) : ~conn[d].session)
  /\ early' = (early \/ open')
  /\ UNCHANGED <<secure, held>>

-----------------------------------------------------------------------------
(* lwm2m_close_connection                                                  *)

\* The first connection of the list that c follows is now followed by what follows c.
Unlinked(c) ==
  LET Before == {d \in Chain(head) : conn[d].next = c} IN
  IF c = head THEN conn
  ELSE [d \in Handles |-> IF d \in Before /\ Before \subseteq Chain(d)
                          THEN [conn[d] EXCEPT !.next = conn[c].next] ELSE conn[d]]

\* Mutant: the connection stays in the list.
CloseKeepsLink(s) ==
  LET c == held[s] IN
  /\ run = "up" /\ c # Null
  /\ head' = IF c = head THEN conn[c].next ELSE head
  /\ live' = live \ {c}
  /\ open' = (open /\ ~conn[c].session)
  /\ held' = [held EXCEPT ![s] = Null]
  /\ UNCHANGED <<secure, conn, run, early>>

\* Mutant: it is always the head that is freed.
CloseHead(s) ==
  LET c == held[s] IN
  /\ run = "up" /\ c # Null
  /\ head' = conn[head].next
  /\ live' = live \ {head}
  /\ open' = (open /\ ~conn[c].session)
  /\ held' = [held EXCEPT ![s] = Null]
  /\ UNCHANGED <<secure, conn, run, early>>

\* Only what is in the list is freed. targetP->session is read when targetP has been freed:
\* the model takes it to be what it was, there being no other thread. If it was set, the TLS
\* session is freed, which closes its descriptor: the socket.
Close(s) ==
  LET c == held[s] IN
  /\ run = "up" /\ c # Null
  /\ head' = IF c = head THEN conn[c].next ELSE head
  /\ conn' = Unlinked(c)
  /\ live' = live \ ({c} \cap Chain(head))
  /\ run' = IF c \in Chain(head) \ live THEN "free" ELSE run
  /\ open' = (open /\ ~conn[c].session)
  /\ held' = [held EXCEPT ![s] = Null]
  /\ UNCHANGED <<secure, early>>

\* prv_deleteServer forgets the session.
DeleteServer(s) ==
  /\ run = "up" /\ held[s] # Null
  /\ held' = [held EXCEPT ![s] = Null]
  /\ UNCHANGED <<secure, live, conn, head, open, run, early>>

-----------------------------------------------------------------------------
(* The socket and the main loop                                            *)

\* connection_read: over DTLS the session of the head of the list is read, whose packet it
\* may be. Packets come when a connection has been made.
Receive ==
  /\ run = "up" /\ open /\ head # Null
  /\ run' = IF secure /\ head \notin live THEN "read" ELSE run
  /\ UNCHANGED <<secure, live, conn, head, open, held, early>>

\* lwm2m_buffer_send. connection_free has cleared the session of what it has freed.
Send(s) ==
  /\ run = "up" /\ held[s] # Null
  /\ run' = IF secure /\ held[s] \notin live THEN "send" ELSE run
  /\ UNCHANGED <<secure, live, conn, head, open, held, early>>

Next ==
  \/ \E s \in Servers :
       \/ Connect(s) \/ HandshakeFailure(s) \/ SetupFailure(s)
       \/ Close(s) \/ DeleteServer(s)
       \/ Send(s)
  \/ Receive

Spec == Init /\ [][Next]_vars

-----------------------------------------------------------------------------
(* Properties                                                              *)

\* As long as the socket is open and no TLS session has failed before it had its descriptor,
\* the list holds what is allocated, neither more (a dangling link) nor less (a leak).
ListIsLive == open /\ ~early => Chain(head) = live

\* As long as the socket is open, a session that the core uses is a connection to that
\* server, also when a TLS session has failed half way.
HeldIsOwn ==
  open => \A s \in Servers : held[s] # Null => held[s] \in live /\ conn[held[s]].addr = s

\* The main loop reads over a connection that has been freed only when a TLS session failed
\* before it had its descriptor: a handshake that fails leaves one at the head of the list
\* too, but takes the socket with it.
LoopReadsLive == run = "read" => early
=============================================================================
