------------------------- MODULE ConnectionsProofs -------------------------
(***************************************************************************)
(* Theorems about Connections, for any number of servers and connections,  *)
(* over UDP and DTLS.                                                      *)
(***************************************************************************)
EXTENDS Connections, TLAPS

\* Unlinking changes nothing of a connection but its successor.
LEMMA UnlinkedKeeps ==
  ASSUME TypeOK, NEW c \in Handles
  PROVE  /\ Unlinked(c) \in [Handles -> [addr : Address, next : Link, session : BOOLEAN]]
         /\ \A d \in Handles : Unlinked(c)[d].addr = conn[d].addr
<1>1. CASE c = head  BY <1>1 DEF Unlinked, TypeOK
<1>2. CASE c # head
  <2> DEFINE Before == {d \in Chain(head) : conn[d].next = c}
  <2>1. Unlinked(c) = [d \in Handles |->
          IF d \in Before /\ Before \subseteq Chain(d)
          THEN [conn[d] EXCEPT !.next = conn[c].next] ELSE conn[d]]
    BY <1>2 DEF Unlinked
  <2> HIDE DEF Before
  <2>2. \A d \in Handles : conn[d] \in [addr : Address, next : Link, session : BOOLEAN]
    BY DEF TypeOK
  <2>3. \A d \in Handles :
          /\ [conn[d] EXCEPT !.next = conn[c].next] \in
               [addr : Address, next : Link, session : BOOLEAN]
          /\ [conn[d] EXCEPT !.next = conn[c].next].addr = conn[d].addr
    BY <2>2
  <2>4. \A d \in Handles :
          /\ Unlinked(c)[d] \in [addr : Address, next : Link, session : BOOLEAN]
          /\ Unlinked(c)[d].addr = conn[d].addr
    <3> TAKE d \in Handles
    <3>1. CASE d \in Before /\ Before \subseteq Chain(d)  BY <2>1, <2>3, <3>1
    <3>2. CASE ~(d \in Before /\ Before \subseteq Chain(d))  BY <2>1, <2>2, <3>2
    <3> QED  BY <3>1, <3>2
  <2> QED  BY <2>1, <2>4
<1> QED  BY <1>1, <1>2

\* What connection_free leaves is well typed.
LEMMA FreedTyped ==
  ASSUME TypeOK, NEW s \in Servers, NEW c \in Handles, FreeAll(s, c)
  PROVE  /\ conn' \in [Handles -> [addr : Address, next : Link, session : BOOLEAN]]
         /\ head' \in Link /\ live' \subseteq Handles
         /\ run' \in {"up", "send", "read", "free"}
<1>1. \A d \in Handles : conn[d] \in [addr : Address, next : Link, session : BOOLEAN]
  BY DEF TypeOK
<1>2. [addr |-> s, next |-> head, session |-> FALSE] \in
        [addr : Address, next : Link, session : BOOLEAN]
  BY DEF TypeOK, Address
<1>3. \A d \in Handles :
        [conn[d] EXCEPT !.session = FALSE] \in [addr : Address, next : Link, session : BOOLEAN]
  BY <1>1
<1>4. conn' = [d \in Handles |->
               CASE d = c                    -> [addr |-> s, next |-> head, session |-> FALSE]
                 [] d \in Chain(head) \ {c} -> [conn[d] EXCEPT !.session = FALSE]
                 [] OTHER                    -> conn[d]]
  BY DEF FreeAll
<1>5. \A d \in Handles : conn'[d] \in [addr : Address, next : Link, session : BOOLEAN]
  <2> TAKE d \in Handles
  <2>1. CASE d = c  BY <1>2, <1>4, <2>1
  <2>2. CASE d # c /\ d \in Chain(head)  BY <1>3, <1>4, <2>2
  <2>3. CASE d # c /\ d \notin Chain(head)  BY <1>1, <1>4, <2>3
  <2> QED  BY <2>1, <2>2, <2>3
<1>6. conn' \in [Handles -> [addr : Address, next : Link, session : BOOLEAN]]
  BY <1>4, <1>5
<1>7. /\ head' = c /\ live' = live \ Chain(head)
      /\ run' = run \/ run' = "free"
  BY DEF FreeAll
<1> QED  BY <1>6, <1>7 DEF TypeOK, Link

\* Every step keeps the types.
LEMMA TypeStep == TypeOK /\ [Next]_vars => TypeOK'
<1> SUFFICES ASSUME TypeOK, [Next]_vars PROVE TypeOK'
  OBVIOUS
<1>1. ASSUME NEW s \in Servers, Connect(s) PROVE TypeOK'
  <2>1. PICK c \in Handles \ live : Enlist(s, c, secure) /\ held' = [held EXCEPT ![s] = c]
    BY <1>1 DEF Connect
  <2>2. [addr |-> s, next |-> head, session |-> secure] \in
          [addr : Address, next : Link, session : BOOLEAN]
    BY ConstantsAssumption DEF TypeOK, Address
  <2>3. conn' \in [Handles -> [addr : Address, next : Link, session : BOOLEAN]]
    BY <2>1, <2>2 DEF Enlist, TypeOK
  <2> QED  BY <1>1, <2>1, <2>3 DEF Connect, Enlist, TypeOK, Address, Link
<1>2. ASSUME NEW s \in Servers, HandshakeFailure(s) \/ SetupFailure(s) PROVE TypeOK'
  <2>1. PICK c \in Handles : FreeAll(s, c)
    BY <1>2 DEF HandshakeFailure, SetupFailure
  <2>2. open' \in BOOLEAN /\ early' \in BOOLEAN
    BY <1>2 DEF HandshakeFailure, SetupFailure, TypeOK
  <2> QED  BY <1>2, <2>1, <2>2, FreedTyped DEF HandshakeFailure, SetupFailure, TypeOK
<1>3. ASSUME NEW s \in Servers, Close(s) PROVE TypeOK'
  <2>1. held[s] \in Handles  BY <1>3 DEF Close, TypeOK, Link
  <2>2. conn[held[s]].next \in Link /\ conn[held[s]].session \in BOOLEAN
    BY <2>1 DEF TypeOK
  <2>3. conn' \in [Handles -> [addr : Address, next : Link, session : BOOLEAN]]
    BY <1>3, <2>1, UnlinkedKeeps DEF Close
  <2>4. open' \in BOOLEAN  BY <1>3 DEF Close
  <2>5. run' \in {"up", "send", "read", "free"}  BY <1>3 DEF Close, TypeOK
  <2> QED  BY <1>3, <2>2, <2>3, <2>4, <2>5 DEF Close, TypeOK, Link
<1>4. ASSUME NEW s \in Servers, DeleteServer(s) PROVE TypeOK'
  BY <1>4 DEF TypeOK, DeleteServer, Link
<1>5. CASE Receive  BY <1>5 DEF TypeOK, Receive
<1>6. ASSUME NEW s \in Servers, Send(s) PROVE TypeOK'
  BY <1>6 DEF TypeOK, Send
<1>7. CASE UNCHANGED vars  BY <1>7 DEF vars, TypeOK
<1> QED  BY <1>1, <1>2, <1>3, <1>4, <1>5, <1>6, <1>7 DEF Next

\* The state of the sample client is well typed.
THEOREM TypeCorrect == Spec => []TypeOK
<1>1. Init => TypeOK
  <2> SUFFICES ASSUME Init PROVE TypeOK
    OBVIOUS
  <2>1. conn \in [Handles -> [addr : Address, next : Link, session : BOOLEAN]]
    BY DEF Init, Address, Link
  <2> QED  BY <2>1 DEF Init, TypeOK, Link
<1> QED  BY <1>1, TypeStep, PTL DEF Spec

\* Over DTLS every connection has its TLS session, and while there are any the head is one:
\* a TLS session that fails with the socket left open was made when there was none.
Front ==
  secure /\ open =>
    /\ \A d \in live : conn[d].session
    /\ (live # {} => head \in live)

SessionInv == TypeOK /\ HeldIsOwn /\ Front

\* A connection is one of those from it on.
LEMMA SelfInChain == ASSUME NEW c \in Handles PROVE c \in Chain(c)
BY ConstantsAssumption DEF Chain

\* A connection that is new was not in use, and one that is closed was in use for its
\* own server only; a failing handshake closes the socket for all, and so does a session
\* that fails earlier, by the sessions it takes with it.
LEMMA HeldStep == SessionInv /\ [Next]_vars => HeldIsOwn' /\ Front'
<1> SUFFICES ASSUME SessionInv, [Next]_vars PROVE HeldIsOwn' /\ Front'
  OBVIOUS
<1> USE DEF SessionInv
<1>1. ASSUME NEW s \in Servers, Connect(s) PROVE HeldIsOwn' /\ Front'
  <2>1. PICK c \in Handles \ live : Enlist(s, c, secure) /\ held' = [held EXCEPT ![s] = c]
    BY <1>1 DEF Connect
  <2>2. open  BY <1>1 DEF Connect
  <2>3. ASSUME NEW t \in Servers, held'[t] # Null
        PROVE  held'[t] \in live' /\ conn'[held'[t]].addr = t
    <3>1. CASE t = s  BY <2>1, <3>1 DEF Enlist, TypeOK
    <3>2. CASE t # s
      <4>1. held'[t] = held[t] /\ held[t] \in live /\ held[t] # c /\ conn[held[t]].addr = t
        BY <2>1, <2>2, <2>3, <3>2 DEF HeldIsOwn, TypeOK
      <4> QED  BY <2>1, <4>1 DEF Enlist, TypeOK
    <3> QED  BY <3>1, <3>2
  <2>4. Front'
    <3>1. live' = live \union {c} /\ head' = c /\ secure' = secure
      BY <1>1, <2>1 DEF Connect, Enlist
    <3>2. conn'[c].session = secure /\ \A d \in live : conn'[d] = conn[d]
      BY <2>1 DEF Enlist, TypeOK
    <3> QED  BY <2>2, <3>1, <3>2 DEF Front
  <2> QED  BY <2>3, <2>4 DEF HeldIsOwn
<1>2. ASSUME NEW s \in Servers, HandshakeFailure(s) PROVE HeldIsOwn' /\ Front'
  BY <1>2 DEF HandshakeFailure, HeldIsOwn, Front
<1>3. ASSUME NEW s \in Servers, SetupFailure(s) PROVE HeldIsOwn' /\ Front'
  <2> SUFFICES ASSUME open' PROVE HeldIsOwn' /\ Front'
    BY DEF HeldIsOwn, Front
  <2>1. open /\ secure /\ held' = held /\ \A d \in Chain(head) : ~conn[d].session
    BY <1>3 DEF SetupFailure
  <2>2. live = {}
    <3>1. SUFFICES ASSUME live # {} PROVE FALSE
      OBVIOUS
    <3>2. head \in live /\ conn[head].session  BY <2>1, <3>1, Zenon DEF Front
    <3>4. head \in Handles  BY <3>2 DEF TypeOK
    <3>3. head \in Chain(head)  BY <3>4, SelfInChain
    <3> QED  BY <2>1, <3>2, <3>3, Zenon
  <2>3. live' = {}  BY <1>3, <2>2 DEF SetupFailure, FreeAll
  <2>4. \A t \in Servers : held'[t] = Null  BY <2>1, <2>2 DEF HeldIsOwn
  <2> QED  BY <2>3, <2>4 DEF HeldIsOwn, Front
<1>4. ASSUME NEW s \in Servers, Close(s) PROVE HeldIsOwn' /\ Front'
  <2> SUFFICES ASSUME open' PROVE HeldIsOwn' /\ Front'
    BY DEF HeldIsOwn, Front
  <2>1. held[s] \in Handles  BY <1>4 DEF Close, TypeOK, Link
  <2>2. open /\ ~conn[held[s]].session  BY <1>4 DEF Close
  <2>3. held[s] \in live /\ conn[held[s]].addr = s
    BY <1>4, <2>2 DEF HeldIsOwn, Close
  <2>4. Front'
    <3>1. ~secure  BY <2>2, <2>3, Zenon DEF Front
    <3>2. secure' = secure  BY <1>4 DEF Close
    <3> QED  BY <3>1, <3>2 DEF Front
  <2>5. ASSUME NEW t \in Servers, held'[t] # Null
        PROVE  held'[t] \in live' /\ conn'[held'[t]].addr = t
    <3>1. t # s /\ held'[t] = held[t]  BY <1>4, <2>5 DEF Close, TypeOK
    <3>2. held[t] \in live /\ conn[held[t]].addr = t  BY <2>2, <2>5, <3>1 DEF HeldIsOwn
    <3>3. held[t] # held[s]  BY <2>3, <3>1, <3>2
    <3>4. held[t] \in Handles  BY <3>2 DEF TypeOK
    <3>5. conn'[held[t]].addr = t  BY <1>4, <2>1, <3>2, <3>4, UnlinkedKeeps DEF Close
    <3>6. held[t] \in live'  BY <1>4, <3>2, <3>3 DEF Close
    <3> QED  BY <3>1, <3>5, <3>6
  <2> QED  BY <2>4, <2>5 DEF HeldIsOwn
<1>5. ASSUME NEW s \in Servers, DeleteServer(s) PROVE HeldIsOwn' /\ Front'
  BY <1>5 DEF HeldIsOwn, Front, DeleteServer, TypeOK
<1>6. CASE Receive  BY <1>6 DEF HeldIsOwn, Front, Receive
<1>7. ASSUME NEW s \in Servers, Send(s) PROVE HeldIsOwn' /\ Front'
  BY <1>7 DEF HeldIsOwn, Front, Send
<1>8. CASE UNCHANGED vars  BY <1>8 DEF vars, HeldIsOwn, Front
<1> QED  BY <1>1, <1>2, <1>3, <1>4, <1>5, <1>6, <1>7, <1>8 DEF Next

\* The invariant holds.
LEMMA SessionsCorrect == Spec => []SessionInv
<1>1. Init => HeldIsOwn /\ Front  BY DEF Init, HeldIsOwn, Front
<1>2. TypeOK /\ HeldIsOwn /\ Front /\ [Next]_vars => HeldIsOwn' /\ Front'
  BY HeldStep DEF SessionInv
<1> QED  BY <1>1, <1>2, TypeCorrect, PTL DEF Spec, SessionInv

\* As long as the socket is open, every session the core uses is an allocated connection
\* to the server it belongs to, and to no other, whichever TLS sessions fail and where.
THEOREM SessionsOwn == Spec => []HeldIsOwn
<1>1. SessionInv => HeldIsOwn  BY DEF SessionInv
<1> QED  BY <1>1, SessionsCorrect, PTL

-----------------------------------------------------------------------------
(* The list. A set that holds c and what follows its members holds Chain(c),  *)
(* by definition; that live is the least such set needs more: no connection   *)
(* of the list follows two others, and none is followed by the head.          *)

Closed(c, S) == {c} \union {conn[e].next : e \in S} \subseteq S \union {Null}

Linked ==
  open /\ ~early =>
    /\ ListIsLive
    /\ Closed(head, live)
    /\ \A d, e \in live : conn[d].next = conn[e].next /\ conn[d].next # Null => d = e
    /\ \A d \in live : conn[d].next # head

ListInv == SessionInv /\ Linked /\ LoopReadsLive

\* Nothing less than live holds the head and what follows.
LEMMA Least ==
  ASSUME TypeOK, Linked, open, ~early, NEW S \in SUBSET Handles, Closed(head, S)
  PROVE  live \subseteq S
BY DEF Linked, ListIsLive, Chain, Closed

\* A new connection comes before the others.
LEMMA ConnectLinked == ASSUME ListInv, NEW s \in Servers, Connect(s) PROVE Linked'
<1> SUFFICES ASSUME ~early' PROVE Linked'
  BY DEF Linked
<1>1. PICK c \in Handles \ live : Enlist(s, c, secure)  BY DEF Connect
<1>2. /\ open /\ ~early /\ open' /\ live' = live \union {c} /\ head' = c
      /\ conn'[c].next = head /\ \A d \in Handles \ {c} : conn'[d] = conn[d]
  BY <1>1 DEF Connect, Enlist, ListInv, SessionInv, TypeOK
<1>3. Closed(head, live) /\ live \subseteq Handles /\ c \in Handles /\ c # Null
  BY <1>1, <1>2, ConstantsAssumption DEF ListInv, SessionInv, Linked, TypeOK
<1>4. Closed(head, live)' BY <1>2, <1>3 DEF Closed
<1>5. ASSUME NEW S \in SUBSET Handles, Closed(head, S)' PROVE live' \subseteq S
  <2>1. Closed(head, S \cap live)  BY <1>1, <1>2, <1>3, <1>5 DEF Closed
  <2>2. live \subseteq S  BY <1>2, <2>1, Least DEF ListInv, SessionInv
  <2> QED  BY <1>2, <1>3, <1>5, <2>2 DEF Closed
<1>6. ListIsLive'
  <2>1. live' \subseteq Handles  BY <1>2, <1>3
  <2> QED  BY <1>4, <1>5, <2>1 DEF ListIsLive, Chain, Closed
<1>7. \A d, e \in live' : conn'[d].next = conn'[e].next /\ conn'[d].next # Null => d = e
  BY <1>1, <1>2, <1>3 DEF ListInv, Linked
<1>8. \A d \in live' : conn'[d].next # head'
  BY <1>1, <1>2, <1>3 DEF Closed
<1> QED  BY <1>4, <1>6, <1>7, <1>8 DEF Linked

\* A connection that is closed leaves the list.
LEMMA CloseLinked == ASSUME ListInv, NEW s \in Servers, Close(s) PROVE Linked'
<1> SUFFICES ASSUME open', ~early' PROVE Linked'
  BY DEF Linked
<1> DEFINE c == held[s]
<1>1. /\ open /\ ~early /\ c # Null /\ c \in live /\ live \subseteq Handles /\ live' = live \ {c}
      /\ head' = (IF c = head THEN conn[c].next ELSE head) /\ conn' = Unlinked(c)
  <2>1. open /\ ~early  BY DEF Close
  <2>2. c # Null /\ c \in live /\ live \subseteq Handles /\ Chain(head) = live
    BY <2>1 DEF Close, ListInv, SessionInv, HeldIsOwn, TypeOK, Linked, ListIsLive
  <2> QED  BY <2>1, <2>2 DEF Close
<1>2. Chain(head) = live /\ Closed(head, live)
      /\ (\A d, e \in live : conn[d].next = conn[e].next /\ conn[d].next # Null => d = e)
      /\ (\A d \in live : conn[d].next # head)
  BY <1>1 DEF ListInv, Linked, ListIsLive
<1>3. \A d \in live : conn'[d].next = IF c # head /\ conn[d].next = c THEN conn[c].next
                                      ELSE conn[d].next
  <2>1. CASE c = head  BY <1>1, <2>1 DEF Unlinked
  <2>2. CASE c # head
    <3> DEFINE Before == {d \in Chain(head) : conn[d].next = c}
    <3>1. \A d \in live : conn'[d] = IF d \in Before /\ Before \subseteq Chain(d)
                                    THEN [conn[d] EXCEPT !.next = conn[c].next] ELSE conn[d]
      BY <1>1, <2>2 DEF Unlinked
    <3>2. \A d \in Before : d \in Chain(d)  BY <1>1, <1>2, SelfInChain
    <3>3. \A d \in Before : Before = {d}  BY <1>1, <1>2
    <3>4. \A d \in live : d \in Before <=> conn[d].next = c  BY <1>2
    <3> HIDE DEF Before
    <3>5. \A d \in live : conn[d] \in [addr : Address, next : Link, session : BOOLEAN]
      BY <1>1 DEF ListInv, SessionInv, TypeOK
    <3>6. \A d \in live : conn'[d] = IF d \in Before
                                    THEN [conn[d] EXCEPT !.next = conn[c].next] ELSE conn[d]
      BY <3>1, <3>2, <3>3
    <3>7. \A d \in live : [conn[d] EXCEPT !.next = conn[c].next].next = conn[c].next
      BY <3>5
    <3> QED  BY <2>2, <3>4, <3>6, <3>7
  <2> QED  BY <2>1, <2>2
\* It does not follow itself: the rest would hold the head and what follows.
<1>4. conn[c].next # c
  <2>1. SUFFICES ASSUME conn[c].next = c PROVE FALSE
    OBVIOUS
  <2>2. Closed(head, live \ {c})  BY <1>1, <1>2, <2>1 DEF Closed
  <2> QED  BY <1>1, <2>2, Least DEF ListInv, SessionInv
<1>5. Closed(head, live)'  BY <1>1, <1>2, <1>3, <1>4 DEF Closed
<1>6. ASSUME NEW S \in SUBSET Handles, Closed(head, S)' PROVE live' \subseteq S
  <2>1. CASE c = head \/ \E d \in S \cap live' : conn[d].next = c
    <3>1. Closed(head, (S \cap live') \union {c})
      BY <1>1, <1>2, <1>3, <1>6, <2>1 DEF Closed
    <3>2. live \subseteq (S \cap live') \union {c}  BY <1>1, <3>1, Least DEF ListInv, SessionInv
    <3> QED  BY <1>1, <3>2
  <2>2. CASE c # head /\ \A d \in S \cap live' : conn[d].next # c
    <3>1. Closed(head, S \cap live')  BY <1>1, <1>2, <1>3, <1>6, <2>2 DEF Closed
    <3>2. live \subseteq S \cap live'  BY <1>1, <3>1, Least DEF ListInv, SessionInv
    <3> QED  BY <1>1, <3>2
  <2> QED  BY <2>1, <2>2
<1>7. ListIsLive'
  <2>1. live' \subseteq Handles  BY <1>1
  <2> QED  BY <1>5, <1>6, <2>1 DEF ListIsLive, Chain, Closed
<1>8. \A d, e \in live' : conn'[d].next = conn'[e].next /\ conn'[d].next # Null => d = e
  BY <1>1, <1>2, <1>3
<1>9. \A d \in live' : conn'[d].next # head'
  <2>1. CASE head' = Null
    <3>1. Closed(head, {})'  BY <2>1 DEF Closed
    <3> QED  BY <1>6, <3>1
  <2>2. CASE head' # Null  BY <1>1, <1>2, <1>3, <2>2
  <2> QED  BY <2>1, <2>2
<1> QED  BY <1>5, <1>7, <1>8, <1>9 DEF Linked

\* Every step keeps the list linked, and the loop off freed connections.
LEMMA ListStep == ListInv /\ [Next]_vars => Linked' /\ LoopReadsLive'
<1> SUFFICES ASSUME ListInv, [Next]_vars PROVE Linked' /\ LoopReadsLive'
  OBVIOUS
<1>1. ASSUME NEW s \in Servers, Connect(s) PROVE Linked' /\ LoopReadsLive'
  BY <1>1, ConnectLinked DEF ListInv, LoopReadsLive, Connect
<1>2. ASSUME NEW s \in Servers, Close(s) PROVE Linked' /\ LoopReadsLive'
  BY <1>2, CloseLinked DEF ListInv, LoopReadsLive, Close
<1>3. ASSUME NEW s \in Servers, HandshakeFailure(s) \/ SetupFailure(s)
      PROVE  Linked' /\ LoopReadsLive'
  <2>1. run' # "read"  BY <1>3 DEF HandshakeFailure, SetupFailure, FreeAll
  <2>2. open' => early'  BY <1>3 DEF HandshakeFailure, SetupFailure
  <2> QED  BY <2>1, <2>2 DEF Linked, LoopReadsLive
<1>4. CASE UNCHANGED <<live, conn, head, open, early>> /\ LoopReadsLive'
  BY <1>4 DEF ListInv, Linked, ListIsLive, Chain, Closed
<1>5. ASSUME NEW s \in Servers, DeleteServer(s) \/ Send(s) PROVE Linked' /\ LoopReadsLive'
  BY <1>4, <1>5 DEF DeleteServer, Send, ListInv, LoopReadsLive
<1>6. CASE Receive
  <2>1. ~early => head \in live  BY <1>6 DEF Receive, ListInv, Linked, Closed
  <2> QED  BY <1>4, <1>6, <2>1 DEF Receive, ListInv, LoopReadsLive
<1>7. CASE UNCHANGED vars  BY <1>4, <1>7 DEF vars, ListInv, LoopReadsLive
<1> QED  BY <1>1, <1>2, <1>3, <1>5, <1>6, <1>7 DEF Next

\* The invariant holds.
LEMMA ListCorrect == Spec => []ListInv
<1>1. Init => Linked /\ LoopReadsLive
  <2> SUFFICES ASSUME Init PROVE Linked /\ LoopReadsLive
    OBVIOUS
  <2>1. live = {} /\ head = Null /\ run = "up"  BY DEF Init
  <2>2. Closed(head, {})  BY <2>1 DEF Closed
  <2>3. \A d \in Handles : d \notin Chain(head)
    BY <2>2, {} \in SUBSET Handles DEF Chain, Closed
  <2>4. Chain(head) = {}  BY <2>3 DEF Chain
  <2> QED  BY <2>1, <2>2, <2>4 DEF Linked, ListIsLive, LoopReadsLive
<1>2. SessionInv /\ Linked /\ LoopReadsLive /\ [Next]_vars => Linked' /\ LoopReadsLive'
  BY ListStep DEF ListInv
<1> QED  BY <1>1, <1>2, SessionsCorrect, PTL DEF Spec, ListInv

\* As long as the socket is open and no TLS session has failed before it had its descriptor,
\* the list holds the connections that are allocated, all of them and nothing else, whatever
\* is connected and closed in whichever order.
THEOREM ListSafe == Spec => []ListIsLive
<1>1. ListInv => ListIsLive  BY DEF ListInv, Linked, ListIsLive
<1> QED  BY <1>1, ListCorrect, PTL

\* The main loop reads over a freed connection only after a TLS session has failed before it
\* had its descriptor.
THEOREM ReadsSafe == Spec => []LoopReadsLive
<1>1. ListInv => LoopReadsLive  BY DEF ListInv
<1> QED  BY <1>1, ListCorrect, PTL
=============================================================================
