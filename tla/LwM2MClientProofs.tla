------------------------- MODULE LwM2MClientProofs -------------------------
(***************************************************************************)
(* Theorems about LwM2MClient, for any set of servers, any number of       *)
(* outstanding requests and any failing mallocs: what every pass through   *)
(* lwm2m_step and every packet or command between two passes keeps of the  *)
(* servers, their registrations and their sessions.                        *)
(***************************************************************************)
EXTENDS LwM2MClient, TLAPS

\* The places in the life of an LwM2M server, and in that of a bootstrap server.
LStatus == Registered \union {"DEREGISTERED", "REG_PENDING", "REG_FAILED"}
BStatus == Status \ (Registered \union {"REG_PENDING", "REG_FAILED"})

\* A request of this kind is outstanding, on the session of the server.
Awaited(q, s, k) ==
  \E r \in q : r.kind = k /\ r.srv = s /\ ~r.orphan /\ r.via = "own"

\* The inductive invariant, of the servers v and the requests q as lwm2m_step has them at any
\* point between two of its calls. x is server s, S are the security instances there are.
SoundServer(x, s, q, S) ==
  /\ s \in LS => /\ x.status \in LStatus
                 /\ x.status \in Registered \union {"REG_PENDING"} => x.sess
  /\ s \in BS => x.status \in BStatus
  /\ x.status = "BS_FINISHED" => ~x.sess
  /\ x.listed /\ ~x.dirty => s \in S /\ ~x.stale
  /\ \A k \in Kind : x.status = Pending[k] => Awaited(q, s, k)

Sound(v, q, S) == \A s \in Srv : SoundServer(v[s], s, q, S)

\* Before the first step there are no servers.
First ==
  state = "INITIAL" =>
    /\ turn = "step" \/ run # "running"
    /\ \A s \in Srv : srv[s] = Absent

IInv == TypeOK /\ Sound(srv, req, sec) /\ First

-----------------------------------------------------------------------------
(* The requests                                                            *)

\* What is waited for, and what the answers are.
LEMMA KindFacts ==
  /\ Pending["register"] = "REG_PENDING" /\ Pending["update"] = "UPDATE_PENDING"
  /\ Pending["bootstrap"] = "BS_INITIATED"
  /\ Succeeded["register"] = "REGISTERED" /\ Succeeded["update"] = "REGISTERED"
  /\ Succeeded["bootstrap"] = "BS_PENDING"
  /\ Failed["register"] = "REG_FAILED" /\ Failed["update"] = "REG_FAILED"
  /\ Failed["bootstrap"] = "BS_FAILING"
BY DEF Pending, Succeeded, Failed

\* A callback changes the status that waits for it, and no other.
LEMMA CallbackFacts ==
  ASSUME NEW st \in Status, NEW k \in Kind, NEW ok \in BOOLEAN
  PROVE  /\ Callback(st, k, ok) # st <=> st = Pending[k]
         /\ st = Pending[k] => Callback(st, k, ok) \in {Succeeded[k], Failed[k]}
         /\ \A l \in Kind : Callback(st, k, ok) # st => Callback(st, k, ok) # Pending[l]
         /\ Callback(st, k, ok) \in Status
         /\ st \in LStatus => Callback(st, k, ok) \in LStatus
         /\ st \in BStatus => Callback(st, k, ok) \in BStatus
         /\ \A l \in Kind : Pending[k] = Pending[l] => k = l
BY KindFacts DEF Callback, Kind, Status, Registered, LStatus, BStatus

\* A request just made is one of its server.
LEMMA NewFacts ==
  ASSUME NEW q \in SUBSET Request, NEW k \in Kind, NEW s \in Srv, Slots(q, s) # {}
  PROVE  /\ NewRequest(q, k, s) \in Request
         /\ NewRequest(q, k, s).kind = k /\ NewRequest(q, k, s).srv = s
         /\ ~NewRequest(q, k, s).orphan /\ NewRequest(q, k, s).via = "own"
<1> DEFINE n == CHOOSE m \in Slots(q, s) : TRUE
<1>1. n \in Slots(q, s)  OBVIOUS
<1>2. <<s, n>> \in Ids
  <2> HIDE DEF n
  <2>1. n \in 1 .. MaxOutstanding[s]  BY <1>1 DEF Slots
  <2>2. <<s, n>> \in {s} \X (1 .. MaxOutstanding[s])  BY <2>1
  <2> QED  BY <2>2 DEF Ids
<1>3. NewRequest(q, k, s) =
        [id |-> <<s, n>>, kind |-> k, srv |-> s, orphan |-> FALSE, via |-> "own"]
  BY DEF NewRequest
<1> HIDE DEF n
<1> QED  BY <1>2, <1>3 DEF Request

\* Requests of other servers are left alone when sessions are closed or servers freed.
LEMMA ClosingFacts ==
  ASSUME NEW q \in SUBSET Request, NEW S \in SUBSET Srv
  PROVE  /\ Closing(q, S) \in SUBSET Request
         /\ \A s \in Srv \ S, k \in Kind : Awaited(q, s, k) => Awaited(Closing(q, S), s, k)
<1>1. \A r \in q : [r EXCEPT !.via = "closed"] \in Request  BY DEF Request
<1>2. Closing(q, S) \in SUBSET Request  BY <1>1 DEF Closing
<1>3. \A r \in q : r.srv \notin S => r \in Closing(q, S)  BY DEF Closing
<1> QED  BY <1>2, <1>3 DEF Awaited

\* Freeing servers leaves the requests of the others as they are.
LEMMA OrphaningFacts ==
  ASSUME NEW q \in SUBSET Request, NEW S \in SUBSET Srv
  PROVE  /\ Orphaning(q, S) \in SUBSET Request
         /\ \A s \in Srv \ S, k \in Kind : Awaited(q, s, k) => Awaited(Orphaning(q, S), s, k)
<1>1. \A r \in q : [r EXCEPT !.orphan = TRUE, !.via = IF @ = "own" THEN "leaked" ELSE @] \in Request
  BY DEF Request
<1>2. Orphaning(q, S) \in SUBSET Request  BY <1>1 DEF Orphaning
<1>3. \A r \in q : r.srv \notin S => r \in Orphaning(q, S)  BY DEF Orphaning
<1> QED  BY <1>2, <1>3 DEF Awaited

\* A block that is used again has no request that is waited for.
LEMMA ReusingFacts ==
  ASSUME NEW q \in SUBSET Request, NEW S \in SUBSET Srv, NEW f \in Reuses(S, q)
  PROVE  /\ Reusing(q, f) \in SUBSET Request
         /\ \A s \in Srv, k \in Kind : Awaited(q, s, k) => Awaited(Reusing(q, f), s, k)
<1>1. ASSUME NEW r \in q, r.orphan, f[r.srv] # NoServer
      PROVE  [r EXCEPT !.srv = f[r.srv], !.orphan = FALSE] \in Request
  <2>1. r.srv \in Blocks(q)  BY <1>1 DEF Blocks
  <2>2. f[r.srv] \in Srv  BY <1>1, <2>1 DEF Reuses
  <2> QED  BY <2>2 DEF Request
<1>2. Reusing(q, f) \in SUBSET Request  BY <1>1 DEF Reusing
<1>3. \A r \in q : ~r.orphan => r \in Reusing(q, f)  BY DEF Reusing
<1> QED  BY <1>2, <1>3 DEF Awaited

-----------------------------------------------------------------------------
(* The callbacks                                                           *)

\* What callbacks do to server s.
Called(v, R, ok, s) ==
  \/ /\ CallbacksOf(v, R, ok)[s] = v[s]
     /\ \A r \in R : r.srv = s /\ ~r.orphan => v[s].status # Pending[r.kind]
  \/ \E k \in Kind :
       /\ v[s].status = Pending[k]
       /\ CallbacksOf(v, R, ok)[s] = [v[s] EXCEPT !.status = Callback(v[s].status, k, ok)]

\* A server is changed by the callback of a request it waits for; if it is not changed,
\* it waits for none of those.
LEMMA CallbacksFacts ==
  ASSUME NEW v \in [Srv -> Server], NEW R \in SUBSET Request, NEW ok \in BOOLEAN, NEW s \in Srv
  PROVE  Called(v, R, ok, s)
<1> DEFINE kinds == {r.kind : r \in {o \in R : o.srv = s /\ ~o.orphan}}
           taken == {k \in kinds : Callback(v[s].status, k, ok) # v[s].status}
           k == CHOOSE l \in taken : TRUE
<1>1. kinds \subseteq Kind /\ v[s].status \in Status  BY DEF Request, Server
<1>2. CallbacksOf(v, R, ok)[s] =
        IF taken = {} THEN v[s] ELSE [v[s] EXCEPT !.status = Callback(@, k, ok)]
  BY DEF CallbacksOf
<1>3. CASE taken = {}
  <2>1. \A r \in R : r.srv = s /\ ~r.orphan => v[s].status # Pending[r.kind]
    <3> SUFFICES ASSUME NEW r \in R, r.srv = s, ~r.orphan PROVE v[s].status # Pending[r.kind]
      OBVIOUS
    <3>1. r.kind \in kinds  OBVIOUS
    <3>2. Callback(v[s].status, r.kind, ok) = v[s].status  BY <1>3, <3>1
    <3> HIDE DEF kinds
    <3> QED  BY <1>1, <3>1, <3>2, CallbackFacts
  <2> QED  BY <1>2, <1>3, <2>1 DEF Called
<1>4. CASE taken # {}
  <2>1. k \in taken  BY <1>4
  <2>2. k \in kinds /\ Callback(v[s].status, k, ok) # v[s].status  BY <2>1
  <2>3. CallbacksOf(v, R, ok)[s] = [v[s] EXCEPT !.status = Callback(v[s].status, k, ok)]
    BY <1>2, <1>4
  <2> HIDE DEF k, taken, kinds
  <2> QED  BY <1>1, <2>2, <2>3, CallbackFacts DEF Called
<1> QED  BY <1>3, <1>4

\* Requests that end leave no server waiting.
LEMMA CallbacksSound ==
  ASSUME NEW v \in [Srv -> Server], NEW q \in SUBSET Request, NEW S, Sound(v, q, S),
         NEW R \in SUBSET q, NEW ok \in BOOLEAN
  PROVE  /\ CallbacksOf(v, R, ok) \in [Srv -> Server]
         /\ Sound(CallbacksOf(v, R, ok), q \ R, S)
         /\ \A s \in Srv : /\ CallbacksOf(v, R, ok)[s].stale = v[s].stale
                           /\ CallbacksOf(v, R, ok)[s].status = "REG_PENDING" =>
                                v[s].status = "REG_PENDING"
<1> DEFINE u == CallbacksOf(v, R, ok)
<1>0. R \in SUBSET Request  OBVIOUS
<1>1. ASSUME NEW s \in Srv
      PROVE  /\ u[s] \in Server /\ SoundServer(u[s], s, q \ R, S) /\ u[s].stale = v[s].stale
             /\ u[s].status = "REG_PENDING" => v[s].status = "REG_PENDING"
  <2>0. v[s] \in Server /\ SoundServer(v[s], s, q, S)  BY DEF Sound
  <2>1. CASE u[s] = v[s] /\ \A r \in R : r.srv = s /\ ~r.orphan => v[s].status # Pending[r.kind]
    <3>1. \A k \in Kind : v[s].status = Pending[k] => Awaited(q \ R, s, k)
      BY <2>0, <2>1 DEF SoundServer, Awaited
    <3> HIDE DEF u
    <3> QED  BY <2>0, <2>1, <3>1 DEF SoundServer
  <2>2. ASSUME NEW k \in Kind, v[s].status = Pending[k],
               u[s] = [v[s] EXCEPT !.status = Callback(v[s].status, k, ok)]
        PROVE  /\ u[s] \in Server /\ SoundServer(u[s], s, q \ R, S) /\ u[s].stale = v[s].stale
               /\ u[s].status = "REG_PENDING" => v[s].status = "REG_PENDING"
    <3> DEFINE st == Callback(v[s].status, k, ok)
    <3> HIDE DEF u
    <3>1. v[s].status \in Status  BY <2>0 DEF Server
    <3>2. /\ st \in Status /\ st \in {Succeeded[k], Failed[k]}
          /\ \A l \in Kind : st # Pending[l]
          /\ v[s].status \in LStatus => st \in LStatus
          /\ v[s].status \in BStatus => st \in BStatus
      BY <2>2, <3>1, CallbackFacts
    <3>3. /\ u[s].status = st /\ u[s].sess = v[s].sess /\ u[s].listed = v[s].listed
          /\ u[s].dirty = v[s].dirty /\ u[s].stale = v[s].stale /\ u[s] \in Server
      BY <2>0, <2>2, <3>2 DEF Server
    <3>4. st # "REG_PENDING" /\ st # "BS_FINISHED"
          /\ (st \in Registered => v[s].status \in {"REG_PENDING", "UPDATE_PENDING"})
      BY <2>2, <3>2, KindFacts DEF Kind, Registered
    <3> HIDE DEF st
    <3> QED  BY <2>0, <3>2, <3>3, <3>4 DEF SoundServer, Registered
  <2>3. Called(v, R, ok, s)  BY <1>0, CallbacksFacts
  <2>4. \/ u[s] = v[s] /\ \A r \in R : r.srv = s /\ ~r.orphan => v[s].status # Pending[r.kind]
        \/ \E k \in Kind : /\ v[s].status = Pending[k]
                           /\ u[s] = [v[s] EXCEPT !.status = Callback(v[s].status, k, ok)]
    BY <2>3 DEF Called
  <2> HIDE DEF u
  <2> QED  BY <2>1, <2>2, <2>4
<1>2. u \in [Srv -> Server]
  <2>1. u = [s \in Srv |-> u[s]]  BY DEF CallbacksOf
  <2> HIDE DEF u
  <2> QED  BY <1>1, <2>1
<1> QED  BY <1>1, <1>2 DEF Sound

-----------------------------------------------------------------------------
(* The servers in lwm2m_step                                               *)

\* What lwm2m_step carries.
Ctx == [state : State, srv : [Srv -> Server], req : SUBSET Request,
        made : SUBSET Request, error : BOOLEAN]

\* A registration made in this step is one with a current account.
Fresh(v) ==
  \A s \in LS : v[s].status = "REG_PENDING" =>
    srv[s].status = "REG_PENDING" \/ (s \in sec /\ ~v[s].stale)

Good(c) == c \in Ctx /\ Sound(c.srv, c.req, sec) /\ Fresh(c.srv)

\* bootstrap_start leaves the servers sound.
LEMMA BootstrapStartGood ==
  ASSUME NEW c, Good(c), NEW w
  PROVE  Good(BootstrapStart(c, w))
<1> DEFINE v == [s \in Srv |->
                   IF s \in BS /\ c.srv[s].listed
                   THEN [c.srv[s] EXCEPT !.status = "DEREGISTERED", !.sess = @ \/ Connects(s, w)]
                   ELSE c.srv[s]]
<1>1. c \in Ctx /\ Sound(c.srv, c.req, sec) /\ Fresh(c.srv)  BY DEF Good
<1>2. ASSUME NEW s \in Srv
      PROVE  /\ v[s] \in Server /\ SoundServer(v[s], s, c.req, sec)
             /\ s \in LS => v[s] = c.srv[s]
  <2>0. c.srv[s] \in Server /\ SoundServer(c.srv[s], s, c.req, sec)  BY <1>1 DEF Ctx, Sound
  <2>1. CASE s \in BS /\ c.srv[s].listed
    <3> DEFINE x == [c.srv[s] EXCEPT !.status = "DEREGISTERED",
                                     !.sess = c.srv[s].sess \/ Connects(s, w)]
    <3>1. v[s] = x  BY <2>1
    <3>2. Connects(s, w) \in BOOLEAN  BY DEF Connects
    <3>3. /\ x \in Server /\ x.status = "DEREGISTERED" /\ x.listed = c.srv[s].listed
          /\ x.dirty = c.srv[s].dirty /\ x.stale = c.srv[s].stale
      BY <2>0, <3>2 DEF Server, Status
    <3>4. s \notin LS  BY <2>1, ConstantsAssumption
    <3>5. SoundServer(x, s, c.req, sec)
      <4> HIDE DEF x
      <4> QED  BY <2>0, <3>3, <3>4, KindFacts DEF SoundServer, BStatus, Status, Registered, Kind
    <3> HIDE DEF x, v
    <3> QED  BY <3>1, <3>3, <3>4, <3>5
  <2>2. CASE ~(s \in BS /\ c.srv[s].listed)
    <3>1. v[s] = c.srv[s]  BY <2>2
    <3> HIDE DEF v
    <3> QED  BY <2>0, <3>1
  <2> QED  BY <2>1, <2>2
<1>3. BootstrapStart(c, w) = [c EXCEPT !.srv = v]  BY DEF BootstrapStart
<1>4. v = [s \in Srv |-> v[s]]  OBVIOUS
<1> HIDE DEF v
<1>5. v \in [Srv -> Server]  BY <1>2, <1>4
<1>6. /\ BootstrapStart(c, w) \in Ctx
      /\ BootstrapStart(c, w).srv = v /\ BootstrapStart(c, w).req = c.req
  BY <1>1, <1>3, <1>5 DEF Ctx
<1>7. Sound(v, c.req, sec)  BY <1>2 DEF Sound
<1>8. Fresh(v)  BY <1>1, <1>2 DEF Fresh, Srv
<1> QED  BY <1>6, <1>7, <1>8 DEF Good

\* bootstrap_step leaves the servers sound.
LEMMA BootstrapStepGood ==
  ASSUME NEW c, Good(c), NEW w
  PROVE  /\ Good(BootstrapStep(c, w))
         /\ BootstrapStep(c, w).state = c.state /\ BootstrapStep(c, w).error = c.error
<1> DEFINE over == WithStatus(c.srv, BS, {"BS_FINISHING", "BS_FAILING"})
           asking == {t \in BS : Asks(c, t, w) /\ Allocates(c.req, t, w)}
           new == {NewRequest(c.req, "bootstrap", s) : s \in asking}
           v == [s \in Srv |->
                   IF s \notin Listed(c.srv, BS) THEN c.srv[s]
                   ELSE [c.srv[s] EXCEPT
                           !.status = BootstrapStatusAfter(c, s, w),
                           !.sess = (@ \/ Asks(c, s, w)) /\ s \notin over]]
           q == Closing(c.req, over) \union new
<1>1. c \in Ctx /\ Sound(c.srv, c.req, sec) /\ Fresh(c.srv)  BY DEF Good
<1>2. BootstrapStep(c, w) = [c EXCEPT !.srv = v, !.req = q, !.made = @ \union new]
  BY DEF BootstrapStep
<1>3. \A s \in asking : LET r == NewRequest(c.req, "bootstrap", s) IN
        /\ r \in Request /\ r.kind = "bootstrap" /\ r.srv = s /\ ~r.orphan /\ r.via = "own"
  BY <1>1, NewFacts DEF Ctx, Allocates, Kind, Srv
<1>4. /\ Closing(c.req, over) \in SUBSET Request
      /\ \A s \in Srv \ over, k \in Kind :
           Awaited(c.req, s, k) => Awaited(Closing(c.req, over), s, k)
  <2>1. over \in SUBSET Srv  BY DEF WithStatus, Srv
  <2> HIDE DEF over
  <2> QED  BY <1>1, <2>1, ClosingFacts DEF Ctx
<1>5. new \in SUBSET Request  BY <1>3
<1>6. \A s \in Srv \ over, k \in Kind : Awaited(c.req, s, k) => Awaited(q, s, k)
  BY <1>4 DEF Awaited
<1>7. \A s \in asking : Awaited(q, s, "bootstrap")
  <2> SUFFICES ASSUME NEW s \in asking PROVE Awaited(q, s, "bootstrap")
    OBVIOUS
  <2>1. NewRequest(c.req, "bootstrap", s) \in q  OBVIOUS
  <2> HIDE DEF q, asking
  <2> QED  BY <1>3, <2>1 DEF Awaited
<1>8. ASSUME NEW s \in Srv
      PROVE  /\ v[s] \in Server /\ SoundServer(v[s], s, q, sec)
             /\ s \in LS => v[s] = c.srv[s]
  <2>0. c.srv[s] \in Server /\ SoundServer(c.srv[s], s, c.req, sec)  BY <1>1 DEF Ctx, Sound
  <2>1. CASE s \notin Listed(c.srv, BS)
    <3>1. v[s] = c.srv[s]  BY <2>1
    <3>2. s \notin over  BY <2>1 DEF Listed, WithStatus
    <3>3. \A k \in Kind : c.srv[s].status = Pending[k] => Awaited(q, s, k)
      <4> HIDE DEF q, over
      <4> QED  BY <1>6, <2>0, <3>2 DEF SoundServer
    <3> HIDE DEF v, q
    <3> QED  BY <2>0, <3>1, <3>3 DEF SoundServer
  <2>2. CASE s \in Listed(c.srv, BS)
    <3> DEFINE st == c.srv[s].status
               to == BootstrapStatusAfter(c, s, w)
               ss == (c.srv[s].sess \/ Asks(c, s, w)) /\ s \notin over
               x == [c.srv[s] EXCEPT !.status = to, !.sess = ss]
    <3>1. v[s] = x  BY <2>2
    <3>2. s \in BS /\ s \notin LS /\ c.srv[s].listed  BY <2>2, ConstantsAssumption DEF Listed
    <3>3. st \in BStatus  BY <2>0, <3>2 DEF SoundServer
    <3>4. /\ to \in BStatus
          /\ to = "BS_FINISHED" => st \in {"BS_FINISHING", "BS_FINISHED"}
          /\ to = "BS_INITIATED" => st = "BS_INITIATED" \/ s \in asking
      BY <3>2, <3>3 DEF BootstrapStatusAfter, BStatus, Status, Registered
    <3>5. ss \in BOOLEAN  BY <2>0 DEF Server, Asks, Connects
    <3>6. /\ x \in Server /\ x.status = to /\ x.listed = c.srv[s].listed /\ x.sess = ss
          /\ x.dirty = c.srv[s].dirty /\ x.stale = c.srv[s].stale
      <4> HIDE DEF to, ss
      <4> QED  BY <2>0, <3>4, <3>5 DEF Server, BStatus
    <3>7. to = "BS_FINISHED" => ~ss
      <4>1. CASE st = "BS_FINISHING"  BY <2>2, <4>1 DEF WithStatus, Listed
      <4>2. CASE st = "BS_FINISHED"
        <5>1. ~c.srv[s].sess  BY <2>0, <4>2 DEF SoundServer
        <5>2. ~Asks(c, s, w)  BY <4>2 DEF Asks
        <5> QED  BY <5>1, <5>2
      <4> QED  BY <3>4, <4>1, <4>2
    <3>8. to = "BS_INITIATED" => Awaited(q, s, "bootstrap")
      <4>1. CASE s \in asking
        <5> HIDE DEF asking, q, to
        <5> QED  BY <1>7, <4>1
      <4>2. CASE st = "BS_INITIATED"
        <5>1. s \notin over  BY <4>2 DEF WithStatus
        <5>2. Awaited(c.req, s, "bootstrap")
          <6>1. "bootstrap" \in Kind /\ st = Pending["bootstrap"]
            BY <4>2, KindFacts DEF Kind
          <6> QED  BY <2>0, <6>1 DEF SoundServer
        <5> HIDE DEF over, q, to
        <5> QED  BY <1>6, <5>1, <5>2 DEF Kind
      <4> QED  BY <3>4, <4>1, <4>2
    <3>9. \A k \in Kind : to = Pending[k] => k = "bootstrap" /\ to = "BS_INITIATED"
      <4> HIDE DEF to
      <4> QED  BY <3>4, KindFacts DEF Kind, BStatus, Registered
    <3>10. SoundServer(x, s, q, sec)
      <4> HIDE DEF x, ss, to, q, st
      <4>1. \A k \in Kind : x.status = Pending[k] => Awaited(q, s, k)  BY <3>6, <3>8, <3>9
      <4> QED  BY <2>0, <3>2, <3>4, <3>6, <3>7, <4>1 DEF SoundServer
    <3> HIDE DEF x, v, q
    <3> QED  BY <3>1, <3>2, <3>6, <3>10
  <2> QED  BY <2>1, <2>2
<1>9. v = [s \in Srv |-> v[s]]  OBVIOUS
<1>10. q \in SUBSET Request /\ c.made \union new \in SUBSET Request
  BY <1>1, <1>4, <1>5 DEF Ctx
<1> HIDE DEF v, q, new, over
<1>11. v \in [Srv -> Server]  BY <1>8, <1>9
<1>12. /\ BootstrapStep(c, w) \in Ctx
       /\ BootstrapStep(c, w).srv = v /\ BootstrapStep(c, w).req = q
       /\ BootstrapStep(c, w).state = c.state /\ BootstrapStep(c, w).error = c.error
  BY <1>1, <1>2, <1>10, <1>11 DEF Ctx
<1>13. Sound(v, q, sec)  BY <1>8 DEF Sound
<1>14. Fresh(v)  BY <1>1, <1>8 DEF Fresh, Srv
<1> QED  BY <1>12, <1>13, <1>14 DEF Good

\* prv_refreshServerList leaves the servers sound, and none marked dirty.
LEMMA RefreshGood ==
  ASSUME NEW c, Good(c)
  PROVE  /\ Good(Refresh(c))
         /\ Refresh(c).state = c.state
         /\ \A s \in Srv : Refresh(c).srv[s].listed => ~Refresh(c).srv[s].dirty
         /\ \A s \in LS : ~c.srv[s].listed => ~Refresh(c).srv[s].listed
<1> DEFINE dead == {s \in Listed(c.srv, Srv) : c.srv[s].dirty}
           q == Orphaning(c.req, dead)
           v == [s \in Srv |->
                   IF s \in dead THEN Absent
                   ELSE IF s \in BS THEN [c.srv[s] EXCEPT !.status = "DEREGISTERED"]
                   ELSE c.srv[s]]
<1>1. c \in Ctx /\ Sound(c.srv, c.req, sec) /\ Fresh(c.srv)  BY DEF Good
<1>2. Refresh(c) = [c EXCEPT !.srv = v, !.req = q]  BY DEF Refresh
<1>3. /\ q \in SUBSET Request
      /\ \A s \in Srv \ dead, k \in Kind : Awaited(c.req, s, k) => Awaited(q, s, k)
  <2>1. dead \in SUBSET Srv  BY DEF Listed
  <2> HIDE DEF dead
  <2> QED  BY <1>1, <2>1, OrphaningFacts DEF Ctx
<1>4. ASSUME NEW s \in Srv
      PROVE  /\ v[s] \in Server /\ SoundServer(v[s], s, q, sec)
             /\ v[s].listed => ~v[s].dirty
             /\ s \in LS => v[s] = c.srv[s] \/ v[s] = Absent
  <2>0. c.srv[s] \in Server /\ SoundServer(c.srv[s], s, c.req, sec)  BY <1>1 DEF Ctx, Sound
  <2>1. CASE s \in dead
    <3>1. v[s] = Absent  BY <2>1
    <3>2. Absent \in Server  BY DEF Absent, Server, Status
    <3>3. SoundServer(Absent, s, q, sec)
      <4> HIDE DEF q
      <4> QED  BY KindFacts DEF Absent, SoundServer, Status, LStatus, BStatus, Registered, Kind
    <3> HIDE DEF v, q
    <3> QED  BY <3>1, <3>2, <3>3 DEF Absent
  <2>2. CASE s \notin dead /\ s \in BS
    <3> DEFINE x == [c.srv[s] EXCEPT !.status = "DEREGISTERED"]
    <3>1. v[s] = x  BY <2>2
    <3>2. /\ x \in Server /\ x.status = "DEREGISTERED" /\ x.listed = c.srv[s].listed
          /\ x.dirty = c.srv[s].dirty /\ x.stale = c.srv[s].stale
      BY <2>0 DEF Server, Status
    <3>3. s \notin LS  BY <2>2, ConstantsAssumption
    <3>4. c.srv[s].listed => ~c.srv[s].dirty  BY <2>2 DEF Listed
    <3>5. SoundServer(x, s, q, sec)
      <4> HIDE DEF x, q
      <4> QED  BY <2>0, <3>2, <3>3, KindFacts DEF SoundServer, BStatus, Status, Registered, Kind
    <3> HIDE DEF x, v, q, dead
    <3> QED  BY <3>1, <3>2, <3>3, <3>4, <3>5
  <2>3. CASE s \notin dead /\ s \notin BS
    <3>1. v[s] = c.srv[s]  BY <2>3
    <3>2. \A k \in Kind : c.srv[s].status = Pending[k] => Awaited(q, s, k)
      <4> HIDE DEF q, dead
      <4> QED  BY <1>3, <2>0, <2>3 DEF SoundServer
    <3>3. c.srv[s].listed => ~c.srv[s].dirty  BY <2>3 DEF Listed
    <3> HIDE DEF v, q, dead
    <3> QED  BY <2>0, <3>1, <3>2, <3>3 DEF SoundServer
  <2> QED  BY <2>1, <2>2, <2>3
<1>5. v = [s \in Srv |-> v[s]]  OBVIOUS
<1> HIDE DEF v, q, dead
<1>6. v \in [Srv -> Server]  BY <1>4, <1>5
<1>7. /\ Refresh(c) \in Ctx /\ Refresh(c).srv = v /\ Refresh(c).req = q
      /\ Refresh(c).state = c.state
  BY <1>1, <1>2, <1>3, <1>6 DEF Ctx
<1>8. Sound(v, q, sec)  BY <1>4 DEF Sound
<1>9. Fresh(v)  BY <1>1, <1>4 DEF Fresh, Srv, Absent
<1>10. \A s \in LS : ~c.srv[s].listed => ~v[s].listed  BY <1>4 DEF Srv, Absent
<1> QED  BY <1>4, <1>7, <1>8, <1>9, <1>10 DEF Good

\* object_getServers adds sound servers.
LEMMA GettingSound ==
  ASSUME NEW v \in [Srv -> Server], NEW q \in SUBSET Request, NEW S, Sound(v, q, S),
         NEW A \in SUBSET (Srv \cap S), NEW f \in Reuses(A, q)
  PROVE  /\ AddServers(v, A) \in [Srv -> Server] /\ Reusing(q, f) \in SUBSET Request
         /\ Sound(AddServers(v, A), Reusing(q, f), S)
<1> DEFINE u == AddServers(v, A)
           x == [Absent EXCEPT !.listed = TRUE]
<1>1. /\ x \in Server /\ x.status = "DEREGISTERED" /\ ~x.dirty /\ ~x.stale
  BY DEF Absent, Server, Status
<1>2. Reusing(q, f) \in SUBSET Request
      /\ \A s \in Srv, k \in Kind : Awaited(q, s, k) => Awaited(Reusing(q, f), s, k)
  BY ReusingFacts
<1>3. ASSUME NEW s \in Srv
      PROVE  u[s] \in Server /\ SoundServer(u[s], s, Reusing(q, f), S)
  <2>0. v[s] \in Server /\ SoundServer(v[s], s, q, S)  BY DEF Sound
  <2>1. CASE s \in A
    <3>1. u[s] = x /\ s \in S  BY <2>1 DEF AddServers
    <3> HIDE DEF u, x
    <3> QED  BY <1>1, <3>1, KindFacts DEF SoundServer, LStatus, BStatus, Status, Registered, Kind
  <2>2. CASE s \notin A
    <3>1. u[s] = v[s]  BY <2>2 DEF AddServers
    <3> HIDE DEF u
    <3> QED  BY <1>2, <2>0, <3>1 DEF SoundServer
  <2> QED  BY <2>1, <2>2
<1>4. u = [s \in Srv |-> u[s]]  BY DEF AddServers
<1> HIDE DEF u
<1>5. u \in [Srv -> Server]  BY <1>3, <1>4
<1>6. Sound(u, Reusing(q, f), S)  BY <1>3 DEF Sound
<1> QED  BY <1>2, <1>5, <1>6 DEF u

\* registration_start leaves the servers sound, when none is marked dirty.
LEMMA RegistrationStartGood ==
  ASSUME NEW c, Good(c), NEW w,
         \A s \in Srv : c.srv[s].listed => ~c.srv[s].dirty,
         ~RegistrationStart(c, w).error
  PROVE  /\ Good(RegistrationStart(c, w))
         /\ RegistrationStart(c, w).state = "REGISTERING"
<1> DEFINE on == Starting(c.srv)
           new == {NewRequest(c.req, "register", s) : s \in on}
           q == c.req \union new
           v == [s \in Srv |->
                   IF s \in on
                   THEN [c.srv[s] EXCEPT !.sess = TRUE, !.status = "REG_PENDING"]
                   ELSE c.srv[s]]
<1>1. c \in Ctx /\ Sound(c.srv, c.req, sec) /\ Fresh(c.srv)  BY DEF Good
<1>2. /\ \A s \in on : Allocates(c.req, s, w)
      /\ RegistrationStart(c, w) =
           [c EXCEPT !.srv = v, !.req = @ \union new, !.made = @ \union new,
                     !.state = "REGISTERING"]
  <2>1. Error(c).error  BY <1>1 DEF Error, Ctx
  <2> QED  BY <2>1 DEF RegistrationStart
<1>3. on \subseteq LS  BY DEF Starting, WithStatus
<1>4. \A s \in on : LET r == NewRequest(c.req, "register", s) IN
        /\ r \in Request /\ r.kind = "register" /\ r.srv = s /\ ~r.orphan /\ r.via = "own"
  <2> HIDE DEF on
  <2> QED  BY <1>1, <1>2, <1>3, NewFacts DEF Ctx, Allocates, Kind, Srv
<1>5. q \in SUBSET Request /\ c.made \union new \in SUBSET Request  BY <1>1, <1>4 DEF Ctx
<1>6. \A s \in Srv, k \in Kind : Awaited(c.req, s, k) => Awaited(q, s, k)  BY DEF Awaited
<1>7. ASSUME NEW s \in on PROVE Awaited(q, s, "register")
  <2>1. NewRequest(c.req, "register", s) \in q  OBVIOUS
  <2> HIDE DEF q, on
  <2> QED  BY <1>4, <2>1 DEF Awaited
<1>8. ASSUME NEW s \in Srv
      PROVE  /\ v[s] \in Server /\ SoundServer(v[s], s, q, sec)
             /\ v[s] = c.srv[s] \/ (s \in sec /\ ~v[s].stale)
  <2>0. c.srv[s] \in Server /\ SoundServer(c.srv[s], s, c.req, sec)  BY <1>1 DEF Ctx, Sound
  <2>1. CASE s \in on
    <3> DEFINE x == [c.srv[s] EXCEPT !.sess = TRUE, !.status = "REG_PENDING"]
    <3>1. v[s] = x  BY <2>1
    <3>2. /\ x \in Server /\ x.status = "REG_PENDING" /\ x.sess /\ x.listed = c.srv[s].listed
          /\ x.dirty = c.srv[s].dirty /\ x.stale = c.srv[s].stale
      BY <2>0 DEF Server, Status
    <3>3. s \in LS /\ s \notin BS  BY <1>3, <2>1, ConstantsAssumption
    <3>4. c.srv[s].listed  BY <2>1 DEF Starting, WithStatus
    <3>5. s \in sec /\ ~c.srv[s].stale  BY <2>0, <3>4 DEF SoundServer
    <3>6. Awaited(q, s, "register")  BY <1>7, <2>1
    <3>7. SoundServer(x, s, q, sec)
      <4> HIDE DEF x, q
      <4> QED  BY <2>0, <3>2, <3>3, <3>6, KindFacts
               DEF SoundServer, LStatus, Status, Registered, Kind
    <3> HIDE DEF x, v, q, on
    <3> QED  BY <3>1, <3>2, <3>5, <3>7
  <2>2. CASE s \notin on
    <3>1. v[s] = c.srv[s]  BY <2>2
    <3> HIDE DEF v, q, on
    <3> QED  BY <1>6, <2>0, <3>1 DEF SoundServer
  <2> QED  BY <2>1, <2>2
<1>9. v = [s \in Srv |-> v[s]]  OBVIOUS
<1> HIDE DEF v, q, new, on
<1>10. v \in [Srv -> Server]  BY <1>8, <1>9
<1>11. /\ RegistrationStart(c, w) \in Ctx /\ RegistrationStart(c, w).srv = v
       /\ RegistrationStart(c, w).req = q /\ RegistrationStart(c, w).state = "REGISTERING"
  BY <1>1, <1>2, <1>5, <1>10 DEF Ctx, State, q
<1>12. Sound(v, q, sec)  BY <1>8 DEF Sound
<1>13. Fresh(v)  BY <1>1, <1>8 DEF Fresh, Srv
<1> QED  BY <1>11, <1>12, <1>13 DEF Good

\* registration_step leaves the servers sound.
LEMMA RegistrationStepGood ==
  ASSUME NEW c, Good(c), NEW w
  PROVE  /\ Good(RegistrationStep(c, w))
         /\ RegistrationStep(c, w).state = c.state /\ RegistrationStep(c, w).error = c.error
<1> DEFINE up == {s \in Updating(c.srv, w) : c.srv[s].sess /\ Allocates(c.req, s, w)}
           over == WithStatus(c.srv, LS, {"REG_FAILED"})
           new == {NewRequest(c.req, "update", s) : s \in up}
           q == Closing(c.req, over) \union new
           v == [s \in Srv |->
                   IF s \in Updating(c.srv, w) /\ UpdateSent(c, s, w)
                   THEN [c.srv[s] EXCEPT !.status = "UPDATE_PENDING"]
                   ELSE IF s \in over THEN [c.srv[s] EXCEPT !.sess = FALSE]
                   ELSE c.srv[s]]
<1>1. c \in Ctx /\ Sound(c.srv, c.req, sec) /\ Fresh(c.srv)  BY DEF Good
<1>2. RegistrationStep(c, w) = [c EXCEPT !.srv = v, !.req = q, !.made = @ \union new]
  BY DEF RegistrationStep
<1>3. up \subseteq LS  BY DEF Updating, WithStatus
<1>4. \A s \in up : LET r == NewRequest(c.req, "update", s) IN
        /\ r \in Request /\ r.kind = "update" /\ r.srv = s /\ ~r.orphan /\ r.via = "own"
  <2>1. \A s \in up : Allocates(c.req, s, w)  OBVIOUS
  <2> HIDE DEF up
  <2> QED  BY <1>1, <1>3, <2>1, NewFacts DEF Ctx, Allocates, Kind, Srv
<1>5. /\ Closing(c.req, over) \in SUBSET Request
      /\ \A s \in Srv \ over, k \in Kind :
           Awaited(c.req, s, k) => Awaited(Closing(c.req, over), s, k)
  <2>1. over \in SUBSET Srv  BY DEF WithStatus, Srv
  <2> HIDE DEF over
  <2> QED  BY <1>1, <2>1, ClosingFacts DEF Ctx
<1>6. q \in SUBSET Request /\ c.made \union new \in SUBSET Request  BY <1>1, <1>4, <1>5 DEF Ctx
<1>7. \A s \in Srv \ over, k \in Kind : Awaited(c.req, s, k) => Awaited(q, s, k)
  BY <1>5 DEF Awaited
<1>8. ASSUME NEW s \in up PROVE Awaited(q, s, "update")
  <2>1. NewRequest(c.req, "update", s) \in q  OBVIOUS
  <2> HIDE DEF q, up
  <2> QED  BY <1>4, <2>1 DEF Awaited
<1>9. ASSUME NEW s \in Srv
      PROVE  /\ v[s] \in Server /\ SoundServer(v[s], s, q, sec)
             /\ v[s].status = "REG_PENDING" => c.srv[s].status = "REG_PENDING"
             /\ v[s].stale = c.srv[s].stale
  <2>0. c.srv[s] \in Server /\ SoundServer(c.srv[s], s, c.req, sec)  BY <1>1 DEF Ctx, Sound
  <2>1. CASE s \in Updating(c.srv, w) /\ UpdateSent(c, s, w)
    <3> DEFINE x == [c.srv[s] EXCEPT !.status = "UPDATE_PENDING"]
    <3>1. v[s] = x  BY <2>1
    <3>2. /\ x \in Server /\ x.status = "UPDATE_PENDING" /\ x.sess = c.srv[s].sess
          /\ x.listed = c.srv[s].listed
          /\ x.dirty = c.srv[s].dirty /\ x.stale = c.srv[s].stale
      BY <2>0 DEF Server, Status, Registered
    <3>3. s \in up /\ c.srv[s].sess  BY <2>1 DEF UpdateSent
    <3>4. s \in LS /\ s \notin BS  BY <1>3, <3>3, ConstantsAssumption
    <3>5. Awaited(q, s, "update")  BY <1>8, <3>3
    <3>6. SoundServer(x, s, q, sec)
      <4> HIDE DEF x, q
      <4> QED  BY <2>0, <3>2, <3>3, <3>4, <3>5, KindFacts
               DEF SoundServer, LStatus, Status, Registered, Kind
    <3> HIDE DEF x, v, q, up
    <3> QED  BY <3>1, <3>2, <3>6
  <2>2. CASE ~(s \in Updating(c.srv, w) /\ UpdateSent(c, s, w)) /\ s \in over
    <3> DEFINE x == [c.srv[s] EXCEPT !.sess = FALSE]
    <3>1. v[s] = x  BY <2>2
    <3>2. c.srv[s].status = "REG_FAILED" /\ s \in LS /\ s \notin BS
      BY <2>2, ConstantsAssumption DEF WithStatus
    <3>3. /\ x \in Server /\ x.status = "REG_FAILED" /\ x.listed = c.srv[s].listed
          /\ x.dirty = c.srv[s].dirty /\ x.stale = c.srv[s].stale
      BY <2>0, <3>2 DEF Server
    <3>4. SoundServer(x, s, q, sec)
      <4> HIDE DEF x, q
      <4> QED  BY <2>0, <3>2, <3>3, KindFacts DEF SoundServer, LStatus, Registered, Kind
    <3> HIDE DEF x, v, q, over
    <3> QED  BY <3>1, <3>3, <3>4
  <2>3. CASE ~(s \in Updating(c.srv, w) /\ UpdateSent(c, s, w)) /\ s \notin over
    <3>1. v[s] = c.srv[s]  BY <2>3
    <3> HIDE DEF v, q, over
    <3> QED  BY <1>7, <2>0, <2>3, <3>1 DEF SoundServer
  <2> QED  BY <2>1, <2>2, <2>3
<1>10. v = [s \in Srv |-> v[s]]  OBVIOUS
<1> HIDE DEF v, q, new, over, up
<1>11. v \in [Srv -> Server]  BY <1>9, <1>10
<1>12. /\ RegistrationStep(c, w) \in Ctx
       /\ RegistrationStep(c, w).srv = v /\ RegistrationStep(c, w).req = q
       /\ RegistrationStep(c, w).state = c.state /\ RegistrationStep(c, w).error = c.error
  BY <1>1, <1>2, <1>6, <1>11 DEF Ctx
<1>13. Sound(v, q, sec)  BY <1>9 DEF Sound
<1>14. Fresh(v)  BY <1>1, <1>9 DEF Fresh, Srv
<1> QED  BY <1>12, <1>13, <1>14 DEF Good

-----------------------------------------------------------------------------
(* lwm2m_step                                                              *)

\* From where the machines may turn to bootstrap: nobody is, or can be, registered.
NoneLeft ==
  \A s \in Listed(srv, LS) : srv[s].status \in {"DEREGISTERED", "REG_FAILED"}

\* A bootstrap has finished, and none is at work.
BootstrapOver ==
  /\ \E b \in WithStatus(srv, BS, {"BS_FINISHED"}) : ~srv[b].sess
  /\ WithStatus(srv, BS, {"BS_HOLD_OFF", "BS_INITIATED", "BS_PENDING", "BS_FINISHING"}) = {}

\* What a machine, or all of lwm2m_step, makes of a context without error.
Fine(c) ==
  /\ Good(c)
  /\ c.state # "INITIAL"
  /\ state # "BOOTSTRAPPING" /\ c.state = "BOOTSTRAPPING" => NoneLeft
  /\ state = "BOOTSTRAPPING" /\ c.state # "BOOTSTRAPPING" => BootstrapOver

\* The context lwm2m_step begins with.
LEMMA ContextGood ==
  ASSUME IInv
  PROVE  /\ Good(Context) /\ Context.state = state /\ Context.srv = srv /\ Context.req = req
         /\ ~Context.error
<1>1. /\ Context.state = state /\ Context.srv = srv /\ Context.req = req /\ Context.made = {}
      /\ Context.error = FALSE
  BY DEF Context
<1>2. Context \in Ctx  BY DEF Context, Ctx, IInv, TypeOK
<1>3. Fresh(srv)  BY DEF Fresh
<1> QED  BY <1>1, <1>2, <1>3 DEF Good, IInv

\* The case BOOTSTRAP_REQUIRED of the machine.
LEMMA BootstrapRequiredFine ==
  ASSUME NEW c, Good(c), NEW w, ~AtBootstrapRequired(c, w).error,
         state # "BOOTSTRAPPING" => NoneLeft
  PROVE  Fine(AtBootstrapRequired(c, w))
<1> DEFINE a == BootstrapStart(c, w)
           d == [a EXCEPT !.state = "BOOTSTRAPPING"]
<1>1. Error(c).error  BY DEF Error, Good, Ctx
<1>2. AtBootstrapRequired(c, w) = BootstrapStep(d, w)  BY <1>1 DEF AtBootstrapRequired
<1>3. Good(a)  BY BootstrapStartGood
<1> HIDE DEF a
<1>4. Good(d) /\ d.state = "BOOTSTRAPPING"  BY <1>3 DEF Good, Ctx, State
<1> HIDE DEF d
<1>5. Good(BootstrapStep(d, w)) /\ BootstrapStep(d, w).state = "BOOTSTRAPPING"
  BY <1>4, BootstrapStepGood
<1> QED  BY <1>2, <1>5 DEF Fine

\* STATE_INITIAL, at the start or after a bootstrap.
LEMMA InitialFine ==
  ASSUME IInv, NEW w, NEW f \in FreeBlocks, ~AtInitial(Context, w, f).error,
         turn = "step", run = "running",
         state = "INITIAL" \/ (state = "BOOTSTRAPPING" /\ BootstrapStatus(srv) = "FINISHED"),
         state = "BOOTSTRAPPING" => BootstrapOver
  PROVE  Fine(AtInitial(Context, w, f))
<1> DEFINE c == Context
           r == Refresh(c)
           g == [r EXCEPT !.srv = AddServers(@, New(r.srv)), !.req = Reusing(@, f)]
<1>1. Good(c) /\ c.state = state /\ c.srv = srv  BY ContextGood
<1>2. /\ Good(r) /\ \A s \in Srv : r.srv[s].listed => ~r.srv[s].dirty
      /\ \A s \in LS : ~srv[s].listed => ~r.srv[s].listed
  <2> HIDE DEF c
  <2> QED  BY <1>1, RefreshGood
<1>3. f \in Reuses(New(r.srv), r.req)  BY DEF FreeBlocks
<1>4. Error(c).error  BY <1>1 DEF Error, Good, Ctx
<1>5. AtInitial(c, w, f) = IF Listed(g.srv, LS) # {} THEN RegistrationStart(g, w)
                           ELSE AtBootstrapRequired(g, w)
  BY <1>4 DEF AtInitial
<1>6. sec \subseteq Srv  BY DEF IInv, TypeOK
<1> HIDE DEF r
<1>7. New(r.srv) \in SUBSET (Srv \cap sec)  BY <1>6 DEF New
<1>8. r \in Ctx /\ Sound(r.srv, r.req, sec) /\ Fresh(r.srv)  BY <1>2 DEF Good
<1>9. /\ AddServers(r.srv, New(r.srv)) \in [Srv -> Server] /\ Reusing(r.req, f) \in SUBSET Request
      /\ Sound(AddServers(r.srv, New(r.srv)), Reusing(r.req, f), sec)
  BY <1>3, <1>7, <1>8, GettingSound DEF Ctx
<1>10. /\ g \in Ctx /\ g.srv = AddServers(r.srv, New(r.srv)) /\ g.req = Reusing(r.req, f)
  BY <1>8, <1>9 DEF Ctx
<1>11. \A s \in Srv : \/ g.srv[s] = r.srv[s]
                      \/ g.srv[s].status = "DEREGISTERED" /\ ~g.srv[s].dirty
  BY <1>10 DEF AddServers, Absent
<1>12. Fresh(g.srv)  BY <1>8, <1>11 DEF Fresh, Srv
<1> HIDE DEF g
<1>13. Good(g) /\ \A s \in Srv : g.srv[s].listed => ~g.srv[s].dirty
  BY <1>2, <1>9, <1>10, <1>11, <1>12 DEF Good
<1>14. CASE Listed(g.srv, LS) # {}
  <2>1. AtInitial(c, w, f) = RegistrationStart(g, w)  BY <1>5, <1>14
  <2>2. Good(RegistrationStart(g, w)) /\ RegistrationStart(g, w).state = "REGISTERING"
    BY <1>13, <2>1, RegistrationStartGood
  <2> HIDE DEF c
  <2> QED  BY <2>1, <2>2 DEF Fine, c
<1>15. CASE Listed(g.srv, LS) = {}
  <2>1. AtInitial(c, w, f) = AtBootstrapRequired(g, w)  BY <1>5, <1>15
  <2>2. state # "BOOTSTRAPPING" => NoneLeft
    BY DEF NoneLeft, IInv, First, Listed, Absent, Srv
  <2> QED  BY <1>13, <2>1, <2>2, BootstrapRequiredFine
<1> QED  BY <1>14, <1>15

\* bootstrap_getStatus and registration_getStatus tell what they are asked for.
LEMMA StatusFacts ==
  ASSUME IInv
  PROVE  /\ BootstrapStatus(srv) = "FINISHED" => BootstrapOver
         /\ RegistrationStatus(srv) = "FAILED" => NoneLeft
<1>1. ASSUME BootstrapStatus(srv) = "FINISHED" PROVE BootstrapOver
  <2>1. /\ WithStatus(srv, BS, {"BS_HOLD_OFF", "BS_INITIATED", "BS_PENDING", "BS_FINISHING"}) = {}
        /\ WithStatus(srv, BS, {"BS_FINISHED"}) # {}
    BY <1>1 DEF BootstrapStatus
  <2>2. PICK b \in WithStatus(srv, BS, {"BS_FINISHED"}) : TRUE  BY <2>1
  <2>3. b \in Srv /\ srv[b].status = "BS_FINISHED"  BY <2>2 DEF WithStatus, Srv
  <2>4. ~srv[b].sess  BY <2>3 DEF IInv, Sound, SoundServer
  <2> QED  BY <2>1, <2>2, <2>4 DEF BootstrapOver
<1>2. ASSUME RegistrationStatus(srv) = "FAILED" PROVE NoneLeft
  <2>1. /\ WithStatus(srv, LS, {"REG_PENDING"}) = {}
        /\ WithStatus(srv, LS, Registered) = {}
    BY <1>2 DEF RegistrationStatus
  <2>2. SUFFICES ASSUME NEW s \in Listed(srv, LS)
                 PROVE  srv[s].status \in {"DEREGISTERED", "REG_FAILED"}
    BY DEF NoneLeft
  <2>3. s \in LS /\ s \in Srv /\ srv[s].listed  BY <2>2 DEF Listed, Srv
  <2>4. srv[s].status \in LStatus  BY <2>3 DEF IInv, Sound, SoundServer
  <2>5. srv[s].status # "REG_PENDING" /\ srv[s].status \notin Registered
    BY <2>1, <2>3 DEF WithStatus
  <2> QED  BY <2>4, <2>5 DEF LStatus
<1> QED  BY <1>1, <1>2

\* One run of the machine of lwm2m_step.
LEMMA MachineFine ==
  ASSUME IInv, NEW w, NEW f \in FreeBlocks, ~Machine(Context, w, f).error,
         turn = "step", run = "running"
  PROVE  Fine(Machine(Context, w, f))
<1> DEFINE c == Context
<1>1. Good(c) /\ c.state = state /\ c.srv = srv /\ ~c.error  BY ContextGood
<1>2. Error(c).error  BY <1>1 DEF Error, Good, Ctx
<1>3. CASE state = "INITIAL"
  BY <1>1, <1>3, InitialFine DEF Machine
<1>4. CASE state = "BOOTSTRAPPING"
  <2>1. Machine(c, w, f) = AtBootstrapping(c, w, f)
    <3> HIDE DEF c
    <3> QED  BY <1>1, <1>4 DEF Machine
  <2>2. CASE BootstrapStatus(srv) = "FINISHED"
    <3>1. Machine(c, w, f) = AtInitial(c, w, f)
      <4> HIDE DEF c
      <4> QED  BY <1>1, <2>1, <2>2 DEF AtBootstrapping
    <3> QED  BY <1>4, <2>2, <3>1, StatusFacts, InitialFine
  <2>3. CASE BootstrapStatus(srv) # "FINISHED"
    <3> HIDE DEF c
    <3>1. Machine(c, w, f) = BootstrapStep(c, w)
      BY <1>1, <1>2, <2>1, <2>3 DEF AtBootstrapping, c
    <3>2. Good(BootstrapStep(c, w)) /\ BootstrapStep(c, w).state = "BOOTSTRAPPING"
      BY <1>1, <1>4, BootstrapStepGood
    <3> QED  BY <1>4, <3>1, <3>2 DEF Fine, c
  <2> QED  BY <2>2, <2>3
<1>5. CASE state \notin {"INITIAL", "BOOTSTRAPPING", "REGISTERING"}
  <2> HIDE DEF c
  <2>1. Machine(c, w, f) = AtReady(c, w)  BY <1>1, <1>5 DEF Machine
  <2>2. CASE RegistrationStatus(srv) = "FAILED"
    <3>1. Machine(c, w, f) = AtBootstrapRequired(c, w)  BY <1>1, <2>1, <2>2 DEF AtReady
    <3>2. NoneLeft  BY <2>2, StatusFacts
    <3>3. ~AtBootstrapRequired(c, w).error  BY <3>1 DEF c
    <3> QED  BY <1>1, <3>1, <3>2, <3>3, BootstrapRequiredFine DEF c
  <2>3. CASE RegistrationStatus(srv) # "FAILED"
    <3>1. Machine(c, w, f) = c  BY <1>1, <2>1, <2>3 DEF AtReady
    <3> QED  BY <1>1, <1>5, <3>1 DEF Fine, c
  <2> QED  BY <2>2, <2>3
<1>6. CASE state = "REGISTERING"
  <2> HIDE DEF c
  <2>1. Machine(c, w, f) = AtRegistering(c, w)  BY <1>1, <1>6 DEF Machine
  <2>2. CASE RegistrationStatus(srv) = "FAILED"
    <3>1. Machine(c, w, f) = AtBootstrapRequired(c, w)  BY <1>1, <2>1, <2>2 DEF AtRegistering
    <3>2. NoneLeft  BY <2>2, StatusFacts
    <3>3. ~AtBootstrapRequired(c, w).error  BY <3>1 DEF c
    <3> QED  BY <1>1, <3>1, <3>2, <3>3, BootstrapRequiredFine DEF c
  <2>3. CASE RegistrationStatus(srv) = "REGISTERED"
    <3> DEFINE d == [c EXCEPT !.state = "READY"]
    <3>1. Machine(c, w, f) = d  BY <1>1, <2>1, <2>3 DEF AtRegistering
    <3>2. Good(d) /\ d.state = "READY"  BY <1>1 DEF Good, Ctx, State
    <3> HIDE DEF d
    <3> QED  BY <1>6, <3>1, <3>2 DEF Fine, c
  <2>4. CASE RegistrationStatus(srv) \notin {"FAILED", "REGISTERED"}
    <3>1. Machine(c, w, f) = c  BY <1>1, <2>1, <2>4 DEF AtRegistering
    <3> QED  BY <1>1, <1>6, <3>1 DEF Fine, c
  <2> QED  BY <2>2, <2>3, <2>4
<1> QED  BY <1>3, <1>4, <1>5, <1>6

\* What comes out of the machine and registration_step.
LEMMA OutcomeFine ==
  ASSUME IInv, turn = "step", run = "running", NEW c \in Outcomes, ~c.error
  PROVE  Fine(c)
<1>1. PICK w \in Worlds, f \in FreeBlocks :
        c = LET d == Machine(Context, w, f) IN IF d.error THEN d ELSE RegistrationStep(d, w)
  BY DEF Outcomes
<1> DEFINE d == Machine(Context, w, f)
<1>2. ~d.error /\ c = RegistrationStep(d, w)  BY <1>1
<1>3. Fine(d)  BY <1>2, MachineFine
<1> HIDE DEF d
<1>4. /\ Good(RegistrationStep(d, w)) /\ RegistrationStep(d, w).state = d.state
  BY <1>3, RegistrationStepGood DEF Fine
<1> QED  BY <1>2, <1>3, <1>4 DEF Fine

\* What every step guarantees.
Guarantee ==
  /\ state # "BOOTSTRAPPING" /\ state' = "BOOTSTRAPPING" /\ turn = "step" => NoneLeft
  /\ state = "BOOTSTRAPPING" /\ state' # "BOOTSTRAPPING" => BootstrapOver
  /\ \A s \in LS : srv[s].status # "REG_PENDING" /\ srv'[s].status = "REG_PENDING" =>
       s \in sec /\ ~srv'[s].stale

\* lwm2m_step.
LEMMA StepKeeps ==
  ASSUME IInv, Step
  PROVE  IInv' /\ Guarantee
<1>1. PICK c \in Outcomes : Returns(c)  BY DEF Step
<1>2. run = "running" /\ turn = "step" /\ turn' = "select" /\ sec' = sec /\ obj' = obj
  BY DEF Step
<1>3. CASE run' \in {"stopped", "crashed"} /\ UNCHANGED <<state, srv, req>>
  <2>1. TypeOK'  BY <1>2, <1>3 DEF IInv, TypeOK
  <2>2. Sound(srv, req, sec)'  BY <1>2, <1>3 DEF IInv
  <2>3. First'  BY <1>2, <1>3 DEF IInv, First
  <2>4. Guarantee  BY <1>3 DEF Guarantee
  <2> QED  BY <2>1, <2>2, <2>3, <2>4 DEF IInv
<1>4. ASSUME ~c.error, NEW R \in SUBSET (c.req \ c.made),
             state' = TransactionStep(c, R).state, srv' = TransactionStep(c, R).srv,
             req' = TransactionStep(c, R).req, UNCHANGED run
      PROVE  IInv' /\ Guarantee
  <2>1. Fine(c)  BY <1>2, <1>4, OutcomeFine
  <2>2. c \in Ctx /\ Sound(c.srv, c.req, sec) /\ Fresh(c.srv)  BY <2>1 DEF Fine, Good
  <2>3. state' = c.state /\ srv' = CallbacksOf(c.srv, R, FALSE) /\ req' = c.req \ R
    BY <1>4, <2>2 DEF TransactionStep, Ctx
  <2>4. /\ srv' \in [Srv -> Server] /\ Sound(srv', req', sec)
        /\ \A s \in Srv : /\ srv'[s].stale = c.srv[s].stale
                          /\ srv'[s].status = "REG_PENDING" => c.srv[s].status = "REG_PENDING"
    <3>1. R \in SUBSET c.req /\ c.srv \in [Srv -> Server] /\ c.req \in SUBSET Request
      BY <2>2 DEF Ctx
    <3>2. LET u == CallbacksOf(c.srv, R, FALSE) IN
            /\ u \in [Srv -> Server] /\ Sound(u, c.req \ R, sec)
            /\ \A s \in Srv : /\ u[s].stale = c.srv[s].stale
                              /\ u[s].status = "REG_PENDING" => c.srv[s].status = "REG_PENDING"
      <4>1. FALSE \in BOOLEAN  OBVIOUS
      <4> QED  BY <2>2, <3>1, <4>1, CallbacksSound
    <3> QED  BY <2>3, <3>2
  <2>5. TypeOK'
    <3>1. state' \in State /\ req' \subseteq Request  BY <2>2, <2>3 DEF Ctx
    <3> QED  BY <1>2, <1>4, <2>4, <3>1 DEF IInv, TypeOK
  <2>6. Sound(srv, req, sec)'  BY <1>2, <2>4
  <2>7. First'  BY <2>1, <2>3 DEF First, Fine
  <2>8. Guarantee
    <3>1. \A s \in LS : srv[s].status # "REG_PENDING" /\ srv'[s].status = "REG_PENDING" =>
            s \in sec /\ ~srv'[s].stale
      BY <2>2, <2>4 DEF Fresh, Srv
    <3> QED  BY <2>1, <2>3, <3>1 DEF Guarantee, Fine
  <2> QED  BY <2>5, <2>6, <2>7, <2>8 DEF IInv
<1> QED  BY <1>1, <1>2, <1>3, <1>4 DEF Returns

-----------------------------------------------------------------------------
(* Between two steps                                                       *)

\* lwm2m_update_registration leaves the servers sound.
LEMMA UpdateAllSound ==
  ASSUME NEW v \in [Srv -> Server], NEW q, NEW S, Sound(v, q, S), NEW all \in BOOLEAN
  PROVE  /\ UpdateAll(v, all) \in [Srv -> Server] /\ Sound(UpdateAll(v, all), q, S)
         /\ \A s \in Srv : UpdateAll(v, all)[s].status = "REG_PENDING" =>
                             v[s].status = "REG_PENDING"
<1> DEFINE u == UpdateAll(v, all)
<1>1. ASSUME NEW s \in Srv
      PROVE  /\ u[s] \in Server /\ SoundServer(u[s], s, q, S)
             /\ u[s].status = "REG_PENDING" => v[s].status = "REG_PENDING"
  <2>0. v[s] \in Server /\ SoundServer(v[s], s, q, S)  BY DEF Sound
  <2>1. CASE s \in Listed(v, LS)
    <3> DEFINE st == UpdateNeeded(v[s].status, all)
               x == [v[s] EXCEPT !.status = st]
    <3>1. u[s] = x  BY <2>1 DEF UpdateAll
    <3>2. s \in LS /\ s \notin BS  BY <2>1, ConstantsAssumption DEF Listed
    <3>3. v[s].status \in LStatus  BY <2>0, <3>2 DEF SoundServer
    <3>4. /\ st \in LStatus /\ st \in Status
          /\ st \in Registered => v[s].status \in Registered
          /\ st # v[s].status => st \in {"UPDATE_NEEDED", "FULL_UPDATE_NEEDED"}
      BY <3>3 DEF UpdateNeeded, LStatus, Status, Registered
    <3>5. /\ x \in Server /\ x.status = st /\ x.listed = v[s].listed /\ x.sess = v[s].sess
          /\ x.dirty = v[s].dirty /\ x.stale = v[s].stale
      <4> HIDE DEF st
      <4> QED  BY <2>0, <3>4 DEF Server
    <3>6. st # v[s].status => \A k \in Kind : st # Pending[k]
      <4> HIDE DEF st
      <4> QED  BY <3>4, KindFacts DEF Kind
    <3>7. st = "REG_PENDING" => v[s].status = "REG_PENDING"
      <4> HIDE DEF st
      <4> QED  BY <3>4
    <3>8. st # "BS_FINISHED"
      <4> HIDE DEF st
      <4> QED  BY <3>4 DEF LStatus, Registered
    <3> HIDE DEF x, st, u
    <3>9. SoundServer(x, s, q, S)
      <4>1. st \in Registered \union {"REG_PENDING"} => v[s].sess
        BY <2>0, <3>2, <3>4, <3>7 DEF SoundServer
      <4>2. \A k \in Kind : st = Pending[k] => Awaited(q, s, k)
        BY <2>0, <3>6 DEF SoundServer
      <4> QED  BY <2>0, <3>2, <3>4, <3>5, <3>8, <4>1, <4>2 DEF SoundServer
    <3> QED  BY <3>1, <3>5, <3>7, <3>9
  <2>2. CASE s \notin Listed(v, LS)
    <3>1. u[s] = v[s]  BY <2>2 DEF UpdateAll
    <3> HIDE DEF u
    <3> QED  BY <2>0, <3>1
  <2> QED  BY <2>1, <2>2
<1>2. u = [s \in Srv |-> u[s]]  BY DEF UpdateAll
<1> HIDE DEF u
<1>3. u \in [Srv -> Server]  BY <1>1, <1>2
<1>4. Sound(u, q, S)  BY <1>1 DEF Sound
<1> QED  BY <1>1, <1>3, <1>4 DEF u

\* What a bootstrap command makes of the servers.
Commanded(v, gone, tagged, b, st) == [Tagged(v, gone, tagged) EXCEPT ![b].status = st]

\* The structures of the instances that are replaced or gone are marked: of the instances S
\* there were, T are left.
Marks(S, T, gone, tagged) ==
  \A s \in Srv : s \in S \ tagged => s \in T /\ s \notin gone

\* A bootstrap command leaves the servers sound when it marks those whose instances it
\* replaces or removes. T are the security instances it leaves.
LEMMA CommandSound ==
  ASSUME NEW v \in [Srv -> Server], NEW q, NEW S, Sound(v, q, S),
         NEW gone, NEW tagged, NEW T, Marks(S, T, gone, tagged),
         NEW b \in BS, NEW st \in {"BS_PENDING", "DEREGISTERED"},
         NEW u, u = Commanded(v, gone, tagged, b, st)
  PROVE  /\ u \in [Srv -> Server] /\ Sound(u, q, T)
         /\ \A s \in Srv : u[s].status = "REG_PENDING" => v[s].status = "REG_PENDING"
<1> DEFINE t == Tagged(v, gone, tagged)
<1>1. ASSUME NEW s \in Srv
      PROVE  t[s] \in Server /\ SoundServer(t[s], s, q, T) /\ t[s].status = v[s].status
  <2>0. v[s] \in Server /\ SoundServer(v[s], s, q, S)  BY DEF Sound
  <2>1. CASE v[s].listed
    <3> DEFINE stale == v[s].stale \/ s \in gone
               dirty == v[s].dirty \/ s \in tagged
               x == [v[s] EXCEPT !.stale = stale, !.dirty = dirty]
    <3>1. t[s] = x  BY <2>1 DEF Tagged
    <3>2. stale \in BOOLEAN /\ dirty \in BOOLEAN  BY <2>0 DEF Server
    <3>3. /\ x \in Server /\ x.status = v[s].status /\ x.listed = v[s].listed
          /\ x.sess = v[s].sess /\ x.dirty = dirty /\ x.stale = stale
      <4> HIDE DEF stale, dirty
      <4> QED  BY <2>0, <3>2 DEF Server
    <3>4. ~dirty => s \in T /\ ~stale
      BY <2>0, <2>1 DEF SoundServer, Marks
    <3> HIDE DEF stale, dirty, x, t
    <3>5. SoundServer(x, s, q, T)  BY <2>0, <3>3, <3>4 DEF SoundServer
    <3> QED  BY <3>1, <3>3, <3>5
  <2>2. CASE ~v[s].listed
    <3>1. t[s] = v[s]  BY <2>2 DEF Tagged
    <3> HIDE DEF t
    <3> QED  BY <2>0, <2>2, <3>1 DEF SoundServer
  <2> QED  BY <2>1, <2>2
<1>2. t = [s \in Srv |-> t[s]]  BY DEF Tagged
<1> HIDE DEF t
<1>3. t \in [Srv -> Server]  BY <1>1, <1>2
<1>4. u = [t EXCEPT ![b].status = st]  BY DEF t, Commanded
<1>5. b \in Srv /\ b \notin LS  BY ConstantsAssumption DEF Srv
<1>6. ASSUME NEW s \in Srv
      PROVE  /\ u[s] \in Server /\ SoundServer(u[s], s, q, T)
             /\ u[s].status = "REG_PENDING" => v[s].status = "REG_PENDING"
  <2>1. CASE s = b
    <3> DEFINE x == [t[b] EXCEPT !.status = st]
    <3>1. u[s] = x  BY <1>3, <1>4, <1>5, <2>1
    <3>2. /\ x \in Server /\ x.status = st /\ x.listed = t[b].listed
          /\ x.sess = t[b].sess /\ x.dirty = t[b].dirty /\ x.stale = t[b].stale
      BY <1>1, <1>5 DEF Server, Status
    <3>3. SoundServer(t[b], b, q, T)  BY <1>1, <1>5
    <3> HIDE DEF x
    <3>4. SoundServer(x, b, q, T)
      BY <1>5, <3>2, <3>3, KindFacts DEF SoundServer, BStatus, Status, Registered, Kind
    <3> QED  BY <2>1, <3>1, <3>2, <3>4
  <2>2. CASE s # b
    <3>1. u[s] = t[s]  BY <1>3, <1>4, <2>2
    <3> QED  BY <1>1, <3>1
  <2> QED  BY <2>1, <2>2
<1>7. u \in [Srv -> Server]
  <2>1. u = [s \in Srv |-> u[s]]  BY <1>3, <1>4
  <2> QED  BY <1>6, <2>1
<1> QED  BY <1>6, <1>7 DEF Sound

\* What packets and commands change.
Kept ==
  /\ run' \in {"running", "crashed"} /\ state' \in {state, "BOOTSTRAPPING"}
  /\ sec' \subseteq Srv /\ obj' \subseteq LS
  /\ srv' \in [Srv -> Server] /\ req' \subseteq Request
  /\ Sound(srv', req', sec')
  /\ \A s \in Srv : srv'[s].status = "REG_PENDING" => srv[s].status = "REG_PENDING"

\* An answer leaves the servers sound.
LEMMA ReplyKeeps ==
  ASSUME IInv, NEW r \in req, NEW ok \in BOOLEAN, Reply(r, ok)
  PROVE  Kept
<1>1. UNCHANGED <<sec, obj>> /\ run = "running"  BY DEF Reply, AtSelect
<1>2. CASE UNCHANGED <<state, srv, req>> /\ run' = "crashed"
  BY <1>1, <1>2 DEF Kept, IInv, TypeOK
<1>3. CASE req' = req \ {r} /\ srv' = CallbacksOf(srv, {r}, ok) /\ UNCHANGED <<run, state>>
  <2>1. {r} \in SUBSET req /\ srv \in [Srv -> Server] /\ req \in SUBSET Request
    BY DEF IInv, TypeOK
  <2>2. LET u == CallbacksOf(srv, {r}, ok) IN
          /\ u \in [Srv -> Server] /\ Sound(u, req \ {r}, sec)
          /\ \A s \in Srv : u[s].status = "REG_PENDING" => srv[s].status = "REG_PENDING"
    BY <2>1, CallbacksSound DEF IInv
  <2>3. Sound(srv', req', sec')  BY <1>1, <1>3, <2>2
  <2> QED  BY <1>1, <1>3, <2>2, <2>3 DEF Kept, IInv, TypeOK
<1> QED  BY <1>2, <1>3 DEF Reply

\* The commands of the user and the requests of the servers leave the servers sound.
LEMMA UserKeeps ==
  ASSUME IInv,
         \/ UpdateCommand \/ ObjectCommand
         \/ \E s \in LS : UpdateServerCommand(s) \/ DeviceManagement(s)
  PROVE  Kept
<1>1. srv \in [Srv -> Server] /\ req \in SUBSET Request /\ Sound(srv, req, sec)
      /\ sec \subseteq Srv /\ obj \subseteq LS
  BY DEF IInv, TypeOK
<1>2. ASSUME NEW all \in BOOLEAN, srv' = UpdateAll(srv, all), UNCHANGED <<run, state, sec, req>>,
             obj' \subseteq LS, run = "running"
      PROVE  Kept
  <2>1. LET u == UpdateAll(srv, all) IN
          /\ u \in [Srv -> Server] /\ Sound(u, req, sec)
          /\ \A s \in Srv : u[s].status = "REG_PENDING" => srv[s].status = "REG_PENDING"
    BY <1>1, UpdateAllSound
  <2>2. Sound(srv', req', sec')  BY <1>2, <2>1
  <2> QED  BY <1>1, <1>2, <2>1, <2>2 DEF Kept
<1>3. ASSUME UpdateCommand PROVE Kept
  <2>1. UNCHANGED <<run, state, sec, obj>> /\ run = "running"
    BY <1>3 DEF UpdateCommand, AtSelect
  <2>2. CASE UpdateNobody
    <3> DEFINE A == {s \in New(srv) : \A p \in Incomplete(srv) : s < p}
    <3>1. PICK f \in Reuses(A, req) : req' = Reusing(req, f) /\ srv' = AddServers(srv, A)
      BY <2>2 DEF UpdateNobody
    <3>2. A \in SUBSET (Srv \cap sec)  BY <1>1 DEF New
    <3> HIDE DEF A
    <3>3. /\ srv' \in [Srv -> Server] /\ req' \in SUBSET Request /\ Sound(srv', req', sec)
      BY <1>1, <3>1, <3>2, GettingSound
    <3>4. \A s \in Srv : srv'[s] = srv[s] \/ srv'[s].status = "DEREGISTERED"
      BY <3>1 DEF AddServers, Absent
    <3>5. Sound(srv', req', sec')  BY <2>1, <3>3
    <3> QED  BY <1>1, <2>1, <3>3, <3>4, <3>5 DEF Kept
  <2>3. CASE srv' = UpdateAll(srv, FALSE) /\ UNCHANGED req
    BY <1>1, <1>2, <2>1, <2>3
  <2> QED  BY <1>3, <2>2, <2>3 DEF UpdateCommand
<1>4. ASSUME ObjectCommand PROVE Kept
  BY <1>1, <1>2, <1>4 DEF ObjectCommand, AtSelect
<1>5. ASSUME NEW s \in LS, DeviceManagement(s) PROVE Kept
  <2>1. obj' \subseteq LS  BY <1>1, <1>5 DEF DeviceManagement
  <2> QED  BY <1>2, <1>5, <2>1 DEF DeviceManagement, AtSelect
<1>6. ASSUME NEW s \in LS, UpdateServerCommand(s) PROVE Kept
  <2>1. /\ srv' = [srv EXCEPT ![s].status = UpdateNeeded(@, FALSE)] /\ s \in Listed(srv, LS)
        /\ UNCHANGED <<run, state, sec, obj, req>> /\ run = "running"
    BY <1>6 DEF UpdateServerCommand, AtSelect
  <2> DEFINE u == UpdateAll(srv, FALSE)
  <2>2. /\ u \in [Srv -> Server] /\ Sound(u, req, sec)
        /\ \A t \in Srv : u[t].status = "REG_PENDING" => srv[t].status = "REG_PENDING"
    BY <1>1, UpdateAllSound
  <2>3. u[s] = [srv[s] EXCEPT !.status = UpdateNeeded(@, FALSE)]
    BY <2>1 DEF UpdateAll, Srv
  <2> HIDE DEF u
  <2>4. srv' = [srv EXCEPT ![s] = u[s]]  BY <2>1, <2>3
  <2>5. s \in Srv  BY DEF Srv
  <2>6. \A t \in Srv : srv'[t] = IF t = s THEN u[t] ELSE srv[t]  BY <1>1, <2>4, <2>5
  <2>7. srv' \in [Srv -> Server]  BY <1>1, <2>2, <2>4, <2>5
  <2>8. Sound(srv', req', sec')  BY <1>1, <2>1, <2>2, <2>6 DEF Sound
  <2> QED  BY <1>1, <2>1, <2>2, <2>6, <2>7, <2>8 DEF Kept
<1> QED  BY <1>3, <1>4, <1>5, <1>6

\* The requests of the bootstrap servers leave the servers sound.
LEMMA BootstrapKeeps ==
  ASSUME IInv, NEW b \in BS, Bootstrap(b)
  PROVE  Kept
<1>1. srv \in [Srv -> Server] /\ req \in SUBSET Request /\ Sound(srv, req, sec)
      /\ sec \subseteq Srv /\ obj \subseteq LS
  BY DEF IInv, TypeOK
<1>2. ASSUME NEW gone, NEW tagged, NEW st \in {"BS_PENDING", "DEREGISTERED"},
             \A s \in Srv : s \in sec \ tagged => s \in sec' /\ s \notin gone,
             srv' = [Tagged(srv, gone, tagged) EXCEPT ![b].status = st],
             UNCHANGED <<run, req>>, run = "running", state' \in {state, "BOOTSTRAPPING"},
             sec' \subseteq Srv, obj' \subseteq LS
      PROVE  Kept
  <2>0. srv' = Commanded(srv, gone, tagged, b, st) /\ Marks(sec, sec', gone, tagged)
    BY <1>2 DEF Commanded, Marks
  <2>1. /\ srv' \in [Srv -> Server] /\ Sound(srv', req, sec')
        /\ \A s \in Srv : srv'[s].status = "REG_PENDING" => srv[s].status = "REG_PENDING"
    BY <1>1, <2>0, CommandSound, SMTT(30)
  <2>2. Sound(srv', req', sec')  BY <1>2, <2>1
  <2> QED  BY <1>1, <1>2, <2>1, <2>2 DEF Kept
<1>3. ASSUME NEW gone, NEW tagged, CommandDone(b, gone, tagged), AtSelect,
             \A s \in Srv : s \in sec \ tagged => s \in sec' /\ s \notin gone,
             sec' \subseteq Srv, obj' \subseteq LS
      PROVE  Kept
  <2>1. /\ srv' = [Tagged(srv, gone, tagged) EXCEPT ![b].status = "BS_PENDING"]
        /\ UNCHANGED <<run, req>> /\ run = "running" /\ state' \in {state, "BOOTSTRAPPING"}
    BY <1>3 DEF CommandDone, AtSelect
  <2> QED  BY <1>2, <1>3, <2>1
<1>4. Checked(b) \in {"BS_PENDING", "DEREGISTERED"}  BY DEF Checked
<1>5. ASSUME NEW W \in SUBSET Srv, WriteSecurity(b, W) PROVE Kept
  BY <1>1, <1>3, <1>5 DEF WriteSecurity
<1>6. ASSUME NEW s \in sec, DeleteSecurity(b, s) PROVE Kept
  BY <1>1, <1>3, <1>6 DEF DeleteSecurity
<1>7. ASSUME DeleteSecurityObject(b) PROVE Kept
  BY <1>1, <1>3, <1>7 DEF DeleteSecurityObject
<1>8. ASSUME NEW O \in SUBSET LS, WriteServer(b, O) PROVE Kept
  BY <1>1, <1>3, <1>8 DEF WriteServer
<1>9. ASSUME NEW O, DeleteServer(b, O) PROVE Kept
  BY <1>1, <1>3, <1>9 DEF DeleteServer
<1>10. ASSUME NEW W \in SUBSET Srv, NEW O \in SUBSET LS, RefusedCommand(b, W, O) PROVE Kept
  <2>1. \A s \in Srv : s \in sec \ (W \cap sec) => s \in sec' /\ s \notin W \cap sec
    BY <1>10 DEF RefusedCommand
  <2> QED  BY <1>1, <1>2, <1>4, <1>10, <2>1 DEF RefusedCommand, AtSelect
<1>11. ASSUME DeleteAll(b) PROVE Kept
  <2>1. \A s \in Srv : s \in sec \ (Srv \ {b}) => s \in sec' /\ s \notin Srv \ {b}
    BY <1>11 DEF DeleteAll
  <2> QED  BY <1>1, <1>2, <1>4, <1>11, <2>1 DEF DeleteAll, AtSelect
<1>12. ASSUME Finish(b) PROVE Kept
  <2>1. /\ srv' = [srv EXCEPT ![b].status = "BS_FINISHING"]
        /\ UNCHANGED <<run, state, sec, obj, req>> /\ run = "running"
    BY <1>12 DEF Finish, AtSelect
  <2>2. b \in Srv /\ b \notin LS  BY ConstantsAssumption DEF Srv
  <2> DEFINE x == [srv[b] EXCEPT !.status = "BS_FINISHING"]
  <2>3. srv' = [srv EXCEPT ![b] = x]  BY <2>1
  <2>4. srv[b] \in Server /\ SoundServer(srv[b], b, req, sec)  BY <1>1, <2>2 DEF Sound
  <2>5. /\ x \in Server /\ x.status = "BS_FINISHING" /\ x.listed = srv[b].listed
        /\ x.sess = srv[b].sess /\ x.dirty = srv[b].dirty /\ x.stale = srv[b].stale
    BY <2>4 DEF Server, Status
  <2> HIDE DEF x
  <2>6. SoundServer(x, b, req, sec)
    BY <2>2, <2>4, <2>5, KindFacts DEF SoundServer, BStatus, Status, Registered, Kind
  <2>7. \A s \in Srv : srv'[s] = IF s = b THEN x ELSE srv[s]  BY <1>1, <2>2, <2>3
  <2>8. Sound(srv', req', sec')  BY <1>1, <2>1, <2>6, <2>7 DEF Sound
  <2>9. srv' \in [Srv -> Server]  BY <1>1, <2>3, <2>5
  <2> QED  BY <1>1, <2>1, <2>5, <2>7, <2>8, <2>9 DEF Kept
<1>13. \A s \in obj : {s} \in SUBSET LS  BY <1>1
<1> QED
  <2>1. /\ \A W \in SUBSET Srv \ {{}} : W \in SUBSET Srv
        /\ {} \in SUBSET LS /\ {} \in SUBSET Srv
    OBVIOUS
  <2> QED  BY <1>5, <1>6, <1>7, <1>8, <1>9, <1>10, <1>11, <1>12, <2>1 DEF Bootstrap

\* What happens between two steps.
LEMMA EventKeeps ==
  ASSUME IInv, Event
  PROVE  IInv' /\ Guarantee
<1>1. run = "running" /\ turn = "select" /\ turn' = "step"
  BY DEF Event, Idle, Reply, UpdateCommand, UpdateServerCommand, ObjectCommand,
         DeviceManagement, Bootstrap, WriteSecurity, DeleteSecurity, DeleteSecurityObject,
         WriteServer, DeleteServer, RefusedCommand, DeleteAll, Finish, AtSelect
<1>2. Kept
  <2>1. CASE Idle  BY <2>1 DEF Idle, AtSelect, Kept, IInv, TypeOK
  <2> QED  BY <2>1, ReplyKeeps, UserKeeps, BootstrapKeeps DEF Event
<1>3. TypeOK'  BY <1>1, <1>2 DEF Kept, TypeOK, IInv, State
<1>4. Sound(srv, req, sec)'  BY <1>2 DEF Kept
<1>5. state # "INITIAL"
  BY <1>1 DEF IInv, First
<1>6. First'  BY <1>2, <1>5 DEF First, Kept
<1>7. Guarantee
  BY <1>1, <1>2 DEF Guarantee, Kept, Srv
<1> QED  BY <1>3, <1>4, <1>6, <1>7 DEF IInv

-----------------------------------------------------------------------------
(* The theorems                                                            *)

\* The servers are sound before the first step.
LEMMA InitSound ==
  ASSUME Init
  PROVE  IInv
<1>1. sec \subseteq Srv /\ obj \subseteq LS  BY DEF Init
<1>2. Absent \in Server  BY DEF Absent, Server, Status
<1>3. TypeOK  BY <1>1, <1>2 DEF Init, TypeOK, State
<1>4. \A s \in Srv : SoundServer(Absent, s, req, sec)
  BY KindFacts DEF SoundServer, Absent, LStatus, BStatus, Status, Registered, Kind
<1>5. Sound(srv, req, sec)  BY <1>4 DEF Init, Sound
<1>6. First  BY DEF Init, First
<1> QED  BY <1>3, <1>5, <1>6 DEF IInv

\* Every step keeps the invariant and gives the guarantee.
LEMMA NextKeeps ==
  ASSUME IInv, [Next]_vars
  PROVE  IInv' /\ [Guarantee]_vars
<1>1. CASE UNCHANGED vars
  <2>1. UNCHANGED <<run, turn, state, sec, obj, srv, req>>  BY <1>1 DEF vars
  <2>2. TypeOK'  BY <2>1 DEF IInv, TypeOK
  <2>3. Sound(srv, req, sec)'  BY <2>1 DEF IInv
  <2>4. First'  BY <2>1 DEF IInv, First
  <2> QED  BY <1>1, <2>2, <2>3, <2>4 DEF IInv
<1>2. CASE Step  BY <1>2, StepKeeps
<1>3. CASE Event  BY <1>3, EventKeeps
<1> QED  BY <1>1, <1>2, <1>3 DEF Next, Over

\* The invariant holds throughout.
THEOREM Invariant == Spec => []IInv
<1>1. Init => IInv  BY InitSound
<1>2. IInv /\ [Next]_vars => IInv'  BY NextKeeps
<1> QED  BY <1>1, <1>2, PTL DEF Spec

\* The guarantee holds of every step.
THEOREM Guaranteed == Spec => [][Guarantee]_vars
<1>1. IInv /\ [Next]_vars => [Guarantee]_vars  BY NextKeeps
<1> QED  BY <1>1, Invariant, PTL DEF Spec

\* lwm2m_step never leaves a server waiting for an answer that nothing can bring: whatever
\* fails, is lost or is deleted, a request of that kind is outstanding on its session.
THEOREM AlwaysAwaited == Spec => []PendingHasRequest
<1>1. IInv => PendingHasRequest
  BY DEF IInv, Sound, SoundServer, Awaited, PendingHasRequest, Listed
<1> QED  BY <1>1, Invariant, PTL

\* As long as the client counts a server as registered, or waits for it, it has a session.
THEOREM SessionKept == Spec => []RegisteredHasSession
<1>1. IInv => RegisteredHasSession
  BY DEF IInv, Sound, SoundServer, RegisteredHasSession, WithStatus, Srv
<1> QED  BY <1>1, Invariant, PTL

\* A server not marked dirty stands for an instance that is there as it was read.
THEOREM ListsFollowSecurity == Spec => []ServersCurrent
<1>1. IInv => ServersCurrent
  BY DEF IInv, Sound, SoundServer, ServersCurrent, Listed
<1> QED  BY <1>1, Invariant, PTL

\* No registration goes out with an account that bootstrap has replaced or removed.
THEOREM RegistrationsFresh == Spec => RegistersAfresh
<1>1. [Guarantee]_vars =>
        [\A s \in LS :
           srv[s].status # "REG_PENDING" /\ srv'[s].status = "REG_PENDING" =>
             s \in sec /\ ~srv'[s].stale]_vars
  BY DEF Guarantee
<1> QED  BY <1>1, Guaranteed, PTL DEF RegistersAfresh

\* The client goes back to bootstrap only when it has no registration left.
THEOREM FallsBackLast == Spec => FallsBackWhenAllFailed
<1>1. [Guarantee]_vars =>
        [turn = "step" /\ state # "BOOTSTRAPPING" /\ state' = "BOOTSTRAPPING" =>
           \A s \in Listed(srv, LS) : srv[s].status \in {"DEREGISTERED", "REG_FAILED"}]_vars
  BY DEF Guarantee, NoneLeft
<1> QED  BY <1>1, Guaranteed, PTL DEF FallsBackWhenAllFailed

\* What a bootstrap writes is used only when one has finished and none is at work.
THEOREM UsedWhenFinished == Spec => BootstrapFinished
<1>1. [Guarantee]_vars =>
        [state = "BOOTSTRAPPING" /\ state' # "BOOTSTRAPPING" =>
           /\ \E b \in WithStatus(srv, BS, {"BS_FINISHED"}) : ~srv[b].sess
           /\ WithStatus(srv, BS, {"BS_HOLD_OFF", "BS_INITIATED", "BS_PENDING",
                                   "BS_FINISHING"}) = {}]_vars
  BY DEF Guarantee, BootstrapOver
<1> QED  BY <1>1, Guaranteed, PTL DEF BootstrapFinished
=============================================================================
