---------------------------- MODULE LwM2MClient ----------------------------
(***************************************************************************)
(* The LwM2M client of wakaama: lwm2m_step (liblwm2m.c) with the bootstrap *)
(* and registration machines it drives (bootstrap.c, registration.c), the  *)
(* packets handled between two steps, and the update requests of the user. *)
(*                                                                         *)
(* Time is abstract: which timers have elapsed at a step is the step's own *)
(* choice (due in Step, R in Returns); Transaction models the timers of the   *)
(* requests. A security object instance and the lwm2m_server_t built from  *)
(* it share the instance id. The sample's main loop (external) calls       *)
(* lwm2m_step, then handles at most one packet or one command, and exits   *)
(* as soon as lwm2m_step returns an error. A packet is attributed to the   *)
(* session it arrived on.                                                  *)
(***************************************************************************)
EXTENDS Integers, FiniteSets

CONSTANTS
  BS,            \* security instance ids of bootstrap servers
  LS,            \* security instance ids of LwM2M servers
  MaxOutstanding,\* bound: transactions the heap holds, for each server
  MaxStray,      \* bound: outstanding requests whose session is lost
  Failures       \* bound: the mallocs that may fail while there is room

ASSUME ConstantsAssumption ==
  /\ BS \subseteq Nat /\ LS \subseteq Nat
  /\ BS \cap LS = {}
  /\ MaxOutstanding \in [BS \union LS -> Nat \ {0}]
  /\ MaxStray \in Nat
  /\ Failures \subseteq {"nonew", "nosend"}  \* transaction_new, transaction_send

Srv == BS \union LS
NoServer == -1

VARIABLES
  run,    \* "running", "stopped" (lwm2m_step failed), "crashed" (freed memory)
  turn,   \* where the main loop is: in lwm2m_step or in select()
  state,  \* contextP->state
  sec,    \* the instances of the Security object (0)
  obj,    \* the LwM2M servers that have an instance of the Server object (1)
  srv,    \* [Srv -> Server], serverList and bootstrapServerList
  req     \* transactionList: the set of outstanding requests

vars == <<run, turn, state, sec, obj, srv, req>>

Registered == {"REGISTERED", "UPDATE_NEEDED", "FULL_UPDATE_NEEDED", "UPDATE_PENDING"}

Status == Registered \union
  {"DEREGISTERED", "REG_PENDING", "REG_FAILED", "BS_HOLD_OFF", "BS_INITIATED",
   "BS_PENDING", "BS_FINISHING", "BS_FINISHED", "BS_FAILING", "BS_FAILED"}

State == {"INITIAL", "BOOTSTRAP_REQUIRED", "BOOTSTRAPPING", "REGISTER_REQUIRED",
          "REGISTERING", "READY"}

\* lwm2m_server_t. sess: sessionH is not NULL. stale: its security
\* instance was rewritten or deleted since the structure was built (history only).
Server == [listed : BOOLEAN, status : Status, sess : BOOLEAN,
           dirty : BOOLEAN, stale : BOOLEAN]

Absent == [listed |-> FALSE, status |-> "DEREGISTERED", sess |-> FALSE,
           dirty |-> FALSE, stale |-> FALSE]

Kind == {"register", "update", "bootstrap"}

\* A server and a number stand for the address of a transaction in the heap.
Ids == UNION {{s} \X (1 .. MaxOutstanding[s]) : s \in Srv}

\* A transaction. srv: the structure userData points to; orphan: it was freed.
\* via: peerH is the session of that structure, one nobody owns any more, or
\* one that lwm2m_close_connection has freed.
Request == [id : Ids, kind : Kind, srv : Srv,
            orphan : BOOLEAN, via : {"own", "leaked", "closed"}]

TypeOK ==
  /\ run \in {"running", "stopped", "crashed"}
  /\ turn \in {"step", "select"}
  /\ state \in State
  /\ sec \subseteq Srv
  /\ obj \subseteq LS
  /\ srv \in [Srv -> Server]
  /\ req \subseteq Request

\* get_security_object and get_server_object make one account, of a bootstrap
\* server or of an LwM2M server (the samples: of the latter).
Init ==
  /\ run = "running"
  /\ turn = "step"
  /\ state = "INITIAL"
  /\ \E s \in Srv : sec = {s} /\ obj = {s} \cap LS
  /\ srv = [s \in Srv |-> Absent]
  /\ req = {}

-----------------------------------------------------------------------------
(* What one call of lwm2m_step meets: the servers that refuse a connection,*)
(* those whose hold-off or registration timer has elapsed, the requests    *)
(* that transaction_step gives up, and the mallocs that fail.              *)

\* bound: at most one server meets a failing malloc in a step
Memories == {[s \in Srv |-> IF s = v THEN f ELSE "ok"] :
               v \in Srv, f \in Failures \union {"ok"}}

\* The servers whose timer may have elapsed, and those without a session.
Timers == {s \in Srv : srv[s].listed /\ srv[s].status \in {"BS_HOLD_OFF", "REGISTERED"}}
Unconnected == {s \in sec : srv[s].dirty \/ ~srv[s].sess}

\* lwm2m_connect_server: the sample looks the uri up in the security object.
Connects(s, w) == s \in sec \ w.refuse

Slots(q, s) == {n \in 1 .. MaxOutstanding[s] : \A r \in q : r.id # <<s, n>>}

\* transaction_new finds memory.
Allocates(q, s, w) == w.memory[s] # "nonew" /\ Slots(q, s) # {}

NewRequest(q, kind, s) ==
  [id |-> <<s, CHOOSE n \in Slots(q, s) : TRUE>>, kind |-> kind, srv |-> s,
   orphan |-> FALSE, via |-> "own"]

\* lwm2m_close_connection frees the sessions of the servers in S.
Closing(q, S) ==
  {IF r.srv \in S /\ r.via = "own" THEN [r EXCEPT !.via = "closed"] ELSE r : r \in q}

\* prv_deleteServer on the servers in S: sessions stay open, requests stay.
Orphaning(q, S) ==
  {IF r.srv \in S /\ ~r.orphan
   THEN [r EXCEPT !.orphan = TRUE, !.via = IF @ = "own" THEN "leaked" ELSE @]
   ELSE r : r \in q}

Listed(v, S) == {s \in S : v[s].listed}
WithStatus(v, S, X) == {s \in S : v[s].listed /\ v[s].status \in X}

-----------------------------------------------------------------------------
(* The callbacks of the requests                                           *)

Pending == [register |-> "REG_PENDING", update |-> "UPDATE_PENDING",
            bootstrap |-> "BS_INITIATED"]
Succeeded == [register |-> "REGISTERED", update |-> "REGISTERED",
              bootstrap |-> "BS_PENDING"]
Failed == [register |-> "REG_FAILED", update |-> "REG_FAILED",
           bootstrap |-> "BS_FAILING"]

\* prv_handleRegistrationReply, prv_handleRegistrationUpdateReply and
\* prv_handleBootstrapReply. ok: 2.01 or 2.04; otherwise an error, a reset, or
\* NULL from a transaction that gave up.
Callback(st, kind, ok) ==
  IF st = Pending[kind] THEN IF ok THEN Succeeded[kind] ELSE Failed[kind] ELSE st

\* The callbacks of the requests in R run, all with the same kind of answer.
CallbacksOf(v, R, ok) ==
  [s \in Srv |->
     LET kinds == {r.kind : r \in {o \in R : o.srv = s /\ ~o.orphan}}
         taken == {k \in kinds : Callback(v[s].status, k, ok) # v[s].status}
     IN IF taken = {} THEN v[s]
        ELSE [v[s] EXCEPT !.status = Callback(@, CHOOSE k \in taken : TRUE, ok)]]

-----------------------------------------------------------------------------
(* lwm2m_step. A context c carries state, srv and req through the step,    *)
(* made: the requests of this step, error: lwm2m_step returns an error.    *)

Error(c) == [c EXCEPT !.error = TRUE]

\* bootstrap_start
BootstrapStart(c, w) ==
  [c EXCEPT !.srv = [s \in Srv |->
     IF s \in BS /\ c.srv[s].listed
     THEN [c.srv[s] EXCEPT !.status = "DEREGISTERED", !.sess = @ \/ Connects(s, w)]
     ELSE c.srv[s]]]

\* bootstrap_step on one server; "asks" is prv_requestBootstrap.
Asks(c, s, w) ==
  /\ s \in BS /\ c.srv[s].listed /\ c.srv[s].status = "BS_HOLD_OFF" /\ s \in w.due
  /\ c.srv[s].sess \/ Connects(s, w)

BootstrapStatusAfter(c, s, w) ==
  LET st == c.srv[s].status IN
  IF st = "DEREGISTERED" THEN "BS_HOLD_OFF"
  ELSE IF st = "BS_FINISHING" THEN "BS_FINISHED"
  ELSE IF st = "BS_FAILING" THEN "BS_FAILED"
  ELSE IF st # "BS_HOLD_OFF" \/ s \notin w.due THEN st
  ELSE IF ~Asks(c, s, w) THEN "BS_FAILED"
  ELSE IF ~Allocates(c.req, s, w) THEN "BS_FAILING"
  ELSE IF w.memory[s] = "nosend" THEN st ELSE "BS_INITIATED"

BootstrapStep(c, w) ==
  LET over == WithStatus(c.srv, BS, {"BS_FINISHING", "BS_FAILING"})
      new == {NewRequest(c.req, "bootstrap", s) :
                s \in {t \in BS : Asks(c, t, w) /\ Allocates(c.req, t, w)}}
  IN [c EXCEPT
        !.srv = [s \in Srv |->
           IF s \notin Listed(c.srv, BS) THEN c.srv[s]
           ELSE [c.srv[s] EXCEPT
                   !.status = BootstrapStatusAfter(c, s, w),
                   !.sess = (@ \/ Asks(c, s, w)) /\ s \notin over]],
        !.req = Closing(@, over) \union new,
        !.made = @ \union new]

\* Mutant: bootstraps in progress are forgotten once one has finished.
BootstrapStatusEager(v) ==
  IF WithStatus(v, BS, {"BS_FINISHED", "BS_FINISHING"}) # {} THEN "FINISHED"
  ELSE IF WithStatus(v, BS, {"BS_HOLD_OFF", "BS_INITIATED", "BS_PENDING"}) # {}
       THEN "PENDING" ELSE "FAILED"

\* bootstrap_getStatus
BootstrapStatus(v) ==
  IF WithStatus(v, BS, {"BS_HOLD_OFF", "BS_INITIATED", "BS_PENDING", "BS_FINISHING"}) # {}
  THEN "PENDING"
  ELSE IF WithStatus(v, BS, {"BS_FINISHED"}) # {} THEN "FINISHED" ELSE "FAILED"

\* Mutant: an update in flight does not count as a registration.
RegistrationStatusStrict(v) ==
  IF WithStatus(v, LS, {"REG_PENDING"}) # {} THEN "PENDING"
  ELSE IF WithStatus(v, LS, Registered \ {"UPDATE_PENDING"}) # {} THEN "REGISTERED"
  ELSE "FAILED"

\* registration_getStatus
RegistrationStatus(v) ==
  IF WithStatus(v, LS, {"REG_PENDING"}) # {} THEN "PENDING"
  ELSE IF WithStatus(v, LS, Registered) # {} THEN "REGISTERED" ELSE "FAILED"

\* registration_start, prv_register
Starting(v) == WithStatus(v, LS, {"DEREGISTERED", "REG_FAILED"})

RegistrationStart(c, w) ==
  LET new == {NewRequest(c.req, "register", s) : s \in Starting(c.srv)} IN
  IF \E s \in Starting(c.srv) : \/ ~c.srv[s].sess /\ ~Connects(s, w)
                                \/ ~Allocates(c.req, s, w)
                                \/ w.memory[s] = "nosend"
  THEN Error(c)
  ELSE [c EXCEPT
          !.srv = [s \in Srv |->
             IF s \in Starting(c.srv)
             THEN [c.srv[s] EXCEPT !.sess = TRUE, !.status = "REG_PENDING"]
             ELSE c.srv[s]],
          !.req = @ \union new, !.made = @ \union new,
          !.state = "REGISTERING"]

\* object_getServers: security instances without a structure, and those of
\* them for which it gives up.
New(v) == {s \in sec : ~v[s].listed}
Incomplete(v) == (New(v) \cap LS) \ obj

\* A malloc of object_getServers may return the block of a freed structure,
\* to which the requests of that structure still point.
Blocks(q) == {r.srv : r \in {o \in q : o.orphan}}
Reuses(S, q) ==
  {f \in [Blocks(q) -> S \union {NoServer}] :
     \A a, b \in Blocks(q) : a # b /\ f[a] = f[b] => f[a] = NoServer}
Reusing(q, f) ==
  {IF r.orphan /\ f[r.srv] # NoServer
   THEN [r EXCEPT !.srv = f[r.srv], !.orphan = FALSE] ELSE r : r \in q}

AddServers(v, S) ==
  [s \in Srv |-> IF s \in S THEN [Absent EXCEPT !.listed = TRUE] ELSE v[s]]

\* Mutant: structures marked dirty are kept.
RefreshKeepsDirty(c) ==
  [c EXCEPT !.srv = [s \in Srv |->
     IF s \in BS THEN [c.srv[s] EXCEPT !.status = "DEREGISTERED"] ELSE c.srv[s]]]

\* prv_refreshServerList, up to its call of object_getServers
Refresh(c) ==
  LET dead == {s \in Listed(c.srv, Srv) : c.srv[s].dirty}
  IN [c EXCEPT
        !.srv = [s \in Srv |->
           IF s \in dead THEN Absent
           ELSE IF s \in BS THEN [c.srv[s] EXCEPT !.status = "DEREGISTERED"]
           ELSE c.srv[s]],
        !.req = Orphaning(@, dead)]

AtBootstrapRequired(c, w) ==
  IF Listed(c.srv, BS) = {} THEN Error(c)
  ELSE BootstrapStep([BootstrapStart(c, w) EXCEPT !.state = "BOOTSTRAPPING"], w)

\* STATE_INITIAL, and the goto that follows it. f: the blocks malloc reuses.
AtInitial(c, w, f) ==
  LET r == Refresh(c)
      g == [r EXCEPT !.srv = AddServers(@, New(r.srv)), !.req = Reusing(@, f)]
  IN IF Incomplete(r.srv) # {} THEN Error(c)
     ELSE IF Listed(g.srv, LS) # {} THEN RegistrationStart(g, w)
     ELSE AtBootstrapRequired(g, w)

AtBootstrapping(c, w, f) ==
  LET st == BootstrapStatus(c.srv) IN
  IF st = "FINISHED" THEN AtInitial(c, w, f)
  ELSE IF st = "FAILED" THEN Error(c) ELSE BootstrapStep(c, w)

AtRegistering(c, w) ==
  LET st == RegistrationStatus(c.srv) IN
  IF st = "REGISTERED" THEN [c EXCEPT !.state = "READY"]
  ELSE IF st = "FAILED" THEN AtBootstrapRequired(c, w) ELSE c

\* Mutant: a client that was ready once never looks at its status again.
AtReadyBlind(c, w) == c

AtReady(c, w) ==
  IF RegistrationStatus(c.srv) = "FAILED" THEN AtBootstrapRequired(c, w) ELSE c

Machine(c, w, f) ==
  IF c.state = "INITIAL" THEN AtInitial(c, w, f)
  ELSE IF c.state = "BOOTSTRAPPING" THEN AtBootstrapping(c, w, f)
  ELSE IF c.state = "REGISTERING" THEN AtRegistering(c, w)
  ELSE AtReady(c, w)

\* registration_step, prv_updateRegistration
Updating(v, w) ==
  WithStatus(v, LS, {"UPDATE_NEEDED", "FULL_UPDATE_NEEDED"})
    \union (WithStatus(v, LS, {"REGISTERED"}) \cap w.due)

\* Mutant: the status tells of a request that could not be made.
UpdateSentUnmade(c, s, w) == w.memory[s] # "nosend"

UpdateSent(c, s, w) ==
  c.srv[s].sess /\ Allocates(c.req, s, w) /\ w.memory[s] # "nosend"

RegistrationStep(c, w) ==
  LET up == {s \in Updating(c.srv, w) : c.srv[s].sess /\ Allocates(c.req, s, w)}
      over == WithStatus(c.srv, LS, {"REG_FAILED"})
      new == {NewRequest(c.req, "update", s) : s \in up}
  IN [c EXCEPT
        !.srv = [s \in Srv |->
           IF s \in Updating(c.srv, w) /\ UpdateSent(c, s, w)
           THEN [c.srv[s] EXCEPT !.status = "UPDATE_PENDING"]
           ELSE IF s \in over THEN [c.srv[s] EXCEPT !.sess = FALSE]
           ELSE c.srv[s]],
        !.req = Closing(@, over) \union new,
        !.made = @ \union new]

\* Mutant: the requests that give up do not run their callback.
TransactionStepSilent(c, R) == [c EXCEPT !.req = @ \ R]

\* transaction_step: the requests in w.ended run out of retransmissions.
TransactionStep(c, R) ==
  [c EXCEPT !.srv = CallbacksOf(@, R, FALSE), !.req = @ \ R]

\* A step touches freed memory when it retransmits over a closed session, or
\* ends a request whose server is gone.
Dangles(c, R) ==
  \/ \E r \in c.req : r.via = "closed"
  \/ \E r \in R : r.orphan

Context == [state |-> state, srv |-> srv, req |-> req, made |-> {}, error |-> FALSE]

\* The blocks object_getServers may get, when this step calls it.
FreeBlocks ==
  IF state = "INITIAL" \/ (state = "BOOTSTRAPPING" /\ BootstrapStatus(srv) = "FINISHED")
  THEN LET r == Refresh(Context) IN Reuses(New(r.srv), r.req)
  ELSE {<<>>}

\* The end of lwm2m_step: of the requests made earlier, some give up.
Returns(c) ==
  \/ /\ c.error
     /\ run' = "stopped"
     /\ UNCHANGED <<state, srv, req>>
  \/ /\ ~c.error
     /\ \E R \in SUBSET (c.req \ c.made) :
          /\ Cardinality({r \in c.req \ R : r.via # "own"}) <= MaxStray
          /\ \/ LET d == TransactionStep(c, R) IN
                  state' = d.state /\ srv' = d.srv /\ req' = d.req /\ UNCHANGED run
             \/ /\ Dangles(c, R)
                /\ run' = "crashed"
                /\ UNCHANGED <<state, srv, req>>

\* What the machines and registration_step make of the context, whatever they meet.
Worlds == [refuse : SUBSET Unconnected, due : SUBSET Timers, memory : Memories]
Outcomes ==
  {LET c == Machine(Context, w, f) IN IF c.error THEN c ELSE RegistrationStep(c, w) :
     w \in Worlds, f \in FreeBlocks}

\* lwm2m_step
Step ==
  /\ run = "running" /\ turn = "step"
  /\ \E c \in Outcomes : Returns(c)
  /\ turn' = "select"
  /\ UNCHANGED <<sec, obj>>

-----------------------------------------------------------------------------
(* Between two steps: one packet, one command, or nothing.                 *)

AtSelect == run = "running" /\ turn = "select" /\ turn' = "step"

\* select() times out, or what arrives is not for the client.
Idle == AtSelect /\ UNCHANGED <<run, state, sec, obj, srv, req>>

\* transaction_handleResponse: a request is answered, or refused. A new session
\* may have got the address of a freed one, and answer in its place; the
\* callback may work on a freed structure.
Reply(r, ok) ==
  /\ AtSelect
  /\ r.via = "closed" => \E s \in Srv : srv[s].sess
  /\ \/ /\ req' = req \ {r}
        /\ srv' = CallbacksOf(srv, {r}, ok)
        /\ UNCHANGED <<run, state>>
     \/ /\ r.orphan
        /\ run' = "crashed"
        /\ UNCHANGED <<state, srv, req>>
  /\ UNCHANGED <<sec, obj>>

\* Mutant: an update is asked of a server whose registration has failed, too.
UpdateNeededFailed(st, withObjects) ==
  IF st \in {"REGISTERED", "UPDATE_PENDING", "REG_FAILED"}
  THEN IF withObjects THEN "FULL_UPDATE_NEEDED" ELSE "UPDATE_NEEDED"
  ELSE st

UpdateNeeded(st, withObjects) ==
  IF st \in {"REGISTERED", "UPDATE_PENDING"}
  THEN IF withObjects THEN "FULL_UPDATE_NEEDED" ELSE "UPDATE_NEEDED"
  ELSE st

\* lwm2m_update_registration(contextP, 0, withObjects) on a list of servers v
UpdateAll(v, withObjects) ==
  [s \in Srv |-> IF s \in Listed(v, LS)
                 THEN [v[s] EXCEPT !.status = UpdateNeeded(@, withObjects)] ELSE v[s]]

\* lwm2m_update_registration on an empty serverList: object_getServers stops at
\* the first instance it cannot use, and what it added is not updated.
UpdateNobody ==
  /\ Listed(srv, LS) = {}
  /\ \E f \in Reuses({s \in New(srv) : \A p \in Incomplete(srv) : s < p}, req) :
       /\ req' = Reusing(req, f)
       /\ srv' = AddServers(srv, {s \in New(srv) : \A p \in Incomplete(srv) : s < p})

\* The update command of the user, on all servers.
UpdateCommand ==
  /\ AtSelect
  /\ \/ UpdateNobody
     \/ Listed(srv, LS) # {} /\ srv' = UpdateAll(srv, FALSE) /\ UNCHANGED req
  /\ UNCHANGED <<run, state, sec, obj>>

\* The update command of the user, on one server. A full update that is
\* already due stays one.
UpdateServerCommand(s) ==
  /\ AtSelect
  /\ s \in Listed(srv, LS)
  /\ srv' = [srv EXCEPT ![s].status = UpdateNeeded(@, FALSE)]
  /\ UNCHANGED <<run, state, sec, obj, req>>

\* lwm2m_add_object, lwm2m_remove_object
ObjectCommand ==
  /\ AtSelect
  /\ state = "READY"
  /\ srv' = UpdateAll(srv, TRUE)
  /\ UNCHANGED <<run, state, sec, obj, req>>

\* dm_handleRequest: a server the client is registered to creates or deletes
\* an object instance, of the Server object or of another.
DeviceManagement(s) ==
  /\ AtSelect
  /\ s \in WithStatus(srv, LS, Registered) /\ srv[s].sess
  /\ obj' \in {obj} \union {obj \union {t} : t \in LS} \union {obj \ {t} : t \in LS}
  /\ srv' = UpdateAll(srv, TRUE)
  /\ UNCHANGED <<run, state, sec, req>>

\* prv_checkServerStatus
Accepts(b) ==
  /\ b \in BS /\ srv[b].listed /\ srv[b].sess
  /\ srv[b].status \in {"DEREGISTERED", "BS_HOLD_OFF", "BS_INITIATED", "BS_PENDING"}

Checked(b) == IF srv[b].status = "DEREGISTERED" THEN "DEREGISTERED" ELSE "BS_PENDING"

\* The structures of S change: gone are the instances they were built from
\* (stale), tagged are those prv_tagServer or prv_tagAllServer marks.
Tagged(v, gone, tagged) ==
  [s \in Srv |-> IF v[s].listed
                 THEN [v[s] EXCEPT !.stale = @ \/ s \in gone, !.dirty = @ \/ s \in tagged]
                 ELSE v[s]]

\* The end of bootstrap_handleCommand when the command has succeeded.
CommandDone(b, gone, tagged) ==
  /\ srv' = [Tagged(srv, gone, tagged) EXCEPT ![b].status = "BS_PENDING"]
  /\ state' = IF Checked(b) = "BS_PENDING" THEN state ELSE "BOOTSTRAPPING"
  /\ UNCHANGED <<run, req>>

\* PUT on object 0 or one of its instances: instances are created or written.
WriteSecurity(b, W) ==
  /\ AtSelect /\ Accepts(b)
  /\ sec' = sec \union W
  /\ CommandDone(b, W \cap sec, W \cap sec)
  /\ UNCHANGED obj

\* DELETE /0/s
DeleteSecurity(b, s) ==
  /\ AtSelect /\ Accepts(b)
  /\ sec' = sec \ {s}
  /\ CommandDone(b, {s}, {s})
  /\ UNCHANGED obj

\* DELETE /0
DeleteSecurityObject(b) ==
  /\ AtSelect /\ Accepts(b)
  /\ sec' = {}
  /\ CommandDone(b, sec, Srv)
  /\ UNCHANGED obj

\* PUT on the Server object or on an object that is neither.
WriteServer(b, O) ==
  /\ AtSelect /\ Accepts(b)
  /\ obj' = obj \union O
  /\ CommandDone(b, {}, {})
  /\ UNCHANGED sec

\* DELETE on the Server object or one of its instances.
DeleteServer(b, O) ==
  /\ AtSelect /\ Accepts(b)
  /\ obj' = obj \ O
  /\ CommandDone(b, {}, {})
  /\ UNCHANGED sec

\* A command that an object refuses: of a PUT with several instances, those
\* before the refused one are written (and tagged in object 0).
RefusedCommand(b, W, O) ==
  /\ AtSelect /\ Accepts(b)
  /\ sec' = sec \union W
  /\ obj' = obj \union O
  /\ srv' = [Tagged(srv, W \cap sec, W \cap sec) EXCEPT ![b].status = Checked(b)]
  /\ UNCHANGED <<run, state, req>>

\* Mutant: the security instances go, the structures are not marked.
DeleteAllUntagged(b) ==
  /\ AtSelect /\ Accepts(b)
  /\ sec' = sec \cap {b}
  /\ obj' = {}
  /\ srv' = [Tagged(srv, Srv \ {b}, {}) EXCEPT ![b].status = Checked(b)]
  /\ UNCHANGED <<run, state, req>>

\* bootstrap_handleDeleteAll
DeleteAll(b) ==
  /\ AtSelect /\ Accepts(b)
  /\ sec' = sec \cap {b}
  /\ obj' = {}
  /\ srv' = [Tagged(srv, Srv \ {b}, Srv \ {b}) EXCEPT ![b].status = Checked(b)]
  /\ UNCHANGED <<run, state, req>>

\* bootstrap_handleFinish
Finish(b) ==
  /\ AtSelect
  /\ b \in WithStatus(srv, BS, {"BS_PENDING"}) /\ srv[b].sess
  /\ srv' = [srv EXCEPT ![b].status = "BS_FINISHING"]
  /\ UNCHANGED <<run, state, sec, obj, req>>

Bootstrap(b) ==
  \/ \E W \in SUBSET Srv \ {{}} : WriteSecurity(b, W)
  \/ \E s \in sec : DeleteSecurity(b, s)
  \/ DeleteSecurityObject(b)
  \/ \E O \in SUBSET LS : WriteServer(b, O)
  \/ \E O \in {obj} \union {{s} : s \in obj} : DeleteServer(b, O)
  \/ \E W \in SUBSET Srv : RefusedCommand(b, W, {})
  \/ \E O \in SUBSET LS : RefusedCommand(b, {}, O)
  \/ DeleteAll(b)
  \/ Finish(b)

Event ==
  \/ Idle
  \/ \E r \in req, ok \in BOOLEAN : Reply(r, ok)
  \/ UpdateCommand
  \/ \E s \in LS : UpdateServerCommand(s)
  \/ ObjectCommand
  \/ \E s \in LS : DeviceManagement(s)
  \/ \E b \in BS : Bootstrap(b)

\* The process is over.
Over == run # "running" /\ UNCHANGED vars

Next ==
  \/ Step
  \/ Event
  \/ Over

Spec == Init /\ [][Next]_vars

\* The main loop goes round: every action of Next moves turn.
Loop == run = "running" /\ turn' = IF turn = "step" THEN "select" ELSE "step"

\* lwm2m_step is called again and again and select() always returns; every
\* request is answered or given up, which is what Transaction promises
\* (ImplementsFairExchange).
FairSpec ==
  /\ Spec
  /\ WF_turn(Loop)
  /\ \A i \in Ids :
       []<>(run # "running" \/ \A r \in req : r.id # i)

-----------------------------------------------------------------------------
(* Properties                                                              *)

\* A server waits for an answer (STATE_REG_PENDING, STATE_REG_UPDATE_PENDING,
\* STATE_BS_INITIATED) only while a request of that kind is outstanding on its
\* own session: nothing else could ever end the wait, since no timer does.
PendingHasRequest ==
  \A s \in Listed(srv, Srv), k \in Kind :
    run = "running" /\ srv[s].status = Pending[k] =>
      \E r \in req : r.kind = k /\ r.srv = s /\ ~r.orphan /\ r.via = "own"

\* The lists are well-formed, and a registration is kept alive over the session it was
\* made on: as long as the client counts a server as registered, or waits for it,
\* sessionH is set (prv_updateRegistration silently does nothing otherwise).
RegisteredHasSession ==
  /\ TypeOK
  /\ \A s \in WithStatus(srv, LS, Registered \union {"REG_PENDING"}) : srv[s].sess

\* serverList and bootstrapServerList follow the Security object through every
\* mix of bootstrap writes, deletes, delete-all, refreshes and failing
\* requests: a structure not marked dirty stands for an instance that is still
\* there and was not rewritten since.
ServersCurrent ==
  \A s \in Listed(srv, Srv) : ~srv[s].dirty => s \in sec /\ ~srv[s].stale

\* No registration is sent with data that bootstrap has replaced or removed.
RegistersAfresh ==
  [][\A s \in LS :
       srv[s].status # "REG_PENDING" /\ srv'[s].status = "REG_PENDING" =>
         s \in sec /\ ~srv'[s].stale]_vars

\* lwm2m_step goes back to bootstrap only when there is no server left that the
\* client is registered to, or may yet become registered to.
FallsBackWhenAllFailed ==
  [][turn = "step" /\ state # "BOOTSTRAPPING" /\ state' = "BOOTSTRAPPING" =>
       \A s \in Listed(srv, LS) : srv[s].status \in {"DEREGISTERED", "REG_FAILED"}]_vars

\* The accounts a bootstrap writes are used only when some bootstrap server has
\* finished, its session is closed, and none is still at work on them.
BootstrapFinished ==
  [][state = "BOOTSTRAPPING" /\ state' # "BOOTSTRAPPING" =>
       /\ \E b \in WithStatus(srv, BS, {"BS_FINISHED"}) : ~srv[b].sess
       /\ WithStatus(srv, BS, {"BS_HOLD_OFF", "BS_INITIATED", "BS_PENDING",
                               "BS_FINISHING"}) = {}]_vars

\* Registering always comes to a result, whichever requests are lost.
RegisteringEnds ==
  state = "REGISTERING" /\ run = "running" ~> state # "REGISTERING" \/ run # "running"

\* A client all of whose registrations have failed turns to bootstrap.
FailureNoticed ==
  (state = "READY" /\ RegistrationStatus(srv) = "FAILED") ~>
    (state = "BOOTSTRAPPING" \/ run # "running")

\* The request that opens a bootstrap is never waited for in vain.
BootstrapRequestSettles ==
  \A b \in BS : srv[b].status = "BS_INITIATED" ~>
                  (srv[b].status # "BS_INITIATED" \/ run # "running")

\* "no transactions without peer" (transaction.c): what is in transactionList
\* has a session to be retransmitted to.
NoTransactionWithoutPeer ==
  run = "running" => \A r \in req : r.via # "closed"
=============================================================================
