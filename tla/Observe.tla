------------------------------ MODULE Observe ------------------------------
(***************************************************************************)
(* The observations that servers keep at the client                        *)
(* (src/external/wakaama/observe.c, called by dm_handleRequest,            *)
(* handle_reset and lwm2m_step), with the loop that sleeps no longer than  *)
(* lwm2m_step has asked for. The observed resources are integers, which    *)
(* can be read at any time. Every period and every threshold has one value.*)
(***************************************************************************)
EXTENDS Integers, Sequences, SequencesExt

CONSTANTS
  Servers, Nobody,
  Uris,         \* resources that may be observed
  Values,       \* their values
  Flags,        \* attributes in use: subset of {"min", "max", "less"}
  Attributes,   \* which of them a server sets together
  Clears,       \* bound: those that it clears later
  minPeriod, maxPeriod, lessThan,
  Sleep,        \* how long the loop sleeps when nothing is asked for: tv_sec
  LWM2M_MAX_ID, \* the greatest message id, 0xFFFF in the code
  MaxWatchers   \* bound: watchers at one time

ASSUME ConstantsAssumption ==
  /\ Nobody \notin Servers \X Nat
  /\ Values \subseteq Int /\ Values # {}
  /\ Flags \subseteq {"min", "max", "less"} /\ Attributes \subseteq SUBSET Flags
  /\ Clears \subseteq Flags
  /\ {minPeriod, maxPeriod, Sleep, MaxWatchers} \subseteq Nat \ {0}
  /\ LWM2M_MAX_ID \in Nat /\ MaxWatchers <= LWM2M_MAX_ID
  /\ minPeriod <= maxPeriod /\ lessThan \in Int

VARIABLES
  value,     \* of each resource
  observed,  \* contextP->observedList, each entry with its watcherList
  from,      \* history: who cancelled in the last step, and which id, if it was that
  awake,     \* the loop has work to do before it sleeps
  sleep      \* how long it still sleeps

vars == <<value, observed, from, awake, sleep>>

\* lastMid is the id of the last notification, and 0 before the first one. told is history:
\* the value that message_send took for the server last (a NON, which may get lost).
Mids == 0 .. LWM2M_MAX_ID
Ages == 0 .. maxPeriod

Watcher == [server : Servers, active : BOOLEAN, update : BOOLEAN, toSet : SUBSET Flags,
            parameters : BOOLEAN, age : Ages, lastMid : Mids,
            lastValue : Values \union {0}, told : Values \union {0}]

TypeOK ==
  /\ value \in [Uris -> Values]
  /\ observed \in Seq([uri : Uris, watcherList : Seq(Watcher)])
  /\ from \in (Servers \X Mids) \union {Nobody}
  /\ awake \in BOOLEAN
  /\ sleep \in 0 .. Sleep

Init ==
  /\ value \in [Uris -> Values]
  /\ observed = <<>>
  /\ from = Nobody
  /\ awake = TRUE
  /\ sleep = 0

-----------------------------------------------------------------------------
(* The lists                                                               *)

\* prv_findObserved, prv_findWatcher: 0 if there is none.
FindObserved(u) == SelectInSeq(observed, LAMBDA o : o.uri = u)
FindWatcher(list, s) == SelectInSeq(list, LAMBDA w : w.server = s)

Watches(s, u) ==
  \E i \in DOMAIN observed :
    observed[i].uri = u /\ \E j \in DOMAIN observed[i].watcherList :
                              observed[i].watcherList[j].server = s

Total == FoldLeft(LAMBDA n, o : n + Len(o.watcherList), 0, observed)

\* Every watcher w of every entry o becomes Op(o, w).
Each(Op(_, _)) ==
  [i \in DOMAIN observed |->
    [observed[i] EXCEPT !.watcherList = [j \in DOMAIN @ |-> Op(observed[i], @[j])]]]

\* A watcher that prv_getWatcher has just made (memset), and that is not active.
New(s) == [server |-> s, active |-> FALSE, update |-> FALSE, toSet |-> {},
              parameters |-> FALSE, age |-> 0, lastMid |-> 0, lastValue |-> 0,
              told |-> 0]

\* prv_getWatcher: the watcher of s on u, and the list in which it is w.
WatcherOf(s, u) ==
  IF ~Watches(s, u) THEN New(s)
  ELSE LET list == observed[FindObserved(u)].watcherList IN list[FindWatcher(list, s)]

WithWatcher(s, u, w) ==
  LET i == FindObserved(u)
      list == IF i = 0 THEN <<>> ELSE observed[i].watcherList
      j == FindWatcher(list, s)
      after == IF j = 0 THEN <<w>> \o list ELSE [list EXCEPT ![j] = w]
  IN IF i = 0 THEN <<[uri |-> u, watcherList |-> after]>> \o observed
              ELSE [observed EXCEPT ![i].watcherList = after]

-----------------------------------------------------------------------------
(* Requests of the servers                                                 *)

Room(s, u) == Watches(s, u) \/ Total < MaxWatchers

\* observe_handleRequest with the option 0; the answer carries the value.
Register(s, u) ==
  /\ Room(s, u)
  /\ observed' = WithWatcher(s, u,
       [WatcherOf(s, u) EXCEPT !.active = TRUE, !.age = 0, !.lastValue = value[u],
                               !.told = value[u]])
  /\ from' = Nobody /\ awake' = TRUE /\ sleep' = 0
  /\ UNCHANGED value

\* observe_setParameters. Once there are parameters, toSet only ever shrinks. When there is
\* no memory for them the watcher remains.
Changed(w) ==
  IF w.parameters THEN {[w EXCEPT !.toSet = @ \ {flag}] : flag \in Clears}
  ELSE {w} \union {[w EXCEPT !.parameters = TRUE, !.toSet = toSet] : toSet \in Attributes}

SetParameters(s, u) ==
  /\ Room(s, u)
  /\ \E w \in Changed(WatcherOf(s, u)) : observed' = WithWatcher(s, u, w)
  /\ from' = Nobody /\ awake' = TRUE /\ sleep' = 0
  /\ UNCHANGED value

\* Mutant: an entry without watchers stays in the list.
WithoutKeepsEntry(i, j) ==
  [observed EXCEPT ![i].watcherList = RemoveAt(@, j)]

Without(i, j) ==
  LET list == RemoveAt(observed[i].watcherList, j)
  IN IF list = <<>> THEN RemoveAt(observed, i)
                    ELSE [observed EXCEPT ![i].watcherList = list]

\* Mutant: the sender is not compared.
TakesAnyone(s, mid, list, j) ==
  IF j = 1 THEN mid \in {LWM2M_MAX_ID, list[1].lastMid} ELSE list[j].lastMid = mid

\* What observe_cancel compares: a head is taken when it is the sender's, and LWM2M_MAX_ID
\* stands for any id there; of the watchers behind it those of the other servers are.
Takes(s, mid, list, j) ==
  IF j = 1 THEN mid \in {LWM2M_MAX_ID, list[1].lastMid} /\ list[1].server = s
           ELSE list[j].lastMid = mid /\ list[j].server # s

\* observe_cancel(mid, s) takes the first of these watchers.
Cancel(s, mid) ==
  LET found == {p \in UNION {{i} \X DOMAIN observed[i].watcherList : i \in DOMAIN observed} :
                  Takes(s, mid, observed[p[1]].watcherList, p[2])}
  IN \/ found = {} /\ UNCHANGED observed
     \/ \E p \in found :
          /\ \A q \in found : p[1] < q[1] \/ (p[1] = q[1] /\ p[2] <= q[2])
          /\ observed' = Without(p[1], p[2])

\* observe_handleRequest with the option 1, whose id is LWM2M_MAX_ID, or handle_reset: a
\* server may reset any message, also one that was no notification, and the 16-bit ids wrap.
Unobserve(s) ==
  \E mid \in Mids :
    /\ Cancel(s, mid)
    /\ from' = <<s, mid>> /\ awake' = TRUE /\ sleep' = 0
    /\ UNCHANGED value

-----------------------------------------------------------------------------
(* The application and the loop                                            *)

\* lwm2m_resource_value_changed
Tag(u) ==
  Each(LAMBDA o, w : IF o.uri = u /\ w.active THEN [w EXCEPT !.update = TRUE] ELSE w)

Change(u) ==
  /\ value' \in {[value EXCEPT ![u] = v] : v \in Values \ {value[u]}}
  /\ observed' = Tag(u)
  /\ from' = Nobody /\ awake' = TRUE /\ sleep' = 0

Crosses(o, w) ==
  LET v == value[o.uri] IN
  /\ "less" \in w.toSet
  /\ \/ v <= lessThan /\ w.lastValue > lessThan
     \/ v >= lessThan /\ w.lastValue < lessThan

\* The minimal period holds a change back; its end is reason enough to report it.
TooEarly(w) == w.update /\ "min" \in w.toSet /\ w.age < minPeriod

Notify(o, w) ==
  /\ w.active
  /\ \/ w.update /\ ~TooEarly(w) /\ (w.toSet = {} \/ Crosses(o, w) \/ "min" \in w.toSet)
     \/ "max" \in w.toSet /\ w.age >= maxPeriod

\* Mutant: what is held back is forgotten.
NotifiedForgets(o, w, mid) ==
  IF Notify(o, w)
  THEN [w EXCEPT !.update = FALSE, !.age = 0, !.lastMid = mid[<<w.server, o.uri>>],
                 !.lastValue = value[o.uri], !.told = value[o.uri]]
  ELSE [w EXCEPT !.update = FALSE]

\* mid gives the ids of the notifications.
Notified(o, w, mid) ==
  IF Notify(o, w)
  THEN [w EXCEPT !.update = FALSE, !.age = 0, !.lastMid = mid[<<w.server, o.uri>>],
                 !.lastValue = value[o.uri], !.told = value[o.uri]]
  ELSE w

\* Mutant: the maximal period counts from a notification only.
IntervalsOnce(o, w) ==
  IF ~w.active THEN {}
  ELSE (IF TooEarly(w) THEN {minPeriod - w.age} ELSE {})
       \union (IF "max" \in w.toSet /\ Notify(o, w) THEN {maxPeriod} ELSE {})

\* In how many seconds the watcher has to be looked at again.
Intervals(o, w) ==
  IF ~w.active THEN {}
  ELSE (IF TooEarly(w) THEN {minPeriod - w.age} ELSE {})
       \union (IF "max" \in w.toSet THEN {maxPeriod - (IF Notify(o, w) THEN 0 ELSE w.age)} ELSE {})

\* Who is notified of what.
Due ==
  {p \in Servers \X Uris :
     \E i \in DOMAIN observed : \E j \in DOMAIN observed[i].watcherList :
       LET w == observed[i].watcherList[j]
       IN p = <<w.server, observed[i].uri>> /\ Notify(observed[i], w)}

\* lwm2m_step with observe_step, and the loop goes to sleep. The ids come from nextMID, a
\* uint16_t that starts anywhere and counts all other messages too: any ids, but different
\* ones. That registration_step or transaction_step asks for less sleep is a request that
\* changes nothing.
Step ==
  /\ awake \/ sleep = 0
  /\ \E mid \in Injection(Due, Mids) : observed' = Each(LAMBDA o, w : Notified(o, w, mid))
  /\ from' = Nobody /\ awake' = FALSE
  /\ LET asked == UNION {UNION {Intervals(o, w) : w \in ToSet(o.watcherList)} : o \in ToSet(observed)}
     IN sleep' = Min({Sleep} \union asked)
  /\ UNCHANGED value

\* A second goes by.
Tick ==
  /\ ~awake /\ sleep > 0
  /\ sleep' = sleep - 1
  /\ observed' = Each(LAMBDA o, w : 
       IF w.active /\ w.age < maxPeriod THEN [w EXCEPT !.age = @ + 1] ELSE w)
  /\ UNCHANGED <<value, from, awake>>

Next ==
  \/ \E s \in Servers : \/ \E u \in Uris : Register(s, u) \/ SetParameters(s, u)
                        \/ Unobserve(s)
  \/ \E u \in Uris : Change(u)
  \/ Step \/ Tick

Spec == Init /\ [][Next]_vars

-----------------------------------------------------------------------------
(* Properties                                                              *)

\* What the lists are searched and emptied by: entries are well-formed, no two entries for a
\* resource, no two watchers for a server, and no entry without watchers, whose first one
\* observe_cancel looks at.
ListsSound ==
  /\ TypeOK
  /\ \A i, j \in DOMAIN observed : observed[i].uri = observed[j].uri => i = j
  /\ \A i \in DOMAIN observed :
       LET list == observed[i].watcherList IN
       /\ list # <<>>
       /\ \A j, k \in DOMAIN list : list[j].server = list[k].server => j = k

\* While the loop sleeps
Asleep(P(_, _)) ==
  ~awake => \A i \in DOMAIN observed : \A j \in DOMAIN observed[i].watcherList :
              LET w == observed[i].watcherList[j]
              IN w.active => P(value[observed[i].uri], w)

Apart(v, w) == v < lessThan /\ lessThan < w

\* ... message_send has been given the value of a resource for each of its observers, as far
\* as the attributes do not let them wait: within the minimal period; before the maximal one, if there is no minimal one; and on
\* the same side of the threshold, if there is only that. The loop is woken in time.
ToldInTime ==
  Asleep(LAMBDA v, w :
    w.told # v =>
      /\ w.toSet # {}
      /\ "min" \in w.toSet => w.age < minPeriod \/ sleep = 0
      /\ "less" \in w.toSet /\ "min" \notin w.toSet => ~Apart(v, w.told) /\ ~Apart(w.told, v))

\* ... and the maximal period of no observation is exceeded.
MaxPeriodKept ==
  Asleep(LAMBDA v, w : "max" \in w.toSet => w.age < maxPeriod \/ sleep = 0)

\* s watches u, is not the first in the list of u, and its watcher has the id mid.
Exposed(s, u, mid) ==
  \E i \in DOMAIN observed :
    observed[i].uri = u /\ \E j \in DOMAIN observed[i].watcherList \ {1} :
                              /\ observed[i].watcherList[j].server = s
                              /\ observed[i].watcherList[j].lastMid = mid

Lost(s, u) == Watches(s, u) /\ ~Watches(s, u)'

\* An observation ends only by a cancellation or a reset, one for a message. It is one of
\* the sender, or one behind the head of its list whose last notification has the id that
\* the message has (id 0 if it was never notified).
OthersKept ==
  [][\A s \in Servers, u \in Uris : Lost(s, u) =>
       /\ from' # Nobody
       /\ from'[1] = s \/ Exposed(s, u, from'[2])
       /\ \A t \in Servers, x \in Uris : Lost(t, x) => t = s /\ x = u]_vars
=============================================================================
