---------------------------- MODULE ObserveProofs ----------------------------
(***************************************************************************)
(* Theorems about Observe, for any servers, resources, attributes and      *)
(* periods: what the searches in the lists of observe.c rely on, that the  *)
(* loop never sleeps past what it owes a server, and whose observations a  *)
(* message may end.                                                        *)
(***************************************************************************)
EXTENDS Observe, SequenceTheorems, WellFoundedInduction, TLAPS

\* The least element of a set of natural numbers.
LEMMA MinFacts ==
  ASSUME NEW S \in SUBSET Nat, S # {}
  PROVE  Min(S) \in S /\ \A n \in S : Min(S) <= n
<1> DEFINE R == {p \in Nat \X Nat : p[1] < p[2]}
<1>1. R = OpToRel(<, Nat)  BY DEF OpToRel
<1> HIDE DEF R
<1>2. IsWellFoundedOn(R, Nat)  BY <1>1, NatLessThanWellFounded
<1>3. PICK x \in S : \A y \in S : <<y, x>> \notin R  BY <1>2, WFMin
<1>4. \A y \in S : x <= y
  <2> SUFFICES ASSUME NEW y \in S PROVE x <= y
    OBVIOUS
  <2>1. ~(<<y, x>>[1] < <<y, x>>[2])  BY <1>3 DEF R
  <2> QED  BY <2>1
<1> QED  BY <1>4 DEF Min

\* What prv_findObserved finds.
LEMMA FindObservedFacts ==
  ASSUME NEW u, observed \in Seq([uri : Uris, watcherList : Seq(Watcher)])
  PROVE  LET i == FindObserved(u) IN
         /\ i = 0 => \A k \in 1 .. Len(observed) : observed[k].uri # u
         /\ i # 0 => i \in 1 .. Len(observed) /\ observed[i].uri = u
<1> DEFINE I == {k \in 1 .. Len(observed) : observed[k].uri = u}
<1>1. FindObserved(u) = IF I # {} THEN Min(I) ELSE 0  BY DEF FindObserved, SelectInSeq
<1>2. CASE I # {}
  <2>1. I \in SUBSET Nat  OBVIOUS
  <2>2. Min(I) \in I  BY <1>2, <2>1, MinFacts
  <2> QED  BY <1>1, <1>2, <2>2
<1>3. CASE I = {}  BY <1>1, <1>3
<1> QED  BY <1>2, <1>3

\* What prv_findWatcher finds.
LEMMA FindWatcherFacts ==
  ASSUME NEW s, NEW list \in Seq(Watcher)
  PROVE  LET j == FindWatcher(list, s) IN
         /\ j = 0 => \A k \in 1 .. Len(list) : list[k].server # s
         /\ j # 0 => j \in 1 .. Len(list) /\ list[j].server = s
<1> DEFINE I == {k \in 1 .. Len(list) : list[k].server = s}
<1>1. FindWatcher(list, s) = IF I # {} THEN Min(I) ELSE 0  BY DEF FindWatcher, SelectInSeq
<1>2. CASE I # {}
  <2>1. I \in SUBSET Nat  OBVIOUS
  <2>2. Min(I) \in I  BY <1>2, <2>1, MinFacts
  <2> QED  BY <1>1, <1>2, <2>2
<1>3. CASE I = {}  BY <1>1, <1>3
<1> QED  BY <1>2, <1>3

\* What is left when an element of a sequence goes.
LEMMA RemoveAtFacts ==
  ASSUME NEW S, NEW q \in Seq(S), NEW i \in 1 .. Len(q)
  PROVE  /\ RemoveAt(q, i) \in Seq(S) /\ Len(RemoveAt(q, i)) = Len(q) - 1
         /\ \A k \in 1 .. Len(q) - 1 : RemoveAt(q, i)[k] = IF k < i THEN q[k] ELSE q[k + 1]
<1> DEFINE a == SubSeq(q, 1, i - 1)
           b == SubSeq(q, i + 1, Len(q))
<1>1. Len(q) \in Nat /\ i \in Nat  BY LenProperties
<1>2. /\ a \in Seq(S) /\ Len(a) = i - 1
      /\ \A k \in 1 .. i - 1 : a[k] = q[k]
  BY <1>1, SubSeqProperties
<1>3. /\ b \in Seq(S) /\ Len(b) = Len(q) - i
      /\ \A k \in 1 .. Len(q) - i : b[k] = q[k + i]
  BY <1>1, SubSeqProperties
<1>4. RemoveAt(q, i) = a \o b  BY DEF RemoveAt
<1> HIDE DEF a, b
<1>5. /\ a \o b \in Seq(S) /\ Len(a \o b) = Len(q) - 1
      /\ \A k \in 1 .. Len(q) - 1 : (a \o b)[k] = IF k <= i - 1 THEN a[k] ELSE b[k - (i - 1)]
    <2>1. Len(a) + Len(b) = Len(q) - 1  BY <1>1, <1>2, <1>3
  <2> DEFINE c == a \o b
  <2>2. /\ c \in Seq(S) /\ Len(c) = Len(a) + Len(b)
        /\ \A k \in 1 .. Len(a) + Len(b) :
             c[k] = IF k <= Len(a) THEN a[k] ELSE b[k - Len(a)]
    BY <1>2, <1>3, ConcatProperties
  <2> HIDE DEF c
  <2>3. /\ c \in Seq(S) /\ Len(c) = Len(q) - 1
        /\ \A k \in 1 .. Len(q) - 1 :
             c[k] = IF k <= i - 1 THEN a[k] ELSE b[k - (i - 1)]
    BY <1>1, <1>2, <2>1, <2>2
  <2> QED  BY <2>3 DEF c
<1> QED  BY <1>1, <1>2, <1>3, <1>4, <1>5

-----------------------------------------------------------------------------
(* The lists                                                               *)

Entry == [uri : Uris, watcherList : Seq(Watcher)]

\* No two watchers for a server.
OneEach(list) ==
  \A j, k \in 1 .. Len(list) : list[j].server = list[k].server => j = k

\* What ListsSound asks of the list of the observed resources.
Shape(obs) ==
  /\ obs \in Seq(Entry)
  /\ \A i, j \in 1 .. Len(obs) : obs[i].uri = obs[j].uri => i = j
  /\ \A i \in 1 .. Len(obs) : obs[i].watcherList # <<>> /\ OneEach(obs[i].watcherList)

\* w watches u.
At(obs, u, w) ==
  \E i \in 1 .. Len(obs) :
    obs[i].uri = u /\ \E j \in 1 .. Len(obs[i].watcherList) : obs[i].watcherList[j] = w

\* The list with w in it.
Put(list, w) ==
  LET j == FindWatcher(list, w.server)
  IN IF j = 0 THEN <<w>> \o list ELSE [list EXCEPT ![j] = w]

\* n is the list with w in it, in the place of the watcher of that server.
IsPut(n, list, w) ==
  /\ n \in Seq(Watcher) /\ n # <<>> /\ OneEach(n)
  /\ \E k \in 1 .. Len(n) : n[k] = w
  /\ \A k \in 1 .. Len(n) : n[k] = w \/ \E l \in 1 .. Len(list) : n[k] = list[l]
  /\ \A l \in 1 .. Len(list) :
       list[l].server = w.server \/ \E k \in 1 .. Len(n) : n[k] = list[l]

\* Putting a watcher into the list of its resource.
LEMMA PutFacts ==
  ASSUME NEW list \in Seq(Watcher), OneEach(list), NEW w \in Watcher,
         NEW n, n = Put(list, w)
  PROVE  IsPut(n, list, w)
<1> DEFINE j == FindWatcher(list, w.server)
<1>1. /\ j = 0 => \A k \in 1 .. Len(list) : list[k].server # w.server
      /\ j # 0 => j \in 1 .. Len(list) /\ list[j].server = w.server
  BY FindWatcherFacts
<1> HIDE DEF j
<1>2. Len(list) \in Nat  BY LenProperties
<1>3. CASE j = 0
  <2>1. n = <<w>> \o list  BY <1>3 DEF j, Put
  <2>2. <<w>> \in Seq(Watcher) /\ Len(<<w>>) = 1 /\ <<w>>[1] = w  OBVIOUS
  <2>3. /\ n \in Seq(Watcher) /\ Len(n) = Len(list) + 1
        /\ \A k \in 1 .. Len(list) + 1 : n[k] = IF k = 1 THEN w ELSE list[k - 1]
    <3> DEFINE a == <<w>>
    <3> HIDE DEF a
    <3>1. a \in Seq(Watcher) /\ Len(a) = 1 /\ a[1] = w  BY <2>2 DEF a
    <3>2. /\ a \o list \in Seq(Watcher) /\ Len(a \o list) = Len(a) + Len(list)
          /\ \A k \in 1 .. Len(a) + Len(list) :
               (a \o list)[k] = IF k <= Len(a) THEN a[k] ELSE list[k - Len(a)]
      BY <3>1, ConcatProperties
    <3>3. n = a \o list  BY <2>1 DEF a
    <3> QED  BY <1>2, <3>1, <3>2, <3>3
  <2>4. n # <<>>  BY <1>2, <2>3
  <2>5. OneEach(n)
    <3> SUFFICES ASSUME NEW k \in 1 .. Len(n), NEW l \in 1 .. Len(n), n[k].server = n[l].server
                 PROVE  k = l
      BY DEF OneEach
    <3>1. k = 1 \/ (k - 1 \in 1 .. Len(list) /\ n[k] = list[k - 1])  BY <1>2, <2>3
    <3>2. l = 1 \/ (l - 1 \in 1 .. Len(list) /\ n[l] = list[l - 1])  BY <1>2, <2>3
    <3>3. n[1] = w  BY <1>2, <2>3
    <3> QED  BY <1>1, <1>2, <1>3, <2>3, <3>1, <3>2, <3>3 DEF OneEach
  <2>6. \E k \in 1 .. Len(n) : n[k] = w
    <3>1. 1 \in 1 .. Len(n) /\ n[1] = w  BY <1>2, <2>3
    <3> QED  BY <3>1
  <2>7. \A k \in 1 .. Len(n) : n[k] = w \/ \E l \in 1 .. Len(list) : n[k] = list[l]
    <3> SUFFICES ASSUME NEW k \in 1 .. Len(n), k # 1
                 PROVE  \E l \in 1 .. Len(list) : n[k] = list[l]
      BY <1>2, <2>3
    <3>1. k - 1 \in 1 .. Len(list) /\ n[k] = list[k - 1]  BY <1>2, <2>3
    <3> QED  BY <3>1
  <2>8. \A l \in 1 .. Len(list) : \E k \in 1 .. Len(n) : n[k] = list[l]
    <3> SUFFICES ASSUME NEW l \in 1 .. Len(list) PROVE \E k \in 1 .. Len(n) : n[k] = list[l]
      OBVIOUS
    <3>1. l + 1 \in 1 .. Len(n) /\ n[l + 1] = list[l]  BY <1>2, <2>3
    <3> QED  BY <3>1
  <2> QED  BY <2>3, <2>4, <2>5, <2>6, <2>7, <2>8 DEF IsPut
<1>4. CASE j # 0
  <2>1. n = [list EXCEPT ![j] = w]  BY <1>4 DEF j, Put
  <2>2. j \in 1 .. Len(list) /\ list[j].server = w.server  BY <1>1, <1>4
  <2>3. /\ n \in Seq(Watcher) /\ Len(n) = Len(list)
        /\ \A k \in 1 .. Len(list) : n[k] = IF k = j THEN w ELSE list[k]
    BY <2>1, <2>2, ExceptSeq
  <2>4. n # <<>>  BY <1>2, <2>2, <2>3
  <2>5. OneEach(n)  BY <2>2, <2>3 DEF OneEach
  <2>6. \A l \in 1 .. Len(list) :
          list[l].server = w.server \/ \E k \in 1 .. Len(n) : n[k] = list[l]
    BY <2>2, <2>3
  <2> QED  BY <2>2, <2>3, <2>4, <2>5, <2>6 DEF IsPut
<1> QED  BY <1>3, <1>4

\* prv_getWatcher leaves the other watchers alone.
LEMMA WithWatcherFacts ==
  ASSUME Shape(observed), NEW s \in Servers, NEW u \in Uris, NEW w \in Watcher, w.server = s,
         NEW n, n = WithWatcher(s, u, w)
  PROVE  /\ Shape(n) /\ At(n, u, w)
         /\ \A t, x : At(n, t, x) => At(observed, t, x) \/ (t = u /\ x = w)
         /\ \A t, x : At(observed, t, x) => At(n, t, x) \/ (t = u /\ x.server = s)
<1> DEFINE i == FindObserved(u)
           list == IF i = 0 THEN <<>> ELSE observed[i].watcherList
           after == Put(list, w)
<1>1. n = IF i = 0 THEN <<[uri |-> u, watcherList |-> after]>> \o observed
                   ELSE [observed EXCEPT ![i].watcherList = after]
  BY DEF WithWatcher, Put
<1>2. /\ i = 0 => \A k \in 1 .. Len(observed) : observed[k].uri # u
      /\ i # 0 => i \in 1 .. Len(observed) /\ observed[i].uri = u
  BY FindObservedFacts DEF Shape, Entry
<1> HIDE DEF i
<1>3. \A k \in 1 .. Len(observed) :
        /\ observed[k] \in Entry /\ observed[k].watcherList # <<>>
        /\ observed[k].watcherList \in Seq(Watcher) /\ OneEach(observed[k].watcherList)
  <2>1. \A k \in 1 .. Len(observed) : observed[k] \in Entry  BY ElementOfSeq DEF Shape
  <2>2. \A k \in 1 .. Len(observed) : observed[k].watcherList \in Seq(Watcher)
    BY <2>1 DEF Entry
  <2> QED  BY <2>1, <2>2 DEF Shape
<1>4. list \in Seq(Watcher) /\ OneEach(list)
  <2>1. <<>> \in Seq(Watcher) /\ OneEach(<<>>)  BY DEF OneEach
  <2> QED  BY <1>2, <1>3, <2>1
<1> HIDE DEF list
<1>5. /\ after \in Seq(Watcher) /\ after # <<>> /\ OneEach(after)
      /\ \E k \in 1 .. Len(after) : after[k] = w
      /\ \A k \in 1 .. Len(after) : after[k] = w \/ \E l \in 1 .. Len(list) : after[k] = list[l]
      /\ \A l \in 1 .. Len(list) :
           list[l].server = w.server \/ \E k \in 1 .. Len(after) : after[k] = list[l]
  <2>1. after = Put(list, w)  OBVIOUS
  <2> HIDE DEF after
  <2>2. IsPut(after, list, w)  BY <1>4, <2>1, PutFacts
  <2> QED  BY <2>2 DEF IsPut
<1> HIDE DEF after
<1>6. Len(observed) \in Nat /\ observed \in Seq(Entry)  BY LenProperties DEF Shape
<1>7. CASE i = 0
  <2> DEFINE e == [uri |-> u, watcherList |-> after]
             a == <<e>>
  <2>1. e \in Entry /\ e.uri = u /\ e.watcherList = after  BY <1>5 DEF Entry
  <2> HIDE DEF e
  <2>2. a \in Seq(Entry) /\ Len(a) = 1 /\ a[1] = e  BY <2>1
  <2>3. n = a \o observed  BY <1>1, <1>7 DEF e
  <2> HIDE DEF a
  <2>4. /\ a \o observed \in Seq(Entry) /\ Len(a \o observed) = Len(a) + Len(observed)
        /\ \A k \in 1 .. Len(a) + Len(observed) :
             (a \o observed)[k] = IF k <= Len(a) THEN a[k] ELSE observed[k - Len(a)]
    BY <1>6, <2>2, ConcatProperties
  <2>5. /\ n \in Seq(Entry) /\ Len(n) = Len(observed) + 1 /\ n[1] = e
        /\ \A k \in 1 .. Len(observed) : n[k + 1] = observed[k]
        /\ \A k \in 1 .. Len(n) : k = 1 \/ (k - 1 \in 1 .. Len(observed) /\ n[k] = observed[k - 1])
        /\ 1 \in 1 .. Len(n) /\ \A k \in 1 .. Len(observed) : k + 1 \in 1 .. Len(n)
    BY <1>6, <2>2, <2>3, <2>4
  <2>6. \A k, l \in 1 .. Len(n) : n[k].uri = n[l].uri => k = l
    <3> SUFFICES ASSUME NEW k \in 1 .. Len(n), NEW l \in 1 .. Len(n), n[k].uri = n[l].uri
                 PROVE  k = l
      OBVIOUS
    <3>1. \/ k = 1 \/ (k - 1 \in 1 .. Len(observed) /\ n[k] = observed[k - 1])  BY <2>5
    <3>2. \/ l = 1 \/ (l - 1 \in 1 .. Len(observed) /\ n[l] = observed[l - 1])  BY <2>5
    <3>3. CASE k = 1 /\ l # 1  BY <1>2, <1>7, <2>1, <2>5, <3>2, <3>3
    <3>4. CASE k # 1 /\ l = 1  BY <1>2, <1>7, <2>1, <2>5, <3>1, <3>4
    <3>5. CASE k # 1 /\ l # 1
      <4>1. observed[k - 1].uri = observed[l - 1].uri  BY <3>1, <3>2, <3>5
      <4>2. k - 1 = l - 1  BY <3>1, <3>2, <3>5, <4>1 DEF Shape
      <4> QED  BY <1>6, <2>5, <4>2
    <3> QED  BY <3>3, <3>4, <3>5
  <2>7. \A k \in 1 .. Len(n) : n[k].watcherList # <<>> /\ OneEach(n[k].watcherList)
    <3> SUFFICES ASSUME NEW k \in 1 .. Len(n)
                 PROVE  n[k].watcherList # <<>> /\ OneEach(n[k].watcherList)
      OBVIOUS
    <3>1. CASE k = 1  BY <1>5, <2>1, <2>5, <3>1
    <3>2. CASE k # 1  BY <1>3, <2>5, <3>2
    <3> QED  BY <3>1, <3>2
  <2>8. At(n, u, w)  BY <1>5, <2>1, <2>5 DEF At
  <2>9. ASSUME NEW t, NEW x, At(n, t, x) PROVE At(observed, t, x) \/ (t = u /\ x = w)
    <3>1. PICK k \in 1 .. Len(n) : n[k].uri = t /\ \E l \in 1 .. Len(n[k].watcherList) :
                                                     n[k].watcherList[l] = x
      BY <2>9 DEF At
    <3>2. CASE k = 1
      <4>1. Len(list) = 0  BY <1>7 DEF list
      <4>2. t = u /\ \E l \in 1 .. Len(after) : after[l] = x  BY <2>1, <2>5, <3>1, <3>2
      <4> QED  BY <1>5, <4>1, <4>2
    <3>3. CASE k # 1
      <4>1. k - 1 \in 1 .. Len(observed) /\ n[k] = observed[k - 1]  BY <2>5, <3>3
      <4> QED  BY <3>1, <4>1 DEF At
    <3> QED  BY <3>2, <3>3
  <2>10. ASSUME NEW t, NEW x, At(observed, t, x) PROVE At(n, t, x)
    <3>1. PICK k \in 1 .. Len(observed) :
            observed[k].uri = t /\ \E l \in 1 .. Len(observed[k].watcherList) :
                                     observed[k].watcherList[l] = x
      BY <2>10 DEF At
    <3>2. k + 1 \in 1 .. Len(n) /\ n[k + 1] = observed[k]  BY <2>5
    <3> QED  BY <3>1, <3>2 DEF At
  <2> QED  BY <2>5, <2>6, <2>7, <2>8, <2>9, <2>10 DEF Shape
<1>8. CASE i # 0
  <2> DEFINE e == [observed[i] EXCEPT !.watcherList = after]
  <2>0. i \in 1 .. Len(observed) /\ observed[i].uri = u /\ list = observed[i].watcherList
    BY <1>2, <1>8 DEF list
  <2>1. e \in Entry /\ e.uri = u /\ e.watcherList = after  BY <1>3, <1>5, <2>0 DEF Entry
  <2>2. n = [observed EXCEPT ![i] = e]  BY <1>1, <1>8
  <2> HIDE DEF e
  <2>3. /\ n \in Seq(Entry) /\ Len(n) = Len(observed)
        /\ \A k \in 1 .. Len(observed) : n[k] = IF k = i THEN e ELSE observed[k]
    BY <1>6, <2>0, <2>1, <2>2, ExceptSeq
  <2>4. \A k \in 1 .. Len(n) : n[k].uri = observed[k].uri  BY <2>0, <2>1, <2>3
  <2>5. \A k, l \in 1 .. Len(n) : n[k].uri = n[l].uri => k = l  BY <2>3, <2>4 DEF Shape
  <2>6. \A k \in 1 .. Len(n) : n[k].watcherList # <<>> /\ OneEach(n[k].watcherList)
    BY <1>3, <1>5, <2>1, <2>3
  <2>7. At(n, u, w)  BY <1>5, <2>0, <2>1, <2>3 DEF At
  <2>8. ASSUME NEW t, NEW x, At(n, t, x) PROVE At(observed, t, x) \/ (t = u /\ x = w)
    <3>1. PICK k \in 1 .. Len(n) : n[k].uri = t /\ \E l \in 1 .. Len(n[k].watcherList) :
                                                     n[k].watcherList[l] = x
      BY <2>8 DEF At
    <3>2. CASE k = i
      <4>1. t = u /\ \E l \in 1 .. Len(after) : after[l] = x  BY <2>1, <2>3, <3>1, <3>2
      <4>2. x = w \/ \E l \in 1 .. Len(list) : x = list[l]  BY <1>5, <4>1
      <4> QED  BY <2>0, <4>1, <4>2 DEF At
    <3>3. CASE k # i
      <4>1. n[k] = observed[k] /\ k \in 1 .. Len(observed)  BY <2>3, <3>3
      <4> QED  BY <3>1, <4>1 DEF At
    <3> QED  BY <3>2, <3>3
  <2>9. ASSUME NEW t, NEW x, At(observed, t, x) PROVE At(n, t, x) \/ (t = u /\ x.server = s)
    <3>1. PICK k \in 1 .. Len(observed) :
            observed[k].uri = t /\ \E l \in 1 .. Len(observed[k].watcherList) :
                                     observed[k].watcherList[l] = x
      BY <2>9 DEF At
    <3>2. CASE k = i
      <4>1. t = u /\ \E l \in 1 .. Len(list) : list[l] = x  BY <2>0, <3>1, <3>2
      <4>2. x.server = s \/ \E l \in 1 .. Len(after) : after[l] = x  BY <1>5, <4>1
      <4>3. n[k] = e /\ k \in 1 .. Len(n)  BY <2>3, <3>2
      <4> QED  BY <2>1, <4>1, <4>2, <4>3 DEF At
    <3>3. CASE k # i
      <4>1. n[k] = observed[k] /\ k \in 1 .. Len(n)  BY <2>3, <3>3
      <4> QED  BY <3>1, <4>1 DEF At
    <3> QED  BY <3>2, <3>3
  <2> QED  BY <2>3, <2>5, <2>6, <2>7, <2>8, <2>9 DEF Shape
<1> QED  BY <1>7, <1>8

\* Watches, of any list of observed resources.
Watched(obs, s, u) ==
  \E i \in DOMAIN obs :
    obs[i].uri = u /\ \E j \in DOMAIN obs[i].watcherList : obs[i].watcherList[j].server = s

\* Who watches, said of the watchers.
LEMMA WatchedIsAt ==
  ASSUME NEW obs, Shape(obs), NEW s, NEW u
  PROVE  Watched(obs, s, u) <=> \E w : At(obs, u, w) /\ w.server = s
<1>1. /\ DOMAIN obs = 1 .. Len(obs)
      /\ \A i \in 1 .. Len(obs) :
           DOMAIN obs[i].watcherList = 1 .. Len(obs[i].watcherList)
  <2>1. \A i \in 1 .. Len(obs) : obs[i] \in Entry  BY ElementOfSeq DEF Shape
  <2>2. \A i \in 1 .. Len(obs) : obs[i].watcherList \in Seq(Watcher)
    BY <2>1 DEF Entry
  <2> QED  BY <2>2, LenProperties DEF Shape
<1> QED  BY <1>1 DEF Watched, At

\* The same of the list there is.
LEMMA WatchesIsAt ==
  ASSUME Shape(observed), NEW s, NEW u
  PROVE  Watches(s, u) <=> \E w : At(observed, u, w) /\ w.server = s
<1>1. Watches(s, u) <=> Watched(observed, s, u)  BY DEF Watches, Watched
<1> QED  BY <1>1, WatchedIsAt

\* prv_getWatcher gives a watcher of that server, which is new or was there.
LEMMA WatcherOfFacts ==
  ASSUME Shape(observed), NEW s \in Servers, NEW u \in Uris
  PROVE  LET w == WatcherOf(s, u) IN
         /\ w \in Watcher /\ w.server = s
         /\ (w = New(s)) \/ At(observed, u, w)
<1> DEFINE w == WatcherOf(s, u)
<1>1. CASE ~Watches(s, u)
  <2>1. w = New(s)  BY <1>1 DEF WatcherOf
  <2>2. New(s) \in Watcher /\ New(s).server = s
    BY ConstantsAssumption DEF New, Watcher, Ages, Mids
  <2> QED  BY <2>1, <2>2
<1>2. CASE Watches(s, u)
  <2> DEFINE i == FindObserved(u)
             list == observed[i].watcherList
             j == FindWatcher(list, s)
  <2>1. w = list[j]  BY <1>2 DEF WatcherOf
  <2>2. PICK x : At(observed, u, x) /\ x.server = s  BY <1>2, WatchesIsAt
  <2>3. PICK k \in 1 .. Len(observed) :
          observed[k].uri = u /\ \E l \in 1 .. Len(observed[k].watcherList) :
                                   observed[k].watcherList[l] = x
    BY <2>2 DEF At
  <2>4. /\ i = 0 => \A m \in 1 .. Len(observed) : observed[m].uri # u
        /\ i # 0 => i \in 1 .. Len(observed) /\ observed[i].uri = u
    BY FindObservedFacts DEF Shape, Entry
  <2> HIDE DEF i
  <2>5. i \in 1 .. Len(observed) /\ observed[i].uri = u /\ i = k
    BY <2>3, <2>4 DEF Shape
  <2>6. observed[i] \in Entry  BY <2>5, ElementOfSeq DEF Shape
  <2>7. list \in Seq(Watcher)  BY <2>6 DEF Entry
  <2>8. \E l \in 1 .. Len(list) : list[l].server = s  BY <2>2, <2>3, <2>5
  <2> HIDE DEF list
  <2>9. /\ j = 0 => \A m \in 1 .. Len(list) : list[m].server # s
        /\ j # 0 => j \in 1 .. Len(list) /\ list[j].server = s
    BY <2>7, FindWatcherFacts
  <2> HIDE DEF j
  <2>10. j \in 1 .. Len(list) /\ list[j].server = s  BY <2>8, <2>9
  <2>11. list[j] \in Watcher  BY <2>7, <2>10, ElementOfSeq
  <2>12. At(observed, u, list[j])  BY <2>5, <2>10 DEF At, list
  <2> HIDE DEF w
  <2> QED  BY <2>1, <2>10, <2>11, <2>12 DEF w
<1> QED  BY <1>1, <1>2

\* Without takes one watcher, and the entry when it was the last one.
LEMMA WithoutFacts ==
  ASSUME Shape(observed), NEW i \in 1 .. Len(observed),
         NEW j \in 1 .. Len(observed[i].watcherList),
         NEW n, n = Without(i, j)
  PROVE  /\ Shape(n)
         /\ \A t, x : At(n, t, x) => At(observed, t, x)
         /\ \A t, x : At(observed, t, x) =>
              At(n, t, x) \/ (t = observed[i].uri /\ x = observed[i].watcherList[j])
<1> DEFINE list == observed[i].watcherList
           rest == RemoveAt(list, j)
<1>0. observed \in Seq(Entry) /\ Len(observed) \in Nat  BY LenProperties DEF Shape
<1>1. observed[i] \in Entry  BY ElementOfSeq DEF Shape
<1>2. list \in Seq(Watcher) /\ OneEach(list) /\ j \in 1 .. Len(list)
  BY <1>1 DEF Entry, Shape
<1>3. n = IF rest = <<>> THEN RemoveAt(observed, i) ELSE [observed EXCEPT ![i].watcherList = rest]
  BY DEF Without
<1> HIDE DEF list
<1>4. /\ rest \in Seq(Watcher) /\ Len(rest) = Len(list) - 1
      /\ \A k \in 1 .. Len(list) - 1 : rest[k] = IF k < j THEN list[k] ELSE list[k + 1]
  BY <1>2, RemoveAtFacts
<1> HIDE DEF rest
<1>5. Len(list) \in Nat  BY <1>2, LenProperties
<1>6. \A k \in 1 .. Len(list) : k = j \/ \E l \in 1 .. Len(rest) : rest[l] = list[k]
  <2> SUFFICES ASSUME NEW k \in 1 .. Len(list), k # j
               PROVE  \E l \in 1 .. Len(rest) : rest[l] = list[k]
    OBVIOUS
  <2>1. CASE k < j
    <3>1. k \in 1 .. Len(rest) /\ rest[k] = list[k]  BY <1>2, <1>4, <1>5, <2>1
    <3> QED  BY <3>1
  <2>2. CASE k > j
    <3> DEFINE m == k - 1
    <3>1. m \in 1 .. Len(list) - 1 /\ m + 1 = k /\ ~(m < j)  BY <1>2, <1>5, <2>2
    <3> HIDE DEF m
    <3>2. m \in 1 .. Len(rest) /\ rest[m] = list[k]  BY <1>4, <3>1
    <3> QED  BY <3>2
  <2> QED  BY <1>2, <1>5, <2>1, <2>2
<1>7. \A l \in 1 .. Len(rest) : \E k \in 1 .. Len(list) : rest[l] = list[k]
  <2> SUFFICES ASSUME NEW l \in 1 .. Len(rest) PROVE \E k \in 1 .. Len(list) : rest[l] = list[k]
    OBVIOUS
  <2>1. l \in 1 .. Len(list) /\ l + 1 \in 1 .. Len(list)  BY <1>4, <1>5
  <2>2. rest[l] = list[l] \/ rest[l] = list[l + 1]  BY <1>4, <1>5
  <2> QED  BY <2>1, <2>2
<1>8. OneEach(rest)
  <2> SUFFICES ASSUME NEW k \in 1 .. Len(rest), NEW l \in 1 .. Len(rest),
                      rest[k].server = rest[l].server
               PROVE  k = l
    BY DEF OneEach
  <2> DEFINE at(m) == IF m < j THEN m ELSE m + 1
  <2>1. /\ at(k) \in 1 .. Len(list) /\ rest[k] = list[at(k)]
        /\ at(l) \in 1 .. Len(list) /\ rest[l] = list[at(l)]
    BY <1>2, <1>4, <1>5
  <2>2. list[at(k)].server = list[at(l)].server  BY <2>1
  <2>3. at(k) = at(l)
    <3> HIDE DEF at
    <3> QED  BY <1>2, <2>1, <2>2 DEF OneEach
  <2> QED  BY <1>2, <1>4, <1>5, <2>3
<1>9. CASE rest = <<>>
  <2>1. n = RemoveAt(observed, i)  BY <1>3, <1>9
  <2>2. /\ n \in Seq(Entry) /\ Len(n) = Len(observed) - 1
        /\ \A k \in 1 .. Len(observed) - 1 :
             n[k] = IF k < i THEN observed[k] ELSE observed[k + 1]
    BY <1>0, <2>1, RemoveAtFacts
  <2> DEFINE at(m) == IF m < i THEN m ELSE m + 1
  <2>3. \A k \in 1 .. Len(n) : at(k) \in 1 .. Len(observed) /\ n[k] = observed[at(k)]
    BY <1>0, <2>2
  <2>4. \A k, l \in 1 .. Len(n) : n[k].uri = n[l].uri => k = l
    <3> SUFFICES ASSUME NEW k \in 1 .. Len(n), NEW l \in 1 .. Len(n), n[k].uri = n[l].uri
                 PROVE  k = l
      OBVIOUS
    <3>1. at(k) = at(l)
      <4> HIDE DEF at
      <4> QED  BY <2>3 DEF Shape
    <3> QED  BY <1>0, <2>2, <3>1
  <2>5. \A k \in 1 .. Len(n) : n[k].watcherList # <<>> /\ OneEach(n[k].watcherList)
    <3> HIDE DEF at
    <3> QED  BY <2>3 DEF Shape
  <2>6. ASSUME NEW t, NEW x, At(n, t, x) PROVE At(observed, t, x)
    <3> HIDE DEF at
    <3> QED  BY <2>3, <2>6 DEF At
  <2>7. ASSUME NEW t, NEW x, At(observed, t, x)
        PROVE  At(n, t, x) \/ (t = observed[i].uri /\ x = observed[i].watcherList[j])
    <3>1. PICK k \in 1 .. Len(observed) :
            observed[k].uri = t /\ \E l \in 1 .. Len(observed[k].watcherList) :
                                     observed[k].watcherList[l] = x
      BY <2>7 DEF At
    <3>2. CASE k = i
      <4>1. Len(list) = 1 /\ j = 1
        <5>1. Len(rest) = 0 /\ Len(rest) = Len(list) - 1  BY <1>4, <1>9
        <5>2. j \in 1 .. Len(list)  BY <1>2
        <5>3. Len(list) = 1  BY <1>5, <5>1
        <5> QED  BY <5>2, <5>3
      <4>2. \E l \in 1 .. Len(list) : list[l] = x  BY <3>1, <3>2 DEF list
      <4>3. x = list[j]  BY <4>1, <4>2
      <4> QED  BY <3>1, <3>2, <4>3 DEF list
    <3>3. CASE k < i
      <4>1. k \in 1 .. Len(n) /\ n[k] = observed[k]  BY <1>0, <2>2, <3>3
      <4> QED  BY <3>1, <4>1 DEF At
    <3>4. CASE k > i
      <4>1. k - 1 \in 1 .. Len(n) /\ n[k - 1] = observed[k]  BY <1>0, <2>2, <3>4
      <4> QED  BY <3>1, <4>1 DEF At
    <3> QED  BY <1>0, <3>2, <3>3, <3>4
  <2> QED  BY <2>2, <2>4, <2>5, <2>6, <2>7 DEF Shape
<1>10. CASE rest # <<>>
  <2> DEFINE e == [observed[i] EXCEPT !.watcherList = rest]
  <2>1. e \in Entry /\ e.uri = observed[i].uri /\ e.watcherList = rest
    BY <1>1, <1>4 DEF Entry
  <2>2. n = [observed EXCEPT ![i] = e]  BY <1>3, <1>10
  <2> HIDE DEF e
  <2>3. /\ n \in Seq(Entry) /\ Len(n) = Len(observed)
        /\ \A k \in 1 .. Len(observed) : n[k] = IF k = i THEN e ELSE observed[k]
    BY <1>0, <2>1, <2>2, ExceptSeq
  <2>4. \A k \in 1 .. Len(n) : n[k].uri = observed[k].uri  BY <2>1, <2>3
  <2>5. \A k, l \in 1 .. Len(n) : n[k].uri = n[l].uri => k = l  BY <2>3, <2>4 DEF Shape
  <2>6. \A k \in 1 .. Len(n) : n[k].watcherList # <<>> /\ OneEach(n[k].watcherList)
    BY <1>8, <1>10, <2>1, <2>3 DEF Shape
  <2>7. ASSUME NEW t, NEW x, At(n, t, x) PROVE At(observed, t, x)
    <3>1. PICK k \in 1 .. Len(n) : n[k].uri = t /\ \E l \in 1 .. Len(n[k].watcherList) :
                                                     n[k].watcherList[l] = x
      BY <2>7 DEF At
    <3>2. CASE k = i
      <4>1. t = observed[i].uri /\ \E l \in 1 .. Len(rest) : rest[l] = x
        BY <2>1, <2>3, <3>1, <3>2
      <4>2. \E l \in 1 .. Len(list) : list[l] = x  BY <1>7, <4>1
      <4> QED  BY <4>1, <4>2 DEF At, list
    <3>3. CASE k # i
      <4>1. n[k] = observed[k] /\ k \in 1 .. Len(observed)  BY <2>3, <3>3
      <4> QED  BY <3>1, <4>1 DEF At
    <3> QED  BY <3>2, <3>3
  <2>8. ASSUME NEW t, NEW x, At(observed, t, x)
        PROVE  At(n, t, x) \/ (t = observed[i].uri /\ x = observed[i].watcherList[j])
    <3>1. PICK k \in 1 .. Len(observed) :
            observed[k].uri = t /\ \E l \in 1 .. Len(observed[k].watcherList) :
                                     observed[k].watcherList[l] = x
      BY <2>8 DEF At
    <3>2. CASE k = i
      <4>1. t = observed[i].uri /\ \E l \in 1 .. Len(list) : list[l] = x
        BY <3>1, <3>2 DEF list
      <4>2. x = list[j] \/ \E l \in 1 .. Len(rest) : rest[l] = x  BY <1>6, <4>1
      <4>3. n[k] = e /\ k \in 1 .. Len(n)  BY <2>3, <3>2
      <4> QED  BY <2>1, <4>1, <4>2, <4>3 DEF At, list
    <3>3. CASE k # i
      <4>1. n[k] = observed[k] /\ k \in 1 .. Len(n)  BY <2>3, <3>3
      <4> QED  BY <3>1, <4>1 DEF At
    <3> QED  BY <3>2, <3>3
  <2> QED  BY <2>3, <2>5, <2>6, <2>7, <2>8 DEF Shape
<1> QED  BY <1>9, <1>10

-----------------------------------------------------------------------------
(* The invariant                                                           *)

\* Watcher w of a resource with the value v knows what its server was told, and is tagged
\* when that is out of date.
Fits(w, v) == w.active => w.lastValue = w.told /\ (w.told # v => w.update)

\* The loop, which sleeps for n seconds, is back in time for watcher w.
Waits(w, v, n) ==
  w.active =>
    /\ "max" \in w.toSet => n <= maxPeriod - w.age
    /\ w.told # v =>
         /\ w.toSet # {}
         /\ "min" \in w.toSet => n <= minPeriod - w.age
         /\ "less" \in w.toSet /\ "min" \notin w.toSet => ~Apart(v, w.told) /\ ~Apart(w.told, v)

\* Of all watchers in the list obs, when the resources have the values val.
AllFit(obs, val) == \A u \in Uris, w \in Watcher : At(obs, u, w) => Fits(w, val[u])
AllWait(obs, val, n) == \A u \in Uris, w \in Watcher : At(obs, u, w) => Waits(w, val[u], n)

IInv ==
  /\ TypeOK /\ Shape(observed) /\ AllFit(observed, value)
  /\ ~awake => AllWait(observed, value, sleep)

\* Entries and watchers are of their types.
LEMMA AtTyped ==
  ASSUME NEW obs, Shape(obs), NEW u, NEW w, At(obs, u, w)
  PROVE  u \in Uris /\ w \in Watcher
<1>1. PICK i \in 1 .. Len(obs) :
        obs[i].uri = u /\ \E j \in 1 .. Len(obs[i].watcherList) : obs[i].watcherList[j] = w
  BY DEF At
<1>2. obs[i] \in Entry  BY ElementOfSeq DEF Shape
<1>3. u \in Uris /\ obs[i].watcherList \in Seq(Watcher)  BY <1>1, <1>2 DEF Entry
<1> QED  BY <1>1, <1>3, ElementOfSeq

\* The periods are numbers.
LEMMA PeriodFacts ==
  /\ minPeriod \in Nat \ {0} /\ maxPeriod \in Nat \ {0} /\ Sleep \in Nat \ {0}
  /\ minPeriod <= maxPeriod /\ lessThan \in Int
  /\ 0 \in Mids /\ LWM2M_MAX_ID \in Mids
BY ConstantsAssumption DEF Mids

\* What a step keeps that is no cancellation: every observation.
Kept == IInv' /\ \A t \in Servers, u \in Uris : Watches(t, u) => Watches(t, u)'

\* A request that puts a watcher into the lists keeps them, and the loop will see to it.
LEMMA PutKeeps ==
  ASSUME IInv, NEW s \in Servers, NEW u \in Uris, NEW w \in Watcher, w.server = s,
         Fits(w, value[u]), observed' = WithWatcher(s, u, w),
         from' = Nobody, awake' = TRUE, sleep' = 0, value' = value
  PROVE  Kept
<1>1. Shape(observed) /\ AllFit(observed, value) /\ value \in [Uris -> Values]
  BY DEF IInv, TypeOK
<1>2. /\ Shape(observed') /\ At(observed', u, w)
      /\ \A t, x : At(observed', t, x) => At(observed, t, x) \/ (t = u /\ x = w)
      /\ \A t, x : At(observed, t, x) => At(observed', t, x) \/ (t = u /\ x.server = s)
  BY <1>1, WithWatcherFacts
<1>3. AllFit(observed', value')
  <2> SUFFICES ASSUME NEW t \in Uris, NEW x \in Watcher, At(observed', t, x)
               PROVE  Fits(x, value[t])
    BY DEF AllFit
  <2>1. At(observed, t, x) \/ (t = u /\ x = w)  BY <1>2
  <2> QED  BY <1>1, <2>1 DEF AllFit
<1>4. TypeOK'
  <2>1. observed' \in Seq([uri : Uris, watcherList : Seq(Watcher)])  BY <1>2 DEF Shape, Entry
  <2>2. sleep' \in 0 .. Sleep  BY PeriodFacts
  <2> QED  BY <1>1, <2>1, <2>2 DEF TypeOK
<1>5. IInv'  BY <1>2, <1>3, <1>4 DEF IInv
<1>6. ASSUME NEW t \in Servers, NEW x \in Uris, Watches(t, x) PROVE Watches(t, x)'
  <2>1. PICK y : At(observed, x, y) /\ y.server = t  BY <1>1, <1>6, WatchesIsAt
  <2>2. At(observed', x, y) \/ (x = u /\ t = s)  BY <1>2, <2>1
  <2>3. At(observed', u, w) /\ w.server = s  BY <1>2
  <2>4. \E z : At(observed', x, z) /\ z.server = t  BY <2>1, <2>2, <2>3
  <2>5. Watched(observed', t, x)  BY <1>2, <2>4, WatchedIsAt
  <2> QED  BY <2>5 DEF Watched, Watches
<1> QED  BY <1>5, <1>6 DEF Kept

\* observe_handleRequest keeps the lists, when it registers ...
LEMMA RegisterKeeps ==
  ASSUME IInv, NEW s \in Servers, NEW u \in Uris, Register(s, u)
  PROVE  Kept
<1> DEFINE old == WatcherOf(s, u)
           v == value[u]
           w == [old EXCEPT !.active = TRUE, !.age = 0, !.lastValue = v, !.told = v]
<1>1. /\ Shape(observed) /\ AllFit(observed, value) /\ v \in Values
      /\ observed' = WithWatcher(s, u, w)
      /\ from' = Nobody /\ awake' = TRUE /\ sleep' = 0 /\ value' = value
  BY DEF IInv, TypeOK, Register
<1>2. old \in Watcher /\ old.server = s /\ (old = New(s) \/ At(observed, u, old))
  BY <1>1, WatcherOfFacts
<1> HIDE DEF old, v
<1>4. 0 \in Ages  BY PeriodFacts DEF Ages
<1>5. w \in Watcher  BY <1>1, <1>2, <1>4 DEF Watcher
<1>6. /\ w.server = s /\ w.lastValue = v /\ w.told = v
  BY <1>2 DEF Watcher
<1> HIDE DEF w
<1>7. Fits(w, v)  BY <1>6 DEF Fits
<1>8. Fits(w, value[u])  BY <1>7 DEF v
<1> QED  BY <1>1, <1>5, <1>6, <1>8, PutKeeps

\* ... and observe_setParameters, when it sets or clears.
LEMMA SetParametersKeeps ==
  ASSUME IInv, NEW s \in Servers, NEW u \in Uris, SetParameters(s, u)
  PROVE  Kept
<1> DEFINE old == WatcherOf(s, u)
<1>1. /\ Shape(observed) /\ AllFit(observed, value)
      /\ from' = Nobody /\ awake' = TRUE /\ sleep' = 0 /\ value' = value
  BY DEF IInv, TypeOK, SetParameters
<1>2. PICK w \in Changed(old) : observed' = WithWatcher(s, u, w)  BY DEF SetParameters
<1>3. old \in Watcher /\ old.server = s /\ (old = New(s) \/ At(observed, u, old))
  BY <1>1, WatcherOfFacts
<1>4. Fits(old, value[u])
  BY <1>1, <1>3 DEF AllFit, Fits, New
<1> HIDE DEF old
<1>5. ASSUME NEW set \in SUBSET Flags, w = [old EXCEPT !.parameters = TRUE, !.toSet = set]
      PROVE  Kept
  <2>1. /\ w \in Watcher /\ w.server = s /\ w.active = old.active
        /\ w.lastValue = old.lastValue /\ w.told = old.told /\ w.update = old.update
    BY <1>3, <1>5 DEF Watcher
  <2>2. Fits(w, value[u])  BY <1>3, <1>4, <2>1 DEF Fits
  <2> QED  BY <1>1, <1>2, <2>1, <2>2, PutKeeps
<1>6. CASE w = old  BY <1>1, <1>2, <1>3, <1>4, <1>6, PutKeeps
<1>7. CASE old.parameters
  <2>1. PICK flag \in Clears : w = [old EXCEPT !.toSet = @ \ {flag}]  BY <1>2, <1>7 DEF Changed
  <2>2. old.toSet \ {flag} \in SUBSET Flags  BY <1>3 DEF Watcher
  <2>3. w = [old EXCEPT !.parameters = TRUE, !.toSet = old.toSet \ {flag}]
    BY <1>3, <1>7, <2>1 DEF Watcher
  <2> QED  BY <1>5, <2>2, <2>3
<1>8. CASE ~old.parameters
  <2>1. w = old \/ \E set \in Attributes : w = [old EXCEPT !.parameters = TRUE, !.toSet = set]
    BY <1>2, <1>8 DEF Changed
  <2> QED  BY <1>5, <1>6, <2>1, ConstantsAssumption
<1>9. old.parameters \in BOOLEAN  BY <1>3 DEF Watcher
<1> QED  BY <1>7, <1>8, <1>9

\* s cancels with the id mid: who loses an observation is s, or exposed to that id, and
\* nobody loses another one.
Cancelled(s, mid) ==
  \A t \in Servers, u \in Uris : Lost(t, u) =>
    /\ t = s \/ Exposed(t, u, mid)
    /\ \A r \in Servers, x \in Uris : Lost(r, x) => r = t /\ x = u

\* A cancellation takes one watcher, if any, which it may take.
LEMMA UnobserveKeeps ==
  ASSUME IInv, NEW s \in Servers, Unobserve(s)
  PROVE  IInv' /\ \E mid \in Mids : from' = <<s, mid>> /\ Cancelled(s, mid)
<1>1. /\ Shape(observed) /\ AllFit(observed, value) /\ value \in [Uris -> Values]
      /\ awake' = TRUE /\ sleep' = 0 /\ value' = value
  BY DEF IInv, TypeOK, Unobserve
<1>2. PICK mid \in Mids : Cancel(s, mid) /\ from' = <<s, mid>>
  BY DEF Unobserve
<1>3. sleep' \in 0 .. Sleep /\ from' \in (Servers \X Mids) \union {Nobody}
  BY <1>1, <1>2, PeriodFacts
<1>4. CASE UNCHANGED observed
  <2>1. TypeOK'  BY <1>1, <1>3, <1>4 DEF IInv, TypeOK
  <2>2. IInv'  BY <1>1, <1>4, <2>1 DEF IInv
  <2>3. \A t \in Servers, u \in Uris : Watches(t, u) => Watches(t, u)'
    BY <1>4 DEF Watches
  <2>4. Cancelled(s, mid)  BY <2>3 DEF Cancelled, Lost
  <2> QED  BY <1>2, <2>2, <2>4
<1>5. ASSUME NEW i \in DOMAIN observed, NEW j \in DOMAIN observed[i].watcherList,
             Takes(s, mid, observed[i].watcherList, j), observed' = Without(i, j)
      PROVE  IInv' /\ Cancelled(s, mid)
  <2> DEFINE list == observed[i].watcherList
             u == observed[i].uri
  <2>1. i \in 1 .. Len(observed)  BY <1>1, <1>5 DEF Shape
  <2>2. observed[i] \in Entry  BY <1>1, <2>1, ElementOfSeq DEF Shape
  <2>3. list \in Seq(Watcher)  BY <2>2 DEF Entry
  <2>4. j \in 1 .. Len(list)  BY <1>5, <2>3
  <2>5. list[j] \in Watcher  BY <2>3, <2>4, ElementOfSeq
  <2>6. /\ Shape(observed')
        /\ \A t, x : At(observed', t, x) => At(observed, t, x)
        /\ \A t, x : At(observed, t, x) => At(observed', t, x) \/ (t = u /\ x = list[j])
    <3>1. j \in 1 .. Len(observed[i].watcherList)  BY <2>4
    <3> QED  BY <1>1, <1>5, <2>1, <3>1, WithoutFacts
  <2>7. AllFit(observed', value')  BY <1>1, <2>6 DEF AllFit
  <2>8. TypeOK'
    <3>1. observed' \in Seq([uri : Uris, watcherList : Seq(Watcher)])
      BY <2>6 DEF Shape, Entry
    <3> QED  BY <1>1, <1>3, <3>1 DEF TypeOK
  <2>9. IInv'  BY <1>1, <2>6, <2>7, <2>8 DEF IInv
  <2>10. ASSUME NEW t \in Servers, NEW x \in Uris, Lost(t, x)
         PROVE  t = list[j].server /\ x = u
    <3>1. PICK y : At(observed, x, y) /\ y.server = t
      BY <1>1, <2>10, WatchesIsAt DEF Lost
    <3>2. ~At(observed', x, y)
      <4>1. ~Watched(observed', t, x)  BY <2>10 DEF Lost, Watched, Watches
      <4> QED  BY <2>6, <3>1, <4>1, WatchedIsAt
    <3> QED  BY <2>6, <3>1, <3>2
  <2>11. list[j].server = s \/ Exposed(list[j].server, u, mid)
    <3>1. CASE j = 1  BY <1>5, <3>1 DEF Takes
    <3>2. CASE j # 1
      <4>1. list[j].lastMid = mid  BY <1>5, <3>2 DEF Takes
      <4>2. j \in DOMAIN observed[i].watcherList \ {1}  BY <3>2
      <4> QED  BY <4>1, <4>2 DEF Exposed
    <3> QED  BY <3>1, <3>2
  <2> HIDE DEF list, u
  <2>12. Cancelled(s, mid)  BY <2>10, <2>11 DEF Cancelled
  <2> QED  BY <2>9, <2>12
<1>6. UNCHANGED observed \/
      \E i \in DOMAIN observed : \E j \in DOMAIN observed[i].watcherList :
        Takes(s, mid, observed[i].watcherList, j) /\ observed' = Without(i, j)
  <2> DEFINE found == {p \in UNION {{i} \X DOMAIN observed[i].watcherList : i \in DOMAIN observed} :
                         Takes(s, mid, observed[p[1]].watcherList, p[2])}
  <2>1. UNCHANGED observed \/ \E p \in found : observed' = Without(p[1], p[2])
    BY <1>2 DEF Cancel
  <2>2. ASSUME NEW p \in found, observed' = Without(p[1], p[2])
        PROVE  \E i \in DOMAIN observed : \E j \in DOMAIN observed[i].watcherList :
                 Takes(s, mid, observed[i].watcherList, j) /\ observed' = Without(i, j)
    <3>1. PICK i \in DOMAIN observed : p \in {i} \X DOMAIN observed[i].watcherList
      OBVIOUS
    <3>2. p[1] = i /\ p[2] \in DOMAIN observed[i].watcherList
          /\ Takes(s, mid, observed[p[1]].watcherList, p[2])
      BY <3>1
    <3> QED  BY <2>2, <3>2
  <2> QED  BY <2>1, <2>2
<1> QED  BY <1>2, <1>4, <1>5, <1>6

-----------------------------------------------------------------------------
(* The application and the loop                                            *)

\* The list with f[<<u, w>>] in the place of each watcher w of u.
Mapped(f) ==
  [i \in 1 .. Len(observed) |->
    [uri |-> observed[i].uri,
     watcherList |-> [j \in 1 .. Len(observed[i].watcherList) |->
                        f[<<observed[i].uri, observed[i].watcherList[j]>>]]]]

\* f leaves the server alone.
KeepsServer(f) ==
  \A u \in Uris, w \in Watcher : f[<<u, w>>] \in Watcher /\ f[<<u, w>>].server = w.server

\* Changing every watcher in its place keeps the lists.
LEMMA MappedFacts ==
  ASSUME Shape(observed), NEW f, KeepsServer(f), NEW n, n = Mapped(f)
  PROVE  /\ Shape(n)
         /\ \A u, x : At(n, u, x) => \E w : At(observed, u, w) /\ x = f[<<u, w>>]
         /\ \A u, w : At(observed, u, w) => At(n, u, f[<<u, w>>])
<1>0. observed \in Seq(Entry) /\ Len(observed) \in Nat /\ DOMAIN observed = 1 .. Len(observed)
  BY LenProperties DEF Shape
<1>1. ASSUME NEW i \in 1 .. Len(observed)
      PROVE  /\ n[i] \in Entry /\ n[i].uri = observed[i].uri
             /\ Len(n[i].watcherList) = Len(observed[i].watcherList)
             /\ \A j \in 1 .. Len(observed[i].watcherList) :
                  n[i].watcherList[j] = f[<<observed[i].uri, observed[i].watcherList[j]>>]
             /\ n[i].watcherList # <<>> /\ OneEach(n[i].watcherList)
  <2> DEFINE old == observed[i].watcherList
             u == observed[i].uri
             new == [j \in 1 .. Len(old) |-> f[<<u, old[j]>>]]
  <2>1. observed[i] \in Entry  BY <1>0, ElementOfSeq
  <2>2. /\ old \in Seq(Watcher) /\ Len(old) \in Nat /\ old # <<>> /\ OneEach(old)
        /\ DOMAIN old = 1 .. Len(old) /\ u \in Uris
    BY <2>1, LenProperties DEF Entry, Shape
  <2>3. n[i] = [uri |-> u, watcherList |-> new]  BY <1>0 DEF Mapped
  <2> HIDE DEF old, u
  <2>4. \A j \in 1 .. Len(old) : old[j] \in Watcher  BY <2>2, ElementOfSeq
  <2>5. \A j \in 1 .. Len(old) : new[j] \in Watcher /\ new[j].server = old[j].server
    BY <2>2, <2>4 DEF KeepsServer
  <2>6. new \in Seq(Watcher) /\ Len(new) = Len(old)  BY <2>2, <2>5
  <2>7. \A j \in 1 .. Len(old) : new[j] = f[<<u, old[j]>>]  OBVIOUS
  <2> HIDE DEF new
  <2>8. n[i] \in Entry /\ n[i].uri = u /\ n[i].watcherList = new
    BY <2>2, <2>3, <2>6 DEF Entry
  <2>9. Len(old) # 0  BY <2>2, EmptySeq
  <2>10. new # <<>>  BY <2>6, <2>9
  <2>11. OneEach(new)  BY <2>2, <2>5, <2>6 DEF OneEach
  <2> QED  BY <2>6, <2>7, <2>8, <2>10, <2>11 DEF old, u
<1>2. n \in Seq(Entry) /\ Len(n) = Len(observed)
  <2>1. n = [i \in 1 .. Len(observed) |-> n[i]]  BY <1>0 DEF Mapped
  <2>2. \A i \in 1 .. Len(observed) : n[i] \in Entry  BY <1>1
  <2> QED  BY <1>0, <2>1, <2>2
<1>3. Shape(n)
  BY <1>1, <1>2 DEF Shape
<1>4. ASSUME NEW u, NEW x, At(n, u, x) PROVE \E w : At(observed, u, w) /\ x = f[<<u, w>>]
  <2>1. PICK i \in 1 .. Len(observed) :
          n[i].uri = u /\ \E j \in 1 .. Len(n[i].watcherList) : n[i].watcherList[j] = x
    BY <1>2, <1>4 DEF At
  <2>2. PICK j \in 1 .. Len(observed[i].watcherList) : n[i].watcherList[j] = x
    BY <1>1, <2>1
  <2>3. At(observed, u, observed[i].watcherList[j])  BY <1>1, <2>1 DEF At
  <2>4. x = f[<<u, observed[i].watcherList[j]>>]  BY <1>1, <2>1, <2>2
  <2> QED  BY <2>3, <2>4
<1>5. ASSUME NEW u, NEW w, At(observed, u, w) PROVE At(n, u, f[<<u, w>>])
  <2>1. PICK i \in 1 .. Len(observed) :
          observed[i].uri = u /\ \E j \in 1 .. Len(observed[i].watcherList) :
                                   observed[i].watcherList[j] = w
    BY <1>5 DEF At
  <2>2. PICK j \in 1 .. Len(observed[i].watcherList) : observed[i].watcherList[j] = w
    BY <2>1
  <2>3. n[i].uri = u /\ n[i].watcherList[j] = f[<<u, w>>] /\ j \in 1 .. Len(n[i].watcherList)
    BY <1>1, <2>1, <2>2
  <2> QED  BY <1>2, <2>3 DEF At
<1> QED  BY <1>3, <1>4, <1>5

\* Entries and watchers are where they can be looked up.
LEMMA ElementFacts ==
  ASSUME Shape(observed)
  PROVE  /\ DOMAIN observed = 1 .. Len(observed)
         /\ \A i \in 1 .. Len(observed) :
              /\ observed[i] = [uri |-> observed[i].uri, watcherList |-> observed[i].watcherList]
              /\ observed[i].uri \in Uris
              /\ DOMAIN observed[i].watcherList = 1 .. Len(observed[i].watcherList)
              /\ \A j \in 1 .. Len(observed[i].watcherList) :
                   observed[i].watcherList[j] \in Watcher
<1>1. observed \in Seq(Entry) /\ DOMAIN observed = 1 .. Len(observed)
  BY LenProperties DEF Shape
<1>2. ASSUME NEW i \in 1 .. Len(observed)
      PROVE  /\ observed[i] \in Entry /\ observed[i].watcherList \in Seq(Watcher)
             /\ DOMAIN observed[i].watcherList = 1 .. Len(observed[i].watcherList)
             /\ \A j \in 1 .. Len(observed[i].watcherList) :
                  observed[i].watcherList[j] \in Watcher
  <2>1. observed[i] \in Entry  BY <1>1, ElementOfSeq
  <2>2. observed[i].watcherList \in Seq(Watcher)  BY <2>1 DEF Entry
  <2> QED  BY <2>1, <2>2, LenProperties, ElementOfSeq
<1>3. ASSUME NEW i \in 1 .. Len(observed)
      PROVE  /\ observed[i] = [uri |-> observed[i].uri, watcherList |-> observed[i].watcherList]
             /\ observed[i].uri \in Uris
  BY <1>2 DEF Entry
<1> QED  BY <1>1, <1>2, <1>3

\* Every watcher stays, whatever becomes of it in its place.
LEMMA MappedKeeps ==
  ASSUME Shape(observed), NEW f, KeepsServer(f), observed' = Mapped(f),
         NEW t, NEW u, Watches(t, u)
  PROVE  Watches(t, u)'
<1>1. /\ Shape(observed')
      /\ \A y, w : At(observed, y, w) => At(observed', y, f[<<y, w>>])
  BY MappedFacts
<1>2. PICK w : At(observed, u, w) /\ w.server = t  BY WatchesIsAt
<1>3. u \in Uris /\ w \in Watcher  BY <1>2, AtTyped
<1>4. At(observed', u, f[<<u, w>>]) /\ f[<<u, w>>].server = t  BY <1>1, <1>2, <1>3 DEF KeepsServer
<1>5. Watched(observed', t, u)  BY <1>1, <1>4, WatchedIsAt
<1> QED  BY <1>5 DEF Watched, Watches

\* lwm2m_resource_value_changed tags every watcher of the resource that it owes something.
LEMMA ChangeKeeps ==
  ASSUME IInv, NEW u \in Uris, Change(u)
  PROVE  Kept
<1> DEFINE f == [p \in Uris \X Watcher |->
                   IF p[1] = u /\ p[2].active THEN [p[2] EXCEPT !.update = TRUE] ELSE p[2]]
<1>1. /\ Shape(observed) /\ AllFit(observed, value) /\ value \in [Uris -> Values]
      /\ from' = Nobody /\ awake' = TRUE /\ sleep' = 0
  BY DEF IInv, TypeOK, Change
<1>2. PICK v \in Values : value' = [value EXCEPT ![u] = v]  BY DEF Change
<1>3. \A t \in Uris, w \in Watcher :
        f[<<t, w>>] = IF t = u /\ w.active THEN [w EXCEPT !.update = TRUE] ELSE w
  OBVIOUS
<1> HIDE DEF f
<1>4. observed' = Mapped(f)
  <2>1. ASSUME NEW i \in 1 .. Len(observed)
        PROVE  [observed[i] EXCEPT !.watcherList =
                  [j \in DOMAIN @ |-> IF observed[i].uri = u /\ @[j].active
                                      THEN [@[j] EXCEPT !.update = TRUE] ELSE @[j]]]
               = [uri |-> observed[i].uri,
                  watcherList |-> [j \in 1 .. Len(observed[i].watcherList) |->
                        f[<<observed[i].uri, observed[i].watcherList[j]>>]]]
    <3> DEFINE list == observed[i].watcherList
               new == [j \in DOMAIN list |-> IF observed[i].uri = u /\ list[j].active
                                             THEN [list[j] EXCEPT !.update = TRUE] ELSE list[j]]
    <3>1. /\ observed[i] = [uri |-> observed[i].uri, watcherList |-> list]
          /\ observed[i].uri \in Uris /\ DOMAIN list = 1 .. Len(list)
          /\ \A j \in 1 .. Len(list) : list[j] \in Watcher
      BY <1>1, ElementFacts
    <3> HIDE DEF list
    <3>2. new = [j \in 1 .. Len(list) |-> f[<<observed[i].uri, list[j]>>]]
      BY <1>3, <3>1
    <3> HIDE DEF new
    <3>3. [observed[i] EXCEPT !.watcherList = new]
          = [uri |-> observed[i].uri, watcherList |-> new]
      BY <3>1
    <3> QED  BY <3>2, <3>3 DEF list, new
  <2> QED  BY <1>1, <2>1, ElementFacts DEF Change, Tag, Each, Mapped
<1>5. ASSUME NEW t \in Uris, NEW w \in Watcher
      PROVE  /\ f[<<t, w>>] \in Watcher
             /\ f[<<t, w>>].server = w.server /\ f[<<t, w>>].active = w.active
             /\ f[<<t, w>>].lastValue = w.lastValue /\ f[<<t, w>>].told = w.told
             /\ w.update => f[<<t, w>>].update
             /\ t = u /\ w.active => f[<<t, w>>].update
  <2>1. CASE t = u /\ w.active
    <3>1. f[<<t, w>>] = [w EXCEPT !.update = TRUE]  BY <1>3, <2>1
    <3> QED  BY <3>1 DEF Watcher
  <2>2. CASE ~(t = u /\ w.active)
    <3>1. f[<<t, w>>] = w  BY <1>3, <2>2
    <3> QED  BY <2>2, <3>1
  <2> QED  BY <2>1, <2>2
<1>6. /\ Shape(observed')
      /\ \A t, x : At(observed', t, x) => \E w : At(observed, t, w) /\ x = f[<<t, w>>]
  <2>1. KeepsServer(f)  BY <1>5 DEF KeepsServer
  <2> QED  BY <1>1, <1>4, <2>1, MappedFacts
<1>7. AllFit(observed', value')
  <2> SUFFICES ASSUME NEW t \in Uris, NEW x \in Watcher, At(observed', t, x)
               PROVE  Fits(x, value'[t])
    BY DEF AllFit
  <2>1. PICK w : At(observed, t, w) /\ x = f[<<t, w>>]  BY <1>6
  <2>2. w \in Watcher  BY <1>1, <2>1, AtTyped
  <2>3. Fits(w, value[t])  BY <1>1, <2>1, <2>2 DEF AllFit
  <2>4. t # u => value'[t] = value[t]  BY <1>1, <1>2
  <2>5. /\ x.active = w.active
        /\ x.lastValue = w.lastValue /\ x.told = w.told
        /\ w.update => x.update
        /\ t = u /\ w.active => x.update
    BY <1>5, <2>1, <2>2
  <2> QED  BY <2>3, <2>4, <2>5 DEF Fits
<1>8. TypeOK'
  <2>1. observed' \in Seq([uri : Uris, watcherList : Seq(Watcher)])  BY <1>6 DEF Shape, Entry
  <2>2. sleep' \in 0 .. Sleep  BY <1>1, PeriodFacts
  <2> QED  BY <1>1, <1>2, <2>1, <2>2 DEF TypeOK
<1>9. IInv'  BY <1>1, <1>6, <1>7, <1>8 DEF IInv
<1>10. KeepsServer(f)  BY <1>5 DEF KeepsServer
<1> QED  BY <1>1, <1>4, <1>9, <1>10, MappedKeeps DEF Kept

\* What a watcher of u is looked up by.
Of(u) == [uri |-> u]

\* observe_step tells a server what it must, and asks to be back for the rest in time: n
\* seconds are no longer than any interval that it asks for.
LEMMA NotifiedWaits ==
  ASSUME value \in [Uris -> Values], NEW u \in Uris, NEW w \in Watcher, Fits(w, value[u]),
         NEW mid, NEW x, x = Notified(Of(u), w, mid), NEW n \in Nat, \A k \in Intervals(Of(u), w) : n <= k
  PROVE  Fits(x, value[u]) /\ Waits(x, value[u], n)
<1> DEFINE v == value[u]
<1>1. /\ v \in Values /\ v \in Int /\ w.age \in Nat /\ w.age <= maxPeriod
      /\ w.active \in BOOLEAN /\ w.update \in BOOLEAN
      /\ w.lastValue \in Int
  BY ConstantsAssumption DEF Watcher, Ages
<1>2. w.active => w.lastValue = w.told /\ (w.told # v => w.update)
  BY DEF Fits
<1>3. Of(u).uri = u  BY DEF Of
<1>4. CASE Notify(Of(u), w)
  <2>1. x = [w EXCEPT !.update = FALSE, !.age = 0, !.lastMid = mid[<<w.server, u>>],
                      !.lastValue = v, !.told = v]
    BY <1>3, <1>4 DEF Notified
  <2> HIDE DEF v
  <2>2. x.lastValue = v /\ x.told = v /\ x.age = 0 /\ x.toSet = w.toSet
    BY <2>1 DEF Watcher
  <2>3. w.active  BY <1>4 DEF Notify
  <2>4. "max" \in x.toSet => n <= maxPeriod - x.age
    <3> SUFFICES ASSUME "max" \in w.toSet PROVE n <= maxPeriod
      BY <2>2, PeriodFacts
    <3>1. maxPeriod - 0 \in Intervals(Of(u), w)  BY <1>4, <2>3 DEF Intervals
    <3>2. n <= maxPeriod - 0  BY <3>1
    <3> QED  BY <3>2, PeriodFacts
  <2>5. Fits(x, v)  BY <2>2 DEF Fits
  <2>6. Waits(x, v, n)  BY <2>2, <2>4 DEF Waits
  <2> QED  BY <2>5, <2>6 DEF v
<1>5. CASE ~Notify(Of(u), w)
  <2>1. x = w  BY <1>5 DEF Notified
  <2>2. ASSUME w.active, "max" \in w.toSet PROVE n <= maxPeriod - w.age
    <3>1. maxPeriod - w.age \in Intervals(Of(u), w)  BY <1>5, <2>2 DEF Intervals
    <3> QED  BY <3>1
  <2>3. ASSUME w.active, w.told # v
        PROVE  /\ w.toSet # {}
               /\ "min" \in w.toSet => n <= minPeriod - w.age
               /\ "less" \in w.toSet /\ "min" \notin w.toSet
                    => ~Apart(v, w.told) /\ ~Apart(w.told, v)
    <3>1. w.update /\ w.lastValue = w.told  BY <1>2, <2>3
    <3>2. TooEarly(w) \/ (w.toSet # {} /\ ~Crosses(Of(u), w) /\ "min" \notin w.toSet)
      BY <1>5, <2>3, <3>1 DEF Notify
    <3>3. CASE TooEarly(w)
      <4>1. "min" \in w.toSet  BY <3>3 DEF TooEarly
      <4>2. minPeriod - w.age \in Intervals(Of(u), w)  BY <2>3, <3>3 DEF Intervals
      <4>3. n <= minPeriod - w.age  BY <4>2
      <4> QED  BY <4>1, <4>3
    <3>4. CASE w.toSet # {} /\ ~Crosses(Of(u), w) /\ "min" \notin w.toSet
      <4>1. "less" \in w.toSet => ~(v <= lessThan /\ w.lastValue > lessThan)
                                  /\ ~(v >= lessThan /\ w.lastValue < lessThan)
        BY <1>3, <3>4 DEF Crosses
      <4>2. "less" \in w.toSet => ~Apart(v, w.lastValue) /\ ~Apart(w.lastValue, v)
        BY <1>1, <4>1, PeriodFacts DEF Apart
      <4> QED  BY <3>1, <3>4, <4>2
    <3> QED  BY <3>2, <3>3, <3>4
  <2>4. Waits(w, v, n)  BY <2>2, <2>3 DEF Waits
  <2> QED  BY <2>1, <2>4
<1> QED  BY <1>4, <1>5

\* What observe_step makes of a watcher, and when it wants to look at it again.
LEMMA NotifiedFacts ==
  ASSUME value \in [Uris -> Values], NEW u \in Uris, NEW w \in Watcher,
         NEW mid \in [Servers \X Uris -> Mids]
  PROVE  /\ Notified(Of(u), w, mid) \in Watcher
         /\ Notified(Of(u), w, mid).server = w.server
         /\ Intervals(Of(u), w) \in SUBSET Nat
<1> DEFINE x == Notified(Of(u), w, mid)
<1>1. value[u] \in Values /\ Of(u).uri = u /\ 0 \in Ages  BY PeriodFacts DEF Of, Ages
<1>2. x \in Watcher /\ x.server = w.server
  <2>1. CASE Notify(Of(u), w)
    <3>1. x = [w EXCEPT !.update = FALSE, !.age = 0, !.lastMid = mid[<<w.server, u>>],
                        !.lastValue = value[u], !.told = value[u]]
      BY <1>1, <2>1 DEF Notified
    <3>2. mid[<<w.server, u>>] \in Mids  BY DEF Watcher
    <3> HIDE DEF x
    <3> QED  BY <1>1, <3>1, <3>2 DEF Watcher
  <2>2. CASE ~Notify(Of(u), w)  BY <2>2 DEF Notified
  <2> QED  BY <2>1, <2>2
<1>3. w.age \in 0 .. maxPeriod  BY DEF Watcher, Ages
<1>4. maxPeriod - 0 \in Nat /\ maxPeriod - w.age \in Nat  BY <1>3, PeriodFacts
<1>5. TooEarly(w) => minPeriod - w.age \in Nat  BY <1>3, PeriodFacts DEF TooEarly
<1>6. ASSUME NEW k \in Intervals(Of(u), w) PROVE k \in Nat
  <2>1. \/ k = maxPeriod - 0 \/ k = maxPeriod - w.age
        \/ TooEarly(w) /\ k = minPeriod - w.age
    BY <1>6 DEF Intervals
  <2> QED  BY <1>4, <1>5, <2>1
<1> QED  BY <1>2, <1>6

\* lwm2m_step, before the loop goes to sleep.
LEMMA StepKeeps ==
  ASSUME IInv, Step
  PROVE  Kept
<1>0. PICK ids \in Injection(Due, Mids) : observed' = Each(LAMBDA o, w : Notified(o, w, ids))
  BY DEF Step
<1> DEFINE mid == [p \in Servers \X Uris |-> IF p \in Due THEN ids[p] ELSE 0]
           f == [p \in Uris \X Watcher |-> Notified(Of(p[1]), p[2], mid)]
           asked == UNION {UNION {Intervals(o, w) : w \in ToSet(o.watcherList)} :
                             o \in ToSet(observed)}
<1>1. /\ Shape(observed) /\ AllFit(observed, value) /\ value \in [Uris -> Values]
      /\ from' = Nobody /\ awake' = FALSE /\ value' = value
      /\ sleep' = Min({Sleep} \union asked)
  BY DEF IInv, TypeOK, Step
<1>14. /\ mid \in [Servers \X Uris -> Mids]
      /\ \A p \in Due : mid[p] = ids[p]
  <2>1. ids \in [Due -> Mids]  BY <1>0 DEF Injection
  <2>2. Due \subseteq Servers \X Uris  BY DEF Due
  <2>3. ASSUME NEW p \in Servers \X Uris PROVE mid[p] \in Mids
    BY <2>1, PeriodFacts
  <2> QED  BY <2>2, <2>3
<1> HIDE DEF mid
<1>2. \A u \in Uris, w \in Watcher : f[<<u, w>>] = Notified(Of(u), w, mid)
  OBVIOUS
<1> HIDE DEF f
<1>3. ASSUME NEW i \in 1 .. Len(observed), NEW w
      PROVE  /\ Notified(observed[i], w, mid) = Notified(Of(observed[i].uri), w, mid)
             /\ Intervals(observed[i], w) = Intervals(Of(observed[i].uri), w)
  BY DEF Notified, Intervals, Notify, Crosses, Of
<1>15. ASSUME NEW i \in 1 .. Len(observed), NEW j \in 1 .. Len(observed[i].watcherList)
      PROVE  Notified(observed[i], observed[i].watcherList[j], ids)
             = f[<<observed[i].uri, observed[i].watcherList[j]>>]
  <2> DEFINE w == observed[i].watcherList[j]
             u == observed[i].uri
  <2>1. /\ i \in DOMAIN observed /\ j \in DOMAIN observed[i].watcherList
        /\ u \in Uris /\ w \in Watcher
    BY <1>1, ElementFacts
  <2>2. w.server \in Servers  BY <2>1 DEF Watcher
  <2>3. Notify(observed[i], w) => <<w.server, u>> \in Due  BY <2>1, <2>2 DEF Due
  <2>4. Notified(observed[i], w, ids) = Notified(observed[i], w, mid)
    BY <1>14, <2>3 DEF Notified
  <2>5. Notified(observed[i], w, mid) = Notified(Of(u), w, mid)  BY <1>3
  <2> QED  BY <1>2, <2>1, <2>4, <2>5
<1>4. observed' = Mapped(f)
  <2>1. ASSUME NEW i \in 1 .. Len(observed)
        PROVE  [observed[i] EXCEPT !.watcherList =
                  [j \in DOMAIN @ |-> Notified(observed[i], @[j], ids)]]
               = [uri |-> observed[i].uri,
                  watcherList |-> [j \in 1 .. Len(observed[i].watcherList) |->
                        f[<<observed[i].uri, observed[i].watcherList[j]>>]]]
    <3> DEFINE list == observed[i].watcherList
               new == [j \in DOMAIN list |-> Notified(observed[i], list[j], ids)]
    <3>1. /\ observed[i] = [uri |-> observed[i].uri, watcherList |-> list]
          /\ DOMAIN list = 1 .. Len(list)
      BY <1>1, ElementFacts
    <3>2. new = [j \in 1 .. Len(list) |-> f[<<observed[i].uri, list[j]>>]]
      BY <1>15, <3>1
    <3> HIDE DEF list, new
    <3>3. [observed[i] EXCEPT !.watcherList = new]
          = [uri |-> observed[i].uri, watcherList |-> new]
      BY <3>1
    <3> QED  BY <3>2, <3>3 DEF list, new
  <2> QED  BY <1>0, <1>1, <2>1, ElementFacts DEF Each, Mapped
<1>5. KeepsServer(f)
  <2> SUFFICES ASSUME NEW u \in Uris, NEW w \in Watcher
               PROVE  f[<<u, w>>] \in Watcher /\ f[<<u, w>>].server = w.server
    BY DEF KeepsServer
  <2>1. f[<<u, w>>] = Notified(Of(u), w, mid)  BY <1>2
  <2>2. Notified(Of(u), w, mid) \in Watcher /\ Notified(Of(u), w, mid).server = w.server
    BY <1>1, <1>14, NotifiedFacts
  <2> QED  BY <2>1, <2>2
<1>6. /\ Shape(observed')
      /\ \A t, x : At(observed', t, x) => \E w : At(observed, t, w) /\ x = f[<<t, w>>]
  BY <1>1, <1>4, <1>5, MappedFacts
<1>7. \A u, w : At(observed, u, w) => Intervals(Of(u), w) \subseteq asked
  <2> SUFFICES ASSUME NEW u, NEW w, At(observed, u, w), NEW k \in Intervals(Of(u), w)
               PROVE  k \in asked
    OBVIOUS
  <2>1. PICK i \in 1 .. Len(observed) :
          observed[i].uri = u /\ \E j \in 1 .. Len(observed[i].watcherList) :
                                   observed[i].watcherList[j] = w
    BY DEF At
  <2>2. observed[i] \in ToSet(observed) /\ w \in ToSet(observed[i].watcherList)
    BY <1>1, <2>1, ElementFacts DEF ToSet
  <2>3. k \in Intervals(observed[i], w)  BY <1>3, <2>1
  <2> QED  BY <2>2, <2>3
<1>8. asked \in SUBSET Nat
  <2> SUFFICES ASSUME NEW k \in asked PROVE k \in Nat
    OBVIOUS
  <2>1. PICK o \in ToSet(observed) : \E w \in ToSet(o.watcherList) : k \in Intervals(o, w)
    OBVIOUS
  <2>2. PICK i \in 1 .. Len(observed) : o = observed[i]
    BY <1>1, ElementFacts DEF ToSet
  <2>3. PICK w \in Watcher : k \in Intervals(observed[i], w)
    BY <1>1, <2>1, <2>2, ElementFacts DEF ToSet
  <2>4. observed[i].uri \in Uris  BY <1>1, ElementFacts
  <2>5. k \in Intervals(Of(observed[i].uri), w)  BY <1>3, <2>3
  <2> QED  BY <1>1, <1>14, <2>3, <2>4, <2>5, NotifiedFacts
<1> HIDE DEF asked
<1>9. sleep' \in 0 .. Sleep /\ \A k \in asked : sleep' <= k
  <2> DEFINE S == {Sleep} \union asked
  <2>1. S \in SUBSET Nat /\ S # {}  BY <1>8, PeriodFacts
  <2>2. sleep' = Min(S) /\ Sleep \in S /\ asked \subseteq S  BY <1>1
  <2> HIDE DEF S
  <2>3. sleep' \in S /\ \A k \in S : sleep' <= k  BY <2>1, <2>2, MinFacts
  <2>4. sleep' \in Nat  BY <2>1, <2>3
  <2> QED  BY <2>2, <2>3, <2>4, PeriodFacts
<1>10. ASSUME NEW u \in Uris, NEW x \in Watcher, At(observed', u, x)
       PROVE  Fits(x, value[u]) /\ Waits(x, value[u], sleep')
  <2>1. PICK w : At(observed, u, w) /\ x = f[<<u, w>>]  BY <1>6, <1>10
  <2>2. w \in Watcher  BY <1>1, <2>1, AtTyped
  <2>3. x = Notified(Of(u), w, mid)  BY <1>2, <2>1, <2>2
  <2>4. Fits(w, value[u])  BY <1>1, <2>1, <2>2 DEF AllFit
  <2>5. sleep' \in Nat /\ \A k \in Intervals(Of(u), w) : sleep' <= k
    BY <1>7, <1>9, <2>1
  <2> QED  BY <1>1, <2>2, <2>3, <2>4, <2>5, NotifiedWaits
<1>11. AllFit(observed', value') /\ AllWait(observed', value', sleep')
  BY <1>1, <1>10 DEF AllFit, AllWait
<1>12. TypeOK'
  <2>1. observed' \in Seq([uri : Uris, watcherList : Seq(Watcher)])  BY <1>6 DEF Shape, Entry
  <2> QED  BY <1>1, <1>9, <2>1 DEF TypeOK
<1>13. IInv'  BY <1>6, <1>11, <1>12 DEF IInv
<1> QED  BY <1>1, <1>4, <1>5, <1>13, MappedKeeps DEF Kept

\* A second later the watchers are a second older, and the loop sleeps a second less.
LEMMA TickKeeps ==
  ASSUME IInv, Tick
  PROVE  Kept
<1> DEFINE f == [p \in Uris \X Watcher |->
                   IF p[2].active /\ p[2].age < maxPeriod THEN [p[2] EXCEPT !.age = @ + 1]
                                                          ELSE p[2]]
<1>1. /\ Shape(observed) /\ AllFit(observed, value) /\ value \in [Uris -> Values]
      /\ AllWait(observed, value, sleep) /\ from \in (Servers \X Mids) \union {Nobody}
      /\ sleep \in 0 .. Sleep /\ sleep > 0 /\ sleep' = sleep - 1
      /\ from' = from /\ ~awake /\ awake' = awake /\ awake \in BOOLEAN /\ value' = value
  BY DEF IInv, TypeOK, Tick
<1>2. \A u \in Uris, w \in Watcher :
        f[<<u, w>>] = IF w.active /\ w.age < maxPeriod THEN [w EXCEPT !.age = w.age + 1] ELSE w
  OBVIOUS
<1> HIDE DEF f
<1>3. observed' = Mapped(f)
  <2>1. ASSUME NEW i \in 1 .. Len(observed)
        PROVE  [observed[i] EXCEPT !.watcherList =
                  [j \in DOMAIN observed[i].watcherList |->
                     IF /\ observed[i].watcherList[j].active
                        /\ observed[i].watcherList[j].age < maxPeriod
                     THEN [observed[i].watcherList[j] EXCEPT
                             !.age = observed[i].watcherList[j].age + 1]
                     ELSE observed[i].watcherList[j]]]
               = [uri |-> observed[i].uri,
                  watcherList |-> [j \in 1 .. Len(observed[i].watcherList) |->
                        f[<<observed[i].uri, observed[i].watcherList[j]>>]]]
    <3> DEFINE list == observed[i].watcherList
               new == [j \in DOMAIN list |-> IF list[j].active /\ list[j].age < maxPeriod
                                             THEN [list[j] EXCEPT !.age = list[j].age + 1]
                                             ELSE list[j]]
    <3>1. /\ observed[i] = [uri |-> observed[i].uri, watcherList |-> list]
          /\ observed[i].uri \in Uris /\ DOMAIN list = 1 .. Len(list)
          /\ \A j \in 1 .. Len(list) : list[j] \in Watcher
      BY <1>1, ElementFacts
    <3> HIDE DEF list
    <3>2. new = [j \in 1 .. Len(list) |-> f[<<observed[i].uri, list[j]>>]]
      BY <1>2, <3>1
    <3> HIDE DEF new
    <3>3. [observed[i] EXCEPT !.watcherList = new]
          = [uri |-> observed[i].uri, watcherList |-> new]
      BY <3>1
    <3> QED  BY <3>2, <3>3 DEF list, new
  <2> QED  BY <1>1, <2>1, ElementFacts DEF Tick, Each, Mapped
<1>4. ASSUME NEW u \in Uris, NEW w \in Watcher
      PROVE  /\ f[<<u, w>>] \in Watcher
             /\ f[<<u, w>>].server = w.server
             /\ f[<<u, w>>].active = w.active /\ f[<<u, w>>].update = w.update
             /\ f[<<u, w>>].lastValue = w.lastValue /\ f[<<u, w>>].told = w.told
             /\ f[<<u, w>>].toSet = w.toSet /\ f[<<u, w>>].age \in Nat
             /\ f[<<u, w>>].age <= w.age + 1
  <2>1. w.age \in 0 .. maxPeriod  BY DEF Watcher, Ages
  <2>2. CASE w.active /\ w.age < maxPeriod
    <3>1. f[<<u, w>>] = [w EXCEPT !.age = w.age + 1]  BY <1>2, <2>2
    <3>2. w.age + 1 \in Ages /\ w.age + 1 \in Nat  BY <2>1, <2>2, PeriodFacts DEF Ages
    <3>3. f[<<u, w>>].age = w.age + 1  BY <3>1 DEF Watcher
    <3>4. f[<<u, w>>] \in Watcher  BY <3>1, <3>2 DEF Watcher
    <3> QED  BY <3>1, <3>2, <3>3, <3>4 DEF Watcher
  <2>3. CASE ~(w.active /\ w.age < maxPeriod)
    <3>1. f[<<u, w>>] = w  BY <1>2, <2>3
    <3> QED  BY <2>1, <3>1, PeriodFacts
  <2> QED  BY <2>2, <2>3
<1>5. KeepsServer(f)  BY <1>4 DEF KeepsServer
<1>6. /\ Shape(observed')
      /\ \A t, x : At(observed', t, x) => \E w : At(observed, t, w) /\ x = f[<<t, w>>]
  <2>1. Shape(observed) /\ KeepsServer(f) /\ observed' = Mapped(f)  BY <1>1, <1>3, <1>5
  <2> QED  BY <2>1, MappedFacts
<1>7. ASSUME NEW u \in Uris, NEW x \in Watcher, At(observed', u, x)
      PROVE  Fits(x, value[u]) /\ Waits(x, value[u], sleep')
  <2>1. PICK w : At(observed, u, w) /\ x = f[<<u, w>>]  BY <1>6, <1>7
  <2>2. w \in Watcher  BY <1>1, <2>1, AtTyped
  <2>3. Fits(w, value[u]) /\ Waits(w, value[u], sleep)
    BY <1>1, <2>1, <2>2 DEF AllFit, AllWait
  <2>4. /\ x.active = w.active /\ x.update = w.update
        /\ x.lastValue = w.lastValue /\ x.told = w.told /\ x.toSet = w.toSet
        /\ x.age \in Nat /\ x.age <= w.age + 1 /\ w.age \in Nat
    BY <1>4, <2>1, <2>2 DEF Watcher, Ages
  <2>5. Fits(x, value[u])  BY <2>3, <2>4 DEF Fits
  <2>6. sleep \in Nat /\ sleep' = sleep - 1  BY <1>1
  <2>7. sleep <= maxPeriod - w.age => sleep' <= maxPeriod - x.age
    BY <2>4, <2>6, PeriodFacts
  <2>8. sleep <= minPeriod - w.age => sleep' <= minPeriod - x.age
    BY <2>4, <2>6, PeriodFacts
  <2>9. Waits(x, value[u], sleep')  BY <2>3, <2>4, <2>7, <2>8 DEF Waits
  <2> QED  BY <2>5, <2>9
<1>8. AllFit(observed', value') /\ AllWait(observed', value', sleep')
  BY <1>1, <1>7 DEF AllFit, AllWait
<1>9. TypeOK'
  <2>1. observed' \in Seq([uri : Uris, watcherList : Seq(Watcher)])  BY <1>6 DEF Shape, Entry
  <2>2. sleep' \in 0 .. Sleep  BY <1>1, PeriodFacts
  <2> QED  BY <1>1, <2>1, <2>2 DEF TypeOK
<1>10. IInv'  BY <1>6, <1>8, <1>9 DEF IInv
<1> QED  BY <1>1, <1>3, <1>5, <1>10, MappedKeeps DEF Kept

-----------------------------------------------------------------------------
(* Theorems                                                                *)

\* Nothing is observed at first.
LEMMA InitSound == Init => IInv
<1> SUFFICES ASSUME Init PROVE IInv
  OBVIOUS
<1>1. /\ value \in [Uris -> Values] /\ observed = <<>> /\ from = Nobody
      /\ awake = TRUE /\ sleep = 0
  BY DEF Init
<1>2. Shape(observed)  BY <1>1 DEF Shape
<1>3. AllFit(observed, value)  BY <1>1 DEF AllFit, At
<1>4. TypeOK
  <2>1. observed \in Seq([uri : Uris, watcherList : Seq(Watcher)])  BY <1>1
  <2> QED  BY <1>1, <2>1, PeriodFacts DEF TypeOK
<1> QED  BY <1>1, <1>2, <1>3, <1>4 DEF IInv

\* What a step may take from the servers: nothing, unless it handles a cancellation.
MayLose ==
  \A s \in Servers, u \in Uris : Lost(s, u) =>
    /\ from' # Nobody
    /\ from'[1] = s \/ Exposed(s, u, from'[2])
    /\ \A t \in Servers, x \in Uris : Lost(t, x) => t = s /\ x = u

\* Every step keeps the invariant, and takes no more than that.
LEMMA NextKeeps ==
  ASSUME IInv, [Next]_vars
  PROVE  IInv' /\ MayLose
<1>1. CASE \E s \in Servers : \E u \in Uris : Register(s, u) \/ SetParameters(s, u)
  <2>1. Kept  BY <1>1, RegisterKeeps, SetParametersKeeps
  <2> QED  BY <2>1 DEF Kept, MayLose, Lost
<1>2. CASE \E s \in Servers : Unobserve(s)
  <2>1. PICK s \in Servers : Unobserve(s)  BY <1>2
  <2>2. PICK mid \in Mids : from' = <<s, mid>> /\ Cancelled(s, mid)
    BY <2>1, UnobserveKeeps
  <2>3. IInv'  BY <2>1, UnobserveKeeps
  <2>4. from' # Nobody  BY <2>2, ConstantsAssumption DEF Mids
  <2>5. MayLose  BY <2>2, <2>4 DEF Cancelled, MayLose
  <2> QED  BY <2>3, <2>5
<1>3. CASE (\E u \in Uris : Change(u)) \/ Step \/ Tick
  <2>1. Kept  BY <1>3, ChangeKeeps, StepKeeps, TickKeeps
  <2> QED  BY <2>1 DEF Kept, MayLose, Lost
<1>4. CASE UNCHANGED vars
  BY <1>4 DEF vars, IInv, TypeOK, Watches, MayLose, Lost
<1> QED  BY <1>1, <1>2, <1>3, <1>4 DEF Next

\* The invariant holds throughout.
THEOREM Invariant == Spec => []IInv
<1>1. IInv /\ [Next]_vars => IInv'  BY NextKeeps
<1> QED  BY InitSound, <1>1, PTL DEF Spec

\* The lists of observe.c stay as its searches expect them: one entry for a resource, one
\* watcher for a server in it, and no entry without a watcher.
THEOREM ListsStaySound == Spec => []ListsSound
<1>1. IInv => ListsSound
  <2> SUFFICES ASSUME IInv PROVE ListsSound
    OBVIOUS
  <2>1. TypeOK /\ Shape(observed)  BY DEF IInv
  <2>2. /\ DOMAIN observed = 1 .. Len(observed)
        /\ \A i \in 1 .. Len(observed) :
             DOMAIN observed[i].watcherList = 1 .. Len(observed[i].watcherList)
    BY <2>1, ElementFacts
  <2>3. \A i, j \in DOMAIN observed : observed[i].uri = observed[j].uri => i = j
    BY <2>1, <2>2 DEF Shape
  <2>4. ASSUME NEW i \in DOMAIN observed
        PROVE  /\ observed[i].watcherList # <<>>
               /\ \A j, k \in DOMAIN observed[i].watcherList :
                    observed[i].watcherList[j].server = observed[i].watcherList[k].server
                      => j = k
    BY <2>1, <2>2 DEF Shape, OneEach
  <2> QED  BY <2>1, <2>3, <2>4 DEF ListsSound
<1> QED  BY Invariant, <1>1, PTL

\* Where a property speaks of a watcher by its place, the invariant speaks of it.
LEMMA PlaceFacts ==
  ASSUME IInv, ~awake, NEW i \in DOMAIN observed, NEW j \in DOMAIN observed[i].watcherList
  PROVE  /\ observed[i].watcherList[j] \in Watcher /\ observed[i].uri \in Uris
         /\ Waits(observed[i].watcherList[j], value[observed[i].uri], sleep)
         /\ sleep \in Nat
<1>1. Shape(observed) /\ AllWait(observed, value, sleep) /\ sleep \in Nat
  BY PeriodFacts DEF IInv, TypeOK
<1>2. i \in 1 .. Len(observed) /\ j \in 1 .. Len(observed[i].watcherList)
  BY <1>1, ElementFacts
<1>3. observed[i].watcherList[j] \in Watcher /\ observed[i].uri \in Uris
  BY <1>1, <1>2, ElementFacts
<1>4. At(observed, observed[i].uri, observed[i].watcherList[j])  BY <1>2 DEF At
<1> QED  BY <1>1, <1>3, <1>4 DEF AllWait

\* While the loop sleeps, every observing server knows the value, or the attributes that it
\* set let it wait, and observe_step has the loop back when they no longer do.
THEOREM ToldBeforeSleep == Spec => []ToldInTime
<1>1. IInv => ToldInTime
  <2> SUFFICES ASSUME IInv, ~awake,
                      NEW i \in DOMAIN observed, NEW j \in DOMAIN observed[i].watcherList,
                      observed[i].watcherList[j].active,
                      observed[i].watcherList[j].told # value[observed[i].uri]
               PROVE  LET w == observed[i].watcherList[j]
                          v == value[observed[i].uri]
                      IN /\ w.toSet # {}
                         /\ "min" \in w.toSet => w.age < minPeriod \/ sleep = 0
                         /\ "less" \in w.toSet /\ "min" \notin w.toSet
                              => ~Apart(v, w.told) /\ ~Apart(w.told, v)
    BY DEF ToldInTime, Asleep
  <2> DEFINE w == observed[i].watcherList[j]
             v == value[observed[i].uri]
  <2>1. w \in Watcher /\ Waits(w, v, sleep) /\ sleep \in Nat  BY PlaceFacts
  <2>2. w.active /\ w.told # v  OBVIOUS
  <2> HIDE DEF w, v
  <2>3. w.age \in Nat  BY <2>1 DEF Watcher, Ages
  <2>4. sleep <= minPeriod - w.age => w.age < minPeriod \/ sleep = 0
    BY <2>1, <2>3, PeriodFacts
  <2>5. /\ w.toSet # {}
        /\ "min" \in w.toSet => w.age < minPeriod \/ sleep = 0
        /\ "less" \in w.toSet /\ "min" \notin w.toSet
             => ~Apart(v, w.told) /\ ~Apart(w.told, v)
    BY <2>1, <2>2, <2>4 DEF Waits
  <2> QED  BY <2>5 DEF w, v
<1> QED  BY Invariant, <1>1, PTL

\* The loop never sleeps through the end of a maximal period.
THEOREM MaxPeriodNeverExceeded == Spec => []MaxPeriodKept
<1>1. IInv => MaxPeriodKept
  <2> SUFFICES ASSUME IInv, ~awake,
                      NEW i \in DOMAIN observed, NEW j \in DOMAIN observed[i].watcherList,
                      observed[i].watcherList[j].active,
                      "max" \in observed[i].watcherList[j].toSet
               PROVE  observed[i].watcherList[j].age < maxPeriod \/ sleep = 0
    BY DEF MaxPeriodKept, Asleep
  <2> DEFINE w == observed[i].watcherList[j]
  <2>1. /\ w \in Watcher /\ Waits(w, value[observed[i].uri], sleep) /\ sleep \in Nat
    BY PlaceFacts
  <2>2. w.active /\ "max" \in w.toSet  OBVIOUS
  <2> HIDE DEF w
  <2>3. w.age \in Nat  BY <2>1 DEF Watcher, Ages
  <2>4. sleep <= maxPeriod - w.age  BY <2>1, <2>2 DEF Waits
  <2>5. w.age < maxPeriod \/ sleep = 0  BY <2>1, <2>3, <2>4, PeriodFacts
  <2> QED  BY <2>5 DEF w
<1> QED  BY Invariant, <1>1, PTL

\* An observation ends only by a cancellation or a reset, one for a message: one of the
\* sender's, or one behind the head of its list whose last notification has the id of that
\* message, which may be another server's.
THEOREM OthersStay == Spec => OthersKept
<1>1. IInv /\ [Next]_vars => [MayLose]_vars  BY NextKeeps
<1> QED  BY Invariant, <1>1, PTL DEF Spec, OthersKept, MayLose
=============================================================================
