--------------------------- MODULE EthernetProofs ---------------------------
(***************************************************************************)
(* The driver in both directions, for any size of the rings, any number of *)
(* pbufs, of frames and of senders: the lock, the order on the wire, and   *)
(* that the composed driver implements the receive path of EthRx and the   *)
(* transmit path of EthTx and so inherits what is shown of them.           *)
(***************************************************************************)
EXTENDS Ethernet, Sequences, TLAPS

-----------------------------------------------------------------------------
(* The receive path                                                        *)

\* A sender enters HAL_ETH_TransmitFrame only while ethernetif_input is blocked; that
\* it may be inside when the thread wakes up is undone by the interrupt that wakes it.
LockInv == irq = "idle" /\ (pc # "wait" \/ sem = 1) => ~locked

\* No step of the DMA, of the interrupt, of the reader or of a sender breaks LockInv.
LEMMA LockStep == LockInv /\ [Next]_vars => LockInv'
<1> SUFFICES ASSUME LockInv, [Next]_vars PROVE LockInv'
  OBVIOUS
<1> USE DEF LockInv, dma, reader
<1>1. CASE Arrive  BY <1>1 DEF Arrive
<1>2. CASE Dma  BY <1>2 DEF Dma, Store, StoreFirst, Suspend, Write
<1>3. CASE IrqGive  BY <1>3 DEF IrqGive
<1>4. CASE IrqClear  BY <1>4 DEF IrqClear
<1>5. CASE Reader
  <2>1. CASE Wait  BY <2>1 DEF Wait
  <2>2. CASE GetFrame
    <3>1. pc = "get" /\ irq = "idle" /\ irq' = irq /\ locked' = locked
      BY <2>2 DEF GetFrame, Look
    <3> QED  BY <3>1
  <2>3. CASE GetNone
    <3>1. pc = "get" /\ irq = "idle" /\ irq' = irq /\ locked' = locked
      BY <2>3 DEF GetNone, Look
    <3> QED  BY <3>1
  <2>4. CASE Copy  BY <2>4 DEF Copy
  <2>5. CASE Release  BY <2>5 DEF Release
  <2>6. CASE Resume  BY <2>6 DEF Resume
  <2>7. CASE Input  BY <2>7 DEF Input
  <2> QED  BY <1>5, <2>1, <2>2, <2>3, <2>4, <2>5, <2>6, <2>7 DEF Reader
<1>6. ASSUME NEW t \in Senders, TransmitEnter(t) PROVE LockInv'
  BY <1>6 DEF TransmitEnter, ReaderBlocked
<1>7. ASSUME NEW t \in Senders, TransmitLeave(t) PROVE LockInv'
  BY <1>7 DEF TransmitLeave, ReaderBlocked
<1>8. CASE UNCHANGED vars  BY <1>8 DEF vars
<1> QED  BY <1>1, <1>2, <1>3, <1>4, <1>5, <1>6, <1>7, <1>8 DEF Next

\* The drain loop of ethernetif_input never finds the HAL handle locked, so that it
\* never takes a preempted HAL_ETH_TransmitFrame for an empty ring.
THEOREM LoopNeverBusy == Spec => []NeverBusy
<1>1. Init => LockInv  BY DEF Init, LockInv
<1>2. LockInv => NeverBusy  BY DEF LockInv, NeverBusy
<1> QED  BY <1>1, <1>2, LockStep, PTL DEF Spec

-----------------------------------------------------------------------------
(* The receive ring: what the DMA has written and the thread has not given *)
(* back, from the oldest descriptor on.                                    *)

\* The oldest descriptor that the CPU has.
Base == IF info.segCount = 0 THEN rxDesc ELSE info.first

\* How far a descriptor is behind it, and how many the CPU has.
Off(i) == IF i >= Base THEN i - Base ELSE i - Base + ETH_RXBUFNB
Held == IF desc[Base].own THEN 0 ELSE IF dmaAt = Base THEN ETH_RXBUFNB ELSE Off(dmaAt)

\* The CPU has the descriptors from the oldest one to the one before the DMA's.
RxRing ==
  /\ desc[Base].own => dmaAt = Base
  /\ \A i \in Slots : ~desc[i].own <=> Off(i) < Held
  /\ info.segCount <= Held
  /\ Off(rxDesc) = IF info.segCount = ETH_RXBUFNB THEN 0 ELSE info.segCount

\* They hold frames of one part or of two. The last frame may lack its second part.
Parts ==
  /\ \A i \in Slots : ~desc[i].own =>
       /\ desc[i].fs \/ desc[i].ls
       /\ desc[i].frame \in 1 .. arrived
       /\ Off(i) = 0 => desc[i].fs
       /\ Off(i) = Held - 1 => (desc[i].ls <=> ~mid)
       /\ ~desc[i].ls /\ mid /\ Off(i) = Held - 1 => desc[i].frame = fifo
  /\ \A i, j \in Slots : ~desc[i].own /\ ~desc[j].own /\ Off(j) = Off(i) + 1 =>
       IF desc[i].ls THEN desc[j].fs ELSE ~desc[j].fs /\ desc[j].frame = desc[i].frame
  /\ mid => Held > 0 /\ fifo # 0

\* What the thread has counted of them.
CountedParts ==
  /\ pc \in {"wait", "get"} => info.segCount \in {0, 1}
  /\ pc \in {"copy", "release"} => info.segCount \in {1, 2}
  /\ pc \in {"resume", "input"} => info.segCount = 0
  /\ \A i \in Slots : Off(i) < info.segCount =>
       (desc[i].ls <=> pc \in {"copy", "release"} /\ Off(i) = info.segCount - 1)

\* Frames are in order.
Sorted ==
  /\ \A i, j \in Slots :
       ~desc[i].own /\ ~desc[j].own /\ Off(i) < Off(j) /\ desc[i].ls =>
         desc[i].frame < desc[j].frame
  /\ \A i \in Slots : ~desc[i].own /\ fifo # 0 /\ (desc[i].ls \/ ~mid) => desc[i].frame < fifo
  /\ {fifo, handled} \subseteq 0 .. arrived
  /\ fifo # 0 => handled < fifo
  /\ \A i \in Slots : ~desc[i].own /\ (pc = "release" => Off(i) >= info.segCount) =>
       handled < desc[i].frame
  /\ pc = "release" => handled = desc[Base].frame

\* The inductive invariant of the receive path.
RxInv == TypeOK /\ RxRing /\ Parts /\ CountedParts /\ Sorted

\* A ring has at least two descriptors.
LEMMA RxNumber == ETH_RXBUFNB \in Nat /\ ETH_RXBUFNB >= 2
BY ConstantsAssumption

\* The descriptors form a ring.
LEMMA RxAfterIs ==
  ASSUME NEW i \in Slots
  PROVE  /\ After(i) = IF i = ETH_RXBUFNB - 1 THEN 0 ELSE i + 1
         /\ After(i) \in Slots
         /\ (i + 0) % ETH_RXBUFNB = i
<1>1. ETH_RXBUFNB \in Nat /\ ETH_RXBUFNB > 0 /\ i \in Nat /\ i < ETH_RXBUFNB
  BY RxNumber DEF Slots
<1>2. CASE i = ETH_RXBUFNB - 1
  <2>1. i + 1 = ETH_RXBUFNB  BY <1>1, <1>2
  <2>2. ETH_RXBUFNB % ETH_RXBUFNB = 0  BY <1>1
  <2> QED  BY <1>1, <1>2, <2>1, <2>2 DEF After, Slots
<1>3. CASE i # ETH_RXBUFNB - 1
  <2>1. i + 1 \in 0 .. ETH_RXBUFNB - 1  BY <1>1, <1>3
  <2>2. (i + 1) % ETH_RXBUFNB = i + 1  BY <1>1, <2>1
  <2> QED  BY <1>1, <1>3, <2>1, <2>2 DEF After, Slots
<1> QED  BY <1>2, <1>3

\* What the distances from the oldest descriptor tell.
LEMMA OffFacts ==
  ASSUME TypeOK
  PROVE  /\ Base \in Slots /\ Off(Base) = 0
         /\ \A i \in Slots : Off(i) \in 0 .. ETH_RXBUFNB - 1
         /\ \A i, j \in Slots : Off(i) = Off(j) => i = j
         /\ \A i \in Slots :
              Off(After(i)) = IF Off(i) = ETH_RXBUFNB - 1 THEN 0 ELSE Off(i) + 1
<1>1. Base \in Slots  BY DEF Base, TypeOK
<1>2. Base \in 0 .. ETH_RXBUFNB - 1 /\ ETH_RXBUFNB \in Nat  BY <1>1, RxNumber DEF Slots
<1>3. \A i \in Slots : Off(i) \in 0 .. ETH_RXBUFNB - 1  BY <1>2 DEF Off, Slots
<1>4. \A i, j \in Slots : Off(i) = Off(j) => i = j  BY <1>2 DEF Off, Slots
<1>5. ASSUME NEW i \in Slots
      PROVE  Off(After(i)) = IF Off(i) = ETH_RXBUFNB - 1 THEN 0 ELSE Off(i) + 1
  <2>1. i \in 0 .. ETH_RXBUFNB - 1  BY DEF Slots
  <2>2. CASE i = ETH_RXBUFNB - 1
    <3>1. After(i) = 0  BY <2>2, RxAfterIs
    <3> QED  BY <1>2, <2>1, <2>2, <3>1 DEF Off
  <2>3. CASE i # ETH_RXBUFNB - 1
    <3>1. After(i) = i + 1  BY <2>3, RxAfterIs
    <3> QED  BY <1>2, <2>1, <2>3, <3>1 DEF Off
  <2> QED  BY <2>2, <2>3
<1>6. Off(Base) = 0  BY <1>2 DEF Off
<1> QED  BY <1>1, <1>3, <1>4, <1>5, <1>6

\* The CPU has as many descriptors as the DMA is ahead.
LEMMA HeldFacts ==
  ASSUME TypeOK, RxRing
  PROVE  /\ Held \in 0 .. ETH_RXBUFNB
         /\ Off(dmaAt) = IF Held = ETH_RXBUFNB THEN 0 ELSE Held
         /\ desc[dmaAt].own => Held < ETH_RXBUFNB
<1>1. dmaAt \in Slots /\ Base \in Slots /\ Off(dmaAt) \in 0 .. ETH_RXBUFNB - 1
  BY OffFacts DEF TypeOK
<1>2. Held \in 0 .. ETH_RXBUFNB  BY <1>1, RxNumber DEF Held
<1>3. Off(dmaAt) = IF Held = ETH_RXBUFNB THEN 0 ELSE Held
  BY <1>1, OffFacts, RxNumber DEF Held, RxRing
<1>4. desc[dmaAt].own => Held < ETH_RXBUFNB  BY <1>1, <1>2, RxNumber DEF RxRing
<1> QED  BY <1>2, <1>3, <1>4

\* What the thread finds: the rest of a frame, or a frame that it has not begun to count.
LEMMA ScanFacts ==
  ASSUME RxInv, pc = "get", NEW k \in 1 .. ETH_RXBUFNB, Scanned(k)
  PROVE  /\ info.segCount \in {0, 1} /\ info.segCount + k \in {1, 2}
         /\ Off(rxDesc) = info.segCount
         /\ Counted(k) = [segCount |-> info.segCount + k, first |-> Base]
         /\ At(k - 1) = desc[IF k = 1 THEN rxDesc ELSE After(rxDesc)]
         /\ (rxDesc + k) % ETH_RXBUFNB = IF k = 1 THEN After(rxDesc) ELSE After(After(rxDesc))
         /\ k = 2 => ~desc[rxDesc].ls
         /\ info.segCount = 1 => desc[rxDesc].ls
<1>0. /\ TypeOK /\ RxRing /\ Parts /\ CountedParts /\ info.segCount \in {0, 1}
      /\ rxDesc \in Slots /\ After(rxDesc) \in Slots
  BY RxAfterIs DEF RxInv, TypeOK, CountedParts
<1>1. Off(rxDesc) = info.segCount  BY <1>0, RxNumber DEF RxRing
<1>2. At(0) = desc[rxDesc] /\ At(1) = desc[After(rxDesc)]
  BY <1>0, RxAfterIs DEF At, After
<1>3. ~At(0).own /\ (k >= 2 => ~At(0).ls /\ ~At(1).own)
  <2>1. 0 \in 0 .. k - 1 /\ (k >= 2 => 1 \in 0 .. k - 1 /\ 0 \in 0 .. k - 2)  OBVIOUS
  <2> QED  BY <2>1 DEF Scanned
<1>4. info.segCount = 0 => desc[rxDesc].fs
  BY <1>0, <1>1, <1>2, <1>3 DEF Parts
<1>5. info.segCount = 1 => desc[rxDesc].ls /\ k = 1
  <2> SUFFICES ASSUME info.segCount = 1 PROVE desc[rxDesc].ls /\ k = 1
    OBVIOUS
  <2>1. Off(Base) = 0 /\ Base \in Slots  BY <1>0, OffFacts
  <2>2. ~desc[Base].own /\ ~desc[Base].ls
    BY <1>0, <2>1, OffFacts, HeldFacts DEF RxRing, CountedParts
  <2>3. ~desc[rxDesc].fs /\ desc[rxDesc].ls
    BY <1>0, <1>1, <1>2, <1>3, <2>1, <2>2 DEF Parts
  <2> QED  BY <1>2, <1>3, <2>3
<1>6. k >= 2 => ~desc[After(rxDesc)].fs /\ desc[After(rxDesc)].ls
  <2> SUFFICES ASSUME k >= 2 PROVE ~desc[After(rxDesc)].fs /\ desc[After(rxDesc)].ls
    OBVIOUS
  <2>1. Off(After(rxDesc)) = Off(rxDesc) + 1
    BY <1>0, <1>1, <1>5, OffFacts, RxNumber
  <2> QED  BY <1>0, <1>2, <1>3, <2>1 DEF Parts
<1>7. k \in {1, 2}
  <2>1. k >= 3 => 1 \in 0 .. k - 2  OBVIOUS
  <2> QED  BY <1>2, <1>6, <2>1 DEF Scanned
<1>8. Counted(k) = [segCount |-> info.segCount + k, first |-> Base]
  <2> DEFINE firsts == {j \in 0 .. k - 1 : At(j).fs /\ ~At(j).ls}
  <2>1. CASE desc[rxDesc].ls
    <3>1. k = 1 /\ 0 .. k - 1 = {0}  BY <1>2, <1>3, <1>7, <2>1
    <3>2. firsts = {}  BY <1>2, <2>1, <3>1
    <3> QED  BY <1>0, <3>1, <3>2 DEF Counted, Base
  <2>2. CASE ~desc[rxDesc].ls
    <3>1. info.segCount = 0 /\ desc[rxDesc].fs  BY <1>0, <1>4, <1>5, <2>2
    <3>2. firsts = {0}
      <4>1. CASE k = 1  BY <1>2, <2>2, <3>1, <4>1
      <4>2. CASE k = 2
        <5>1. 0 .. k - 1 = {0, 1}  BY <4>2
        <5> QED  BY <1>2, <1>6, <2>2, <3>1, <4>2, <5>1
      <4> QED  BY <1>7, <4>1, <4>2
    <3>3. (CHOOSE j \in firsts : \A o \in firsts : o <= j) = 0  BY <3>2
    <3>4. (rxDesc + 0) % ETH_RXBUFNB = rxDesc  BY <1>0, RxAfterIs
    <3> QED  BY <1>7, <3>1, <3>2, <3>3, <3>4 DEF Counted, Base
  <2> QED  BY <2>1, <2>2
<1>9. (rxDesc + k) % ETH_RXBUFNB = IF k = 1 THEN After(rxDesc) ELSE After(After(rxDesc))
  <2>1. (rxDesc + 2) % ETH_RXBUFNB = After(After(rxDesc))
    <3>1. rxDesc \in 0 .. ETH_RXBUFNB - 1  BY <1>0 DEF Slots
    <3>2. CASE rxDesc = ETH_RXBUFNB - 1
      <4>1. After(rxDesc) = 0 /\ After(0) = 1
        BY <1>0, <3>2, RxAfterIs, RxNumber DEF Slots
      <4>2. (ETH_RXBUFNB + 1) % ETH_RXBUFNB = 1  BY RxNumber
      <4> QED  BY <3>1, <3>2, <4>1, <4>2, RxNumber
    <3>3. CASE rxDesc # ETH_RXBUFNB - 1
      <4>1. After(rxDesc) = rxDesc + 1  BY <1>0, <3>3, RxAfterIs
      <4>2. rxDesc + 2 = After(rxDesc) + 1  BY <3>1, <4>1
      <4> QED  BY <4>2 DEF After
    <3> QED  BY <3>2, <3>3
  <2> QED  BY <1>7, <2>1 DEF After
<1> QED  BY <1>0, <1>1, <1>2, <1>3, <1>5, <1>7, <1>8, <1>9

\* A step that leaves the ring, the FIFO and what has been counted and handled as they are.
LEMMA Quiet ==
  ASSUME RxInv, TypeOK', UNCHANGED <<desc, dmaAt, mid, fifo, arrived, rxDesc, info, handled>>,
         \/ pc' = pc
         \/ pc = "wait" /\ pc' = "get"
         \/ pc = "resume" /\ pc' \in {"wait", "input"}
         \/ pc = "input" /\ pc' = "get"
         \/ pc = "get" /\ pc' = "wait"
  PROVE  RxInv'
<1>1. Base' = Base /\ Held' = Held /\ \A i : Off(i)' = Off(i)  BY DEF Base, Held, Off
<1>2. RxRing' /\ Parts'  BY <1>1 DEF RxInv, RxRing, Parts, Slots
<1>3. CountedParts' /\ Sorted'  BY <1>1 DEF RxInv, CountedParts, Sorted, Slots
<1> QED  BY <1>2, <1>3 DEF RxInv

\* A frame comes in.
LEMMA ArriveStep == ASSUME RxInv, Arrive PROVE RxInv'
<1>1. TypeOK'
  <2>1. TypeOK /\ MaxFrames \in Nat  BY ConstantsAssumption DEF RxInv
  <2>2. {fifo, hand, arrived, handled}' \subseteq 0 .. MaxFrames
    BY <2>1 DEF TypeOK, Arrive, reader
  <2>3. suspended' \in BOOLEAN  BY DEF Arrive
  <2> QED  BY <2>1, <2>2, <2>3 DEF TypeOK, Arrive, reader, Slots, Desc
<1>2. /\ UNCHANGED <<desc, dmaAt, mid, rxDesc, info, handled, pc>>
      /\ arrived' = arrived + 1 /\ arrived \in Nat /\ fifo' = IF fifo = 0 THEN arrived + 1 ELSE fifo
      /\ fifo \in Nat /\ handled \in Nat
  BY DEF RxInv, TypeOK, Arrive, reader
<1>3. Base' = Base /\ Held' = Held /\ \A i : Off(i)' = Off(i)  BY <1>2 DEF Base, Held, Off
<1>4. RxRing' /\ CountedParts'
  BY <1>2, <1>3 DEF RxInv, RxRing, CountedParts, Slots
<1>5. Parts'  BY <1>2, <1>3 DEF RxInv, Parts, Slots
<1>6. Sorted'  BY <1>2, <1>3 DEF RxInv, Parts, Sorted, Slots
<1> QED  BY <1>1, <1>4, <1>5, <1>6 DEF RxInv

\* The DMA writes a part of a frame behind what the CPU has.
LEMMA WriteStep == ASSUME RxInv, Store \/ StoreFirst PROVE RxInv'
<1>0. /\ TypeOK /\ RxRing /\ Parts /\ CountedParts /\ Sorted /\ dmaAt \in Slots
      /\ Base \in Slots
  BY OffFacts DEF RxInv, TypeOK
<1>1. PICK fs \in BOOLEAN, ls \in BOOLEAN :
        /\ fs = ~mid /\ (mid => ls) /\ fifo # 0 /\ desc[dmaAt].own
        /\ desc' = [desc EXCEPT ![dmaAt] = [own |-> FALSE, fs |-> fs, ls |-> ls, frame |-> fifo]]
        /\ dmaAt' = After(dmaAt) /\ mid' = ~ls /\ fifo' = IF ls THEN 0 ELSE fifo
        /\ flagR' = (flagR \/ ls) /\ gaveUp' = (gaveUp /\ ~ls)
        /\ UNCHANGED <<suspended, arrived, irq, sem, reader, locked, sending>>
  <2>1. CASE Store  BY <1>0, <2>1 DEF Store, Write, TypeOK
  <2>2. CASE StoreFirst  BY <1>0, <2>2 DEF StoreFirst, Write, TypeOK
  <2> QED  BY <2>1, <2>2
<1>2. UNCHANGED <<pc, rxDesc, info, handled, hand, failures>> /\ Base' = Base
  BY <1>1 DEF reader, Base
<1>3. \A i : Off(i)' = Off(i)  BY <1>2 DEF Off
<1>4. /\ \A i \in Slots : i # dmaAt => desc'[i] = desc[i]
      /\ ~desc'[dmaAt].own /\ desc'[dmaAt].frame = fifo
      /\ desc'[dmaAt].fs <=> ~mid
      /\ desc'[dmaAt].ls <=> ls
      /\ mid' <=> ~ls
  BY <1>0, <1>1 DEF TypeOK
<1>5. TypeOK'
  <2>1. dmaAt' \in Slots /\ desc' \in [Slots -> Desc]
    BY <1>0, <1>1, RxAfterIs DEF TypeOK, Desc
  <2>2. {fifo, hand, arrived, handled}' \subseteq 0 .. MaxFrames
    BY <1>0, <1>1, <1>2, ConstantsAssumption DEF TypeOK
  <2>3. {mid, suspended, flagR, locked, gaveUp}' \subseteq BOOLEAN
    BY <1>0, <1>1 DEF TypeOK
  <2> QED  BY <1>0, <1>1, <1>2, <2>1, <2>2, <2>3 DEF TypeOK, Slots
<1>6. /\ Held \in 0 .. ETH_RXBUFNB - 1 /\ Off(dmaAt) = Held /\ ETH_RXBUFNB \in Nat
      /\ \A i \in Slots : Off(i) \in 0 .. ETH_RXBUFNB - 1
      /\ \A i \in Slots : Off(i) = Held => i = dmaAt
  BY <1>0, <1>1, HeldFacts, OffFacts, RxNumber
<1>7. ~desc'[Base].own
  <2>1. CASE Base = dmaAt  BY <1>4, <2>1
  <2>2. CASE Base # dmaAt  BY <1>0, <1>4, <2>2 DEF RxRing
  <2> QED  BY <2>1, <2>2
<1>8. Off(After(dmaAt)) = IF Held = ETH_RXBUFNB - 1 THEN 0 ELSE Held + 1
  BY <1>0, <1>6, OffFacts
<1>9. Held' = Held + 1
  <2>1. Held' = IF After(dmaAt) = Base THEN ETH_RXBUFNB ELSE Off(After(dmaAt))
    BY <1>1, <1>2, <1>3, <1>7 DEF Held
  <2>2. After(dmaAt) \in Slots /\ (Off(After(dmaAt)) = 0 <=> After(dmaAt) = Base)
    BY <1>0, OffFacts, RxAfterIs
  <2> QED  BY <1>6, <1>8, <2>1, <2>2
<1>10. \A i \in Slots : ~desc'[i].own <=> ~desc[i].own \/ i = dmaAt
  BY <1>1, <1>4
<1>11. \A i \in Slots : ~desc[i].own => i # dmaAt /\ Off(i) < Held
  BY <1>0, <1>1 DEF RxRing
<1>12. RxRing'
  <2>1. \A i \in Slots : ~desc'[i].own <=> Off(i) < Held + 1
    BY <1>0, <1>6, <1>10 DEF RxRing
  <2>2. info.segCount \in Nat  BY <1>0 DEF TypeOK
  <2> QED  BY <1>0, <1>2, <1>3, <1>6, <1>7, <1>9, <2>1, <2>2 DEF RxRing, Slots
<1>13. Parts'
  <2>1. fifo \in 1 .. arrived /\ arrived \in Nat  BY <1>0, <1>1 DEF Sorted, TypeOK
  <2>2. ASSUME NEW i \in Slots, ~desc'[i].own
        PROVE  /\ desc'[i].fs \/ desc'[i].ls
               /\ desc'[i].frame \in 1 .. arrived
               /\ Off(i) = 0 => desc'[i].fs
               /\ Off(i) = Held => (desc'[i].ls <=> ~mid')
               /\ ~desc'[i].ls /\ mid' /\ Off(i) = Held => desc'[i].frame = fifo'
    <3>1. CASE i = dmaAt
      <4>1. mid => Held > 0  BY <1>0 DEF Parts
      <4> QED  BY <1>1, <1>4, <1>6, <2>1, <3>1, <4>1
    <3>2. CASE i # dmaAt
      BY <1>0, <1>4, <1>6, <1>10, <2>2, <3>2 DEF Parts
    <3> QED  BY <3>1, <3>2
  <2>3. ASSUME NEW i \in Slots, NEW j \in Slots, ~desc'[i].own, ~desc'[j].own,
               Off(j) = Off(i) + 1
        PROVE  IF desc'[i].ls THEN desc'[j].fs
               ELSE ~desc'[j].fs /\ desc'[j].frame = desc'[i].frame
    <3>1. i # dmaAt
      BY <1>6, <1>10, <1>11, <2>3
    <3>2. CASE j = dmaAt
      <4>1. Off(i) = Held - 1 /\ ~desc[i].own  BY <1>6, <1>10, <2>3, <3>1, <3>2
      <4>2. (desc[i].ls <=> ~mid) /\ (~desc[i].ls => desc[i].frame = fifo)
        BY <1>0, <4>1 DEF Parts
      <4> QED  BY <1>1, <1>4, <3>1, <3>2, <4>2
    <3>3. CASE j # dmaAt
      BY <1>0, <1>4, <1>10, <2>3, <3>1, <3>3 DEF Parts
    <3> QED  BY <3>2, <3>3
  <2>4. mid' => Held' > 0 /\ fifo' # 0  BY <1>1, <1>4, <1>6, <1>9
  <2>5. Held' - 1 = Held  BY <1>6, <1>9
  <2> QED  BY <1>1, <1>3, <2>2, <2>3, <2>4, <2>5 DEF Parts, Slots
<1>14. CountedParts'
  <2>1. \A i \in Slots : Off(i) < info.segCount => i # dmaAt
    BY <1>0, <1>6 DEF RxRing, TypeOK
  <2> QED  BY <1>0, <1>2, <1>3, <1>4, <2>1 DEF CountedParts, Slots
<1>15. Sorted'
  <2>1. /\ fifo \in Nat /\ arrived \in Nat /\ handled \in Nat /\ fifo <= arrived
        /\ handled < fifo /\ arrived' = arrived /\ handled' = handled /\ handled <= arrived
    BY <1>0, <1>1, <1>2 DEF Sorted, TypeOK
  <2>2. \A i \in Slots : ~desc[i].own => desc[i].frame \in Nat
    BY <1>0 DEF Parts, TypeOK, Desc
  <2>3. ASSUME NEW i \in Slots, ~desc[i].own, desc[i].ls  PROVE desc[i].frame < fifo
    BY <1>0, <1>1, <2>3 DEF Sorted
  <2>4. ASSUME NEW i \in Slots, NEW j \in Slots, ~desc'[i].own, ~desc'[j].own,
               Off(i) < Off(j), desc'[i].ls
        PROVE  desc'[i].frame < desc'[j].frame
    <3>1. i # dmaAt  BY <1>6, <1>10, <1>11, <2>4
    <3>2. CASE j = dmaAt  BY <1>4, <1>10, <2>3, <2>4, <3>1, <3>2
    <3>3. CASE j # dmaAt  BY <1>0, <1>4, <1>10, <2>4, <3>1, <3>3 DEF Sorted
    <3> QED  BY <3>2, <3>3
  <2>5. ASSUME NEW i \in Slots, ~desc'[i].own, fifo' # 0, desc'[i].ls \/ ~mid'
        PROVE  desc'[i].frame < fifo'
    <3>1. ~ls /\ fifo' = fifo /\ mid'  BY <1>1, <2>5
    <3>2. i # dmaAt  BY <1>4, <2>5, <3>1
    <3> QED  BY <1>4, <1>10, <2>3, <2>5, <3>1, <3>2
  <2>6. ASSUME NEW i \in Slots, ~desc'[i].own, pc = "release" => Off(i) >= info.segCount
        PROVE  handled < desc'[i].frame
    <3>1. CASE i = dmaAt  BY <1>4, <2>1, <3>1
    <3>2. CASE i # dmaAt  BY <1>0, <1>4, <1>10, <2>6, <3>2 DEF Sorted
    <3> QED  BY <3>1, <3>2
  <2>7. pc = "release" => handled = desc'[Base].frame
    <3>1. pc = "release" => info.segCount > 0  BY <1>0 DEF CountedParts
    <3>2. pc = "release" => ~desc[Base].own
      BY <1>0, <1>6, <3>1, OffFacts DEF RxRing, TypeOK
    <3> QED  BY <1>0, <1>1, <1>4, <3>2 DEF Sorted
  <2>8. fifo' \in {0, fifo}  BY <1>1
  <2>9. {fifo', handled'} \subseteq 0 .. arrived' /\ (fifo' # 0 => handled' < fifo')
    BY <2>1, <2>8
  <2> QED  BY <1>2, <1>3, <2>1, <2>4, <2>5, <2>6, <2>7, <2>9 DEF Sorted, Slots
<1> QED  BY <1>5, <1>12, <1>13, <1>14, <1>15 DEF RxInv

\* What the thread finds is counted: a whole frame, or the first part of one.
LEMMA LookStep ==
  ASSUME RxInv, pc = "get", NEW k \in 1 .. ETH_RXBUFNB, Scanned(k), Look(k),
         pc' = IF At(k - 1).ls THEN "copy" ELSE "wait"
  PROVE  RxInv'
<1> DEFINE last == IF k = 1 THEN rxDesc ELSE After(rxDesc)
<1>0. /\ TypeOK /\ RxRing /\ Parts /\ CountedParts /\ Sorted /\ Base \in Slots
      /\ rxDesc \in Slots /\ last \in Slots
  BY OffFacts, RxAfterIs DEF RxInv, TypeOK
<1>1. /\ info.segCount \in {0, 1} /\ info.segCount + k \in {1, 2} /\ k \in {1, 2}
      /\ info.segCount = 1 => k = 1
      /\ Off(rxDesc) = info.segCount
      /\ At(k - 1) = desc[last]
      /\ k = 2 => ~desc[rxDesc].ls
      /\ info.segCount = 1 => desc[rxDesc].ls
  <2>1. info.segCount \in {0, 1} /\ info.segCount + k \in {1, 2}  BY ScanFacts
  <2> QED  BY <2>1, ScanFacts
<1>2. /\ info' = [segCount |-> info.segCount + k, first |-> Base] /\ rxDesc' = After(last)
      /\ UNCHANGED <<desc, dmaAt, mid, fifo, arrived, suspended, flagR, irq, sem, hand, handled,
                     failures, locked, sending, gaveUp>>
  <2>1. (rxDesc + k) % ETH_RXBUFNB = After(last)  BY ScanFacts
  <2>2. Counted(k) = [segCount |-> info.segCount + k, first |-> Base]  BY ScanFacts
  <2> QED  BY <1>1, <2>1, <2>2 DEF Look, dma
<1>3. /\ info'.segCount = info.segCount + k /\ Base' = Base
  BY <1>1, <1>2 DEF Base
<1>4. Held' = Held /\ \A i : Off(i)' = Off(i)  BY <1>2, <1>3 DEF Held, Off
<1>5. Off(last) = info.segCount + k - 1 /\ ~desc[last].own
  <2>1. k = 2 => Off(After(rxDesc)) = 1  BY <1>0, <1>1, OffFacts, RxNumber
  <2>2. ~At(k - 1).own
    <3>1. k - 1 \in 0 .. k - 1  OBVIOUS
    <3> QED  BY <3>1 DEF Scanned
  <2> QED  BY <1>1, <2>1, <2>2
<1>6. /\ Held \in 0 .. ETH_RXBUFNB /\ info.segCount + k <= Held
      /\ Off(After(last)) = IF info.segCount + k = ETH_RXBUFNB THEN 0 ELSE info.segCount + k
  <2>1. Held \in 0 .. ETH_RXBUFNB  BY <1>0, HeldFacts
  <2>2. Off(last) < Held  BY <1>0, <1>5 DEF RxRing
  <2>3. Off(After(last)) = IF Off(last) = ETH_RXBUFNB - 1 THEN 0 ELSE Off(last) + 1
    BY <1>0, OffFacts
  <2>4. info.segCount + k \in {1, 2} /\ info.segCount + k - 1 + 1 = info.segCount + k
    BY <1>1
  <2>5. info.segCount + k <= Held  BY <1>1, <1>5, <2>1, <2>2, RxNumber
  <2>6. Off(After(last)) = IF info.segCount + k = ETH_RXBUFNB THEN 0 ELSE info.segCount + k
    <3> HIDE DEF last
    <3> QED  BY <1>1, <1>5, <2>3, <2>4, RxNumber
  <2> QED  BY <2>1, <2>5, <2>6
<1>7. TypeOK'
  <2>1. After(last) \in Slots  BY <1>0, RxAfterIs
  <2>2. info' \in [segCount : 0 .. ETH_RXBUFNB, first : Slots]
    BY <1>0, <1>1, <1>2, <1>6, RxNumber
  <2> QED  BY <1>0, <1>2, <2>1, <2>2 DEF TypeOK, Slots, Desc
<1>8. RxRing'  BY <1>0, <1>2, <1>3, <1>4, <1>6 DEF RxRing, Slots
<1>9. Parts' /\ Sorted'  BY <1>0, <1>2, <1>4 DEF Parts, Sorted, Slots
<1>10. CountedParts'
  <2>1. ASSUME NEW i \in Slots, Off(i) < info.segCount + k
        PROVE  desc[i].ls <=> pc' = "copy" /\ Off(i) = info.segCount + k - 1
    <3>1. CASE Off(i) = info.segCount + k - 1
      <4>1. i = last  BY <1>0, <1>5, <3>1, OffFacts
      <4> QED  BY <1>1, <3>1, <4>1
    <3>2. CASE Off(i) # info.segCount + k - 1
      <4>1. Off(i) = 0 /\ i = Base  BY <1>0, <1>1, <2>1, <3>2, OffFacts
      <4>2. CASE k = 2
        <5>1. i = rxDesc  BY <1>0, <1>1, <4>1, <4>2, OffFacts
        <5> QED  BY <1>1, <3>2, <4>2, <5>1
      <4>3. CASE k = 1
        <5>1. Off(i) < info.segCount  BY <1>1, <3>2, <4>1, <4>3
        <5> QED  BY <1>0, <3>2, <5>1 DEF CountedParts
      <4> QED  BY <1>1, <4>2, <4>3
    <3> QED  BY <3>1, <3>2
  <2>2. pc' = "wait" => info.segCount + k = 1
    <3> SUFFICES ASSUME pc' = "wait" PROVE info.segCount + k = 1
      OBVIOUS
    <3>1. ~desc[last].ls  BY <1>1
    <3>2. k = 1 => info.segCount = 0  BY <1>1, <3>1
    <3>3. k # 2
      <4> SUFFICES ASSUME k = 2 PROVE FALSE
        OBVIOUS
      <4>1. info.segCount = 0 /\ Off(rxDesc) = 0 /\ Off(last) = 1  BY <1>1, <1>5
      <4>2. ~desc[rxDesc].own
        <5>1. Off(rxDesc) < Held  BY <1>6, <4>1
        <5> QED  BY <1>0, <5>1 DEF RxRing
      <4>3. ~desc[last].fs /\ (desc[last].fs \/ desc[last].ls)
        BY <1>0, <1>1, <1>5, <4>1, <4>2 DEF Parts
      <4> QED  BY <3>1, <4>3
    <3> QED  BY <1>1, <3>2, <3>3
  <2>3. info.segCount + k \in {1, 2} /\ pc' \in {"copy", "wait"}  BY <1>1
  <2>4. ASSUME NEW i \in Slots, Off(i)' < info'.segCount
        PROVE  desc'[i].ls <=> pc' \in {"copy", "release"} /\ Off(i)' = info'.segCount - 1
    <3>1. desc[i].ls <=> pc' = "copy" /\ Off(i) = info.segCount + k - 1
      BY <1>3, <1>4, <2>1, <2>4
    <3>2. desc' = desc /\ Off(i)' = Off(i) /\ info'.segCount = info.segCount + k
      BY <1>2, <1>3, <1>4
    <3>3. pc' \in {"copy", "release"} <=> pc' = "copy"  BY <2>3
    <3>4. Off(i)' = info'.segCount - 1 <=> Off(i) = info.segCount + k - 1
      BY <1>1, <3>2
    <3>5. desc'[i].ls <=> desc[i].ls  BY <3>2
    <3> QED  BY <3>1, <3>3, <3>4, <3>5, Zenon
  <2>5. /\ pc' \in {"wait", "get"} => info'.segCount \in {0, 1}
        /\ pc' \in {"copy", "release"} => info'.segCount \in {1, 2}
        /\ pc' \in {"resume", "input"} => info'.segCount = 0
    BY <1>3, <2>2, <2>3
  <2> QED  BY <2>4, <2>5 DEF CountedParts, Slots
<1> QED  BY <1>7, <1>8, <1>9, <1>10 DEF RxInv

\* The last descriptor of the frame that is copied.
Last == IF info.segCount = 1 THEN Base ELSE After(Base)

\* It is counted from its first descriptor, complete, and one frame.
LEMMA LastFacts ==
  ASSUME RxInv, pc \in {"copy", "release"}
  PROVE  /\ info.segCount \in {1, 2} /\ info.first = Base
         /\ Base \in Slots /\ ~desc[Base].own /\ desc[Base].fs
         /\ Last \in Slots /\ ~desc[Last].own /\ desc[Last].ls /\ Off(Last) = info.segCount - 1
         /\ desc[Last].frame = desc[Base].frame
         /\ \A i \in Slots : Off(i) < info.segCount <=> i \in {Base, Last}
<1>0. /\ TypeOK /\ RxRing /\ Parts /\ CountedParts /\ info.segCount \in {1, 2}
      /\ Base \in Slots /\ Off(Base) = 0
  BY OffFacts DEF RxInv, CountedParts
<1>1. info.first = Base  BY <1>0 DEF Base
<1>2. Off(Last) = info.segCount - 1 /\ Last \in Slots
  BY <1>0, OffFacts, RxNumber, RxAfterIs DEF Last
<1>3. Held \in Nat /\ info.segCount <= Held  BY <1>0, HeldFacts DEF RxRing
<1>4. ~desc[Base].own /\ ~desc[Last].own  BY <1>0, <1>2, <1>3 DEF RxRing
<1>5. desc[Base].fs /\ desc[Last].ls
  BY <1>0, <1>2, <1>4 DEF Parts, CountedParts
<1>6. desc[Last].frame = desc[Base].frame
  <2>1. CASE info.segCount = 1  BY <2>1 DEF Last
  <2>2. CASE info.segCount = 2
    <3>1. ~desc[Base].ls  BY <1>0, <2>2 DEF CountedParts
    <3> QED  BY <1>0, <1>2, <1>4, <2>2, <3>1 DEF Parts
  <2> QED  BY <1>0, <2>1, <2>2
<1>7. ASSUME NEW i \in Slots PROVE Off(i) < info.segCount <=> i \in {Base, Last}
  <2>1. Off(i) \in Nat  BY <1>0, OffFacts
  <2>2. Off(i) < info.segCount <=> Off(i) = 0 \/ Off(i) = info.segCount - 1
    BY <1>0, <2>1
  <2> QED  BY <1>0, <1>2, <2>2, OffFacts
<1> QED  BY <1>0, <1>1, <1>2, <1>4, <1>5, <1>6, <1>7

\* The frame is copied, or dropped.
LEMMA CopyStep == ASSUME RxInv, Copy PROVE RxInv'
<1>0. /\ TypeOK /\ RxRing /\ Parts /\ CountedParts /\ Sorted
      /\ pc = "copy" /\ pc' = "release" /\ handled' = desc[Base].frame
      /\ UNCHANGED <<dma, flagR, irq, sem, rxDesc, info, locked, sending>>
  BY LastFacts DEF RxInv, Copy
<1>1. UNCHANGED <<desc, dmaAt, mid, fifo, arrived, suspended>>  BY <1>0 DEF dma
<1>2. Base' = Base /\ Held' = Held /\ \A i : Off(i)' = Off(i)
  BY <1>0, <1>1 DEF Base, Held, Off
<1>3. TypeOK'
  <2>1. desc[Base].frame \in 0 .. MaxFrames
    <3>1. Base \in Slots  BY <1>0, OffFacts
    <3> QED  BY <1>0, <3>1 DEF TypeOK, Desc
  <2>2. /\ hand' \in 0 .. MaxFrames /\ failures' \in 0 .. MaxAllocFail
        /\ gaveUp' \in BOOLEAN
    <3>1. info.first = Base  BY <1>0, LastFacts
    <3>2. 0 \in 0 .. MaxFrames  BY ConstantsAssumption
    <3>3. failures < MaxAllocFail => failures + 1 \in 0 .. MaxAllocFail
      BY <1>0, ConstantsAssumption DEF TypeOK
    <3> QED  BY <1>0, <2>1, <3>1, <3>2, <3>3 DEF TypeOK, Copy
  <2> QED  BY <1>0, <1>1, <2>1, <2>2 DEF TypeOK, Slots, Desc
<1>4. RxRing' /\ Parts'  BY <1>0, <1>1, <1>2 DEF RxRing, Parts, Slots
<1>5. CountedParts'  BY <1>0, <1>1, <1>2 DEF CountedParts, Slots
<1>6. Sorted'
  <2>1. /\ info.segCount \in {1, 2} /\ Last \in Slots /\ ~desc[Last].own /\ desc[Last].ls
        /\ Off(Last) = info.segCount - 1 /\ desc[Last].frame = desc[Base].frame
    BY <1>0, LastFacts
  <2>2. desc[Base].frame \in 0 .. arrived  BY <1>0, <2>1 DEF Parts, TypeOK
  <2>3. fifo # 0 => desc[Base].frame < fifo  BY <1>0, <2>1 DEF Sorted
  <2>4. ASSUME NEW i \in Slots, ~desc[i].own, Off(i) >= info.segCount
        PROVE  desc[Base].frame < desc[i].frame
    <3>1. Off(Last) < Off(i)  BY <1>0, <2>1, <2>4, OffFacts
    <3> QED  BY <1>0, <2>1, <2>4, <3>1 DEF Sorted
  <2> QED  BY <1>0, <1>1, <1>2, <2>2, <2>3, <2>4 DEF Sorted, Slots
<1> QED  BY <1>3, <1>4, <1>5, <1>6 DEF RxInv

\* The descriptors of the frame go back to the DMA.
LEMMA ReleaseStep == ASSUME RxInv, Release PROVE RxInv'
<1> DEFINE n == info.segCount
<1>0. /\ TypeOK /\ RxRing /\ Parts /\ CountedParts /\ Sorted
      /\ pc = "release" /\ pc' = "resume"
      /\ info' = [info EXCEPT !.segCount = 0]
      /\ UNCHANGED <<dmaAt, mid, fifo, suspended, arrived, flagR, irq, sem, rxDesc, hand,
                     handled, failures, locked, sending, gaveUp>>
  BY DEF RxInv, Release
<1>1. /\ n \in {1, 2} /\ Base \in Slots /\ Last \in Slots /\ desc[Last].ls /\ ~desc[Last].own
      /\ Off(Last) = n - 1 /\ info.first = Base
      /\ \A i \in Slots : Off(i) < n <=> i \in {Base, Last}
      /\ rxDesc \in Slots /\ dmaAt \in Slots
  BY <1>0, LastFacts DEF TypeOK
<1>2. ETH_RXBUFNB \in Nat /\ ETH_RXBUFNB >= 2  BY RxNumber
<1>3. \A i \in Slots :
        (\E j \in 0 .. info.segCount - 1 : i = (info.first + j) % ETH_RXBUFNB) <=> Off(i) < n
  <2>1. (Base + 0) % ETH_RXBUFNB = Base /\ (Base + 1) % ETH_RXBUFNB = After(Base)
    BY <1>1, RxAfterIs DEF After
  <2>2. CASE n = 1
    <3>1. 0 .. info.segCount - 1 = {0} /\ Last = Base  BY <2>2 DEF Last
    <3> QED  BY <1>1, <2>1, <3>1
  <2>3. CASE n = 2
    <3>1. 0 .. info.segCount - 1 = {0, 1} /\ Last = After(Base)  BY <2>3 DEF Last
    <3> QED  BY <1>1, <2>1, <3>1
  <2> QED  BY <1>1, <2>2, <2>3
<1>4. /\ \A i \in Slots : desc'[i].own <=> desc[i].own \/ Off(i) < n
      /\ \A i \in Slots : desc'[i].fs = desc[i].fs /\ desc'[i].ls = desc[i].ls
                          /\ desc'[i].frame = desc[i].frame
      /\ desc' \in [Slots -> Desc]
  <2>1. desc' = [i \in Slots |-> IF Off(i) < n THEN [desc[i] EXCEPT !.own = TRUE] ELSE desc[i]]
    BY <1>3 DEF Release
  <2>2. \A i \in Slots : desc[i] \in Desc  BY <1>0 DEF TypeOK
  <2> QED  BY <2>1, <2>2 DEF Desc
<1>5. /\ \A i \in Slots : Off(i) \in 0 .. ETH_RXBUFNB - 1
      /\ \A i, j \in Slots : Off(i) = Off(j) => i = j
      /\ Off(Base) = 0
      /\ Off(rxDesc) = IF n = ETH_RXBUFNB THEN 0 ELSE n
      /\ Held \in 0 .. ETH_RXBUFNB /\ n <= Held
      /\ Off(dmaAt) = IF Held = ETH_RXBUFNB THEN 0 ELSE Held
  BY <1>0, <1>1, OffFacts, HeldFacts DEF RxRing
<1>6. Base' = rxDesc /\ info'.segCount = 0
  BY <1>0 DEF Base, TypeOK
<1>7. ASSUME NEW i \in Slots
      PROVE  Off(i)' = IF Off(i) >= n THEN Off(i) - n ELSE Off(i) - n + ETH_RXBUFNB
  <2>1. Off(i)' = IF i >= rxDesc THEN i - rxDesc ELSE i - rxDesc + ETH_RXBUFNB
    BY <1>6 DEF Off
  <2>2. Base \in 0 .. ETH_RXBUFNB - 1 /\ rxDesc \in 0 .. ETH_RXBUFNB - 1
        /\ i \in 0 .. ETH_RXBUFNB - 1
    BY <1>1 DEF Slots
  <2>3. Off(rxDesc) = IF rxDesc >= Base THEN rxDesc - Base ELSE rxDesc - Base + ETH_RXBUFNB
    BY DEF Off
  <2>4. Off(i) = IF i >= Base THEN i - Base ELSE i - Base + ETH_RXBUFNB
    BY DEF Off
  <2> QED  BY <1>1, <1>2, <1>5, <2>1, <2>2, <2>3, <2>4
<1>8. /\ Held' = Held - n
      /\ desc'[rxDesc].own => dmaAt = rxDesc
  <2>1. CASE Held = n
    <3>1. Off(dmaAt) = Off(rxDesc)  BY <1>5, <2>1
    <3>2. dmaAt = rxDesc  BY <1>1, <1>5, <3>1
    <3>3. desc'[rxDesc].own
      <4>1. desc[rxDesc].own \/ Off(rxDesc) < n
        BY <1>0, <1>1, <1>5, <2>1 DEF RxRing
      <4> QED  BY <1>1, <1>4, <4>1
    <3> QED  BY <1>5, <1>6, <2>1, <3>2, <3>3 DEF Held
  <2>2. CASE Held # n
    <3>1. Held > n /\ n < ETH_RXBUFNB /\ Off(rxDesc) = n  BY <1>1, <1>2, <1>5, <2>2
    <3>2. ~desc'[rxDesc].own
      BY <1>0, <1>1, <1>4, <3>1 DEF RxRing
    <3>3. dmaAt # rxDesc  BY <1>1, <1>5, <3>1
    <3>4. Held' = Off(dmaAt)'
      BY <1>0, <1>6, <3>2, <3>3 DEF Held
    <3>5. Off(dmaAt)' = IF Off(dmaAt) >= n THEN Off(dmaAt) - n ELSE Off(dmaAt) - n + ETH_RXBUFNB
      <4>1. Off(dmaAt)' = IF dmaAt >= rxDesc THEN dmaAt - rxDesc ELSE dmaAt - rxDesc + ETH_RXBUFNB
        BY <1>0, <1>6 DEF Off
      <4>2. Base \in 0 .. ETH_RXBUFNB - 1 /\ rxDesc \in 0 .. ETH_RXBUFNB - 1
            /\ dmaAt \in 0 .. ETH_RXBUFNB - 1
        BY <1>1 DEF Slots
      <4>3. Off(rxDesc) = IF rxDesc >= Base THEN rxDesc - Base ELSE rxDesc - Base + ETH_RXBUFNB
        BY DEF Off
      <4>4. Off(dmaAt) = IF dmaAt >= Base THEN dmaAt - Base ELSE dmaAt - Base + ETH_RXBUFNB
        BY DEF Off
      <4> QED  BY <1>1, <1>2, <1>5, <4>1, <4>2, <4>3, <4>4
    <3> QED  BY <1>1, <1>2, <1>5, <3>1, <3>2, <3>4, <3>5
  <2> QED  BY <2>1, <2>2
<1>9. TypeOK'
  <2>1. info' \in [segCount : 0 .. ETH_RXBUFNB, first : Slots]
    BY <1>0, <1>2 DEF TypeOK
  <2> QED  BY <1>0, <1>4, <2>1 DEF TypeOK, Slots, Desc
<1>10. \A i \in Slots : ~desc'[i].own <=> ~desc[i].own /\ Off(i) >= n
  BY <1>1, <1>4, <1>5
<1>11. RxRing'
  <2>1. ASSUME NEW i \in Slots PROVE ~desc'[i].own <=> Off(i)' < Held - n
    <3>1. ~desc[i].own <=> Off(i) < Held  BY <1>0 DEF RxRing
    <3> QED  BY <1>1, <1>2, <1>5, <1>7, <1>10, <3>1
  <2>2. Off(rxDesc)' = 0
    <3>1. rxDesc \in Nat  BY <1>1, <1>2 DEF Slots
    <3> QED  BY <1>0, <1>6, <3>1 DEF Off
  <2>3. info'.segCount <= Held' /\ info'.segCount # ETH_RXBUFNB
    BY <1>1, <1>2, <1>5, <1>6, <1>8
  <2> QED  BY <1>0, <1>6, <1>8, <2>1, <2>2, <2>3 DEF RxRing, Slots
<1>12. Parts'
  <2>1. ASSUME NEW i \in Slots, ~desc'[i].own
        PROVE  /\ desc'[i].fs \/ desc'[i].ls
               /\ desc'[i].frame \in 1 .. arrived'
               /\ Off(i)' = 0 => desc'[i].fs
               /\ Off(i)' = Held' - 1 => (desc'[i].ls <=> ~mid')
               /\ ~desc'[i].ls /\ mid' /\ Off(i)' = Held' - 1 => desc'[i].frame = fifo'
    <3>1. ~desc[i].own /\ Off(i) >= n /\ Off(i)' = Off(i) - n  BY <1>7, <1>10, <2>1
    <3>2. Off(i) = n => desc[i].fs
      BY <1>0, <1>1, <1>5, <3>1 DEF Parts
    <3>3. Off(i)' = Held' - 1 => Off(i) = Held - 1  BY <1>1, <1>5, <1>8, <3>1
    <3>4. Off(i)' = 0 => Off(i) = n  BY <1>1, <1>5, <3>1
    <3> QED  BY <1>0, <1>4, <3>1, <3>2, <3>3, <3>4 DEF Parts
  <2>2. ASSUME NEW i \in Slots, NEW j \in Slots, ~desc'[i].own, ~desc'[j].own,
               Off(j)' = Off(i)' + 1
        PROVE  IF desc'[i].ls THEN desc'[j].fs
               ELSE ~desc'[j].fs /\ desc'[j].frame = desc'[i].frame
    <3>1. /\ ~desc[i].own /\ ~desc[j].own
          /\ Off(i)' = Off(i) - n /\ Off(j)' = Off(j) - n
      BY <1>7, <1>10, <2>2
    <3>2. Off(j) = Off(i) + 1  BY <1>1, <1>5, <2>2, <3>1
    <3> QED  BY <1>0, <1>4, <3>1, <3>2 DEF Parts
  <2>3. mid => Held - n > 0
    <3> SUFFICES ASSUME mid, Held = n PROVE FALSE
      BY <1>1, <1>5
    <3> QED  BY <1>0, <1>1 DEF Parts
  <2>4. mid => fifo # 0  BY <1>0 DEF Parts
  <2> QED  BY <1>0, <1>8, <2>1, <2>2, <2>3, <2>4 DEF Parts, Slots
<1>13. CountedParts'
  <2>1. \A i \in Slots : ~(Off(i)' < 0)
    BY <1>1, <1>2, <1>5, <1>7
  <2> QED  BY <1>0, <1>6, <2>1 DEF CountedParts, Slots
<1>14. Sorted'
  <2>1. ASSUME NEW i \in Slots, NEW j \in Slots, ~desc'[i].own, ~desc'[j].own,
               Off(i)' < Off(j)', desc'[i].ls
        PROVE  desc'[i].frame < desc'[j].frame
    <3>1. /\ ~desc[i].own /\ ~desc[j].own
          /\ Off(i)' = Off(i) - n /\ Off(j)' = Off(j) - n
      BY <1>7, <1>10, <2>1
    <3>2. Off(i) < Off(j)  BY <1>1, <1>5, <2>1, <3>1
    <3> QED  BY <1>0, <1>4, <2>1, <3>1, <3>2 DEF Sorted
  <2>2. \A i \in Slots : ~desc'[i].own => handled < desc'[i].frame
    BY <1>0, <1>4, <1>10 DEF Sorted
  <2>3. \A i \in Slots : ~desc'[i].own /\ fifo # 0 /\ (desc'[i].ls \/ ~mid) => desc'[i].frame < fifo
    BY <1>0, <1>4, <1>10 DEF Sorted
  <2>4. {fifo, handled} \subseteq 0 .. arrived /\ (fifo # 0 => handled < fifo)
    BY <1>0 DEF Sorted
  <2> QED  BY <1>0, <2>1, <2>2, <2>3, <2>4 DEF Sorted, Slots
<1> QED  BY <1>9, <1>11, <1>12, <1>13, <1>14 DEF RxInv

\* The other steps leave the ring alone.
LEMMA OtherStep ==
  ASSUME RxInv,
         \/ Suspend \/ IrqGive \/ IrqClear \/ Wait \/ Resume \/ Input
         \/ \E t \in Senders : TransmitEnter(t) \/ TransmitLeave(t)
         \/ UNCHANGED vars
  PROVE  RxInv'
<1>0. TypeOK  BY DEF RxInv
<1>1. CASE Suspend \/ IrqGive \/ IrqClear
  <2>1. TypeOK'
    BY <1>0, <1>1 DEF Suspend, IrqGive, IrqClear, dma, reader, TypeOK, Slots, Desc
  <2> QED  BY <1>1, <2>1, Quiet DEF Suspend, IrqGive, IrqClear, dma, reader
<1>2. CASE Wait \/ Resume \/ Input
  <2>1. TypeOK'
    <3>1. suspended' \in {suspended, FALSE}  BY <1>2 DEF Wait, Resume, Input, dma
    <3>2. suspended' \in BOOLEAN  BY <1>0, <3>1 DEF TypeOK
    <3>3. hand' \in {hand, 0}  BY <1>2 DEF Wait, Resume, Input
    <3>4. hand' \in 0 .. MaxFrames  BY <1>0, <3>3, ConstantsAssumption DEF TypeOK
    <3> QED  BY <1>0, <1>2, <3>2, <3>4 DEF Wait, Resume, Input, dma, TypeOK, Slots, Desc
  <2> QED  BY <1>2, <2>1, Quiet DEF Wait, Resume, Input, dma
<1>3. CASE \E t \in Senders : TransmitEnter(t) \/ TransmitLeave(t)
  <2>1. TypeOK'
    BY <1>0, <1>3 DEF TransmitEnter, TransmitLeave, dma, reader, TypeOK, Slots, Desc
  <2> QED  BY <1>3, <2>1, Quiet DEF TransmitEnter, TransmitLeave, dma, reader
<1>4. CASE UNCHANGED vars
  <2>1. TypeOK'  BY <1>0, <1>4 DEF vars, dma, reader, TypeOK, Slots, Desc
  <2> QED  BY <1>4, <2>1, Quiet DEF vars, dma, reader
<1> QED  BY <1>1, <1>2, <1>3, <1>4

\* The drain loop finds a frame, or none.
LEMMA GetStep == ASSUME RxInv, LockInv, GetFrame \/ GetNone PROVE RxInv'
<1>0. TypeOK /\ rxDesc \in Slots  BY DEF RxInv, TypeOK
<1>1. CASE GetFrame
  <2>1. PICK k \in 1 .. ETH_RXBUFNB : Scanned(k) /\ At(k - 1).ls /\ Look(k)
    BY <1>1 DEF GetFrame
  <2> QED  BY <1>1, <2>1, LookStep DEF GetFrame
<1>2. CASE GetNone
  <2>1. pc = "get" /\ pc' = "wait" /\ ~locked  BY <1>2 DEF GetNone, LockInv
  <2>2. PICK k \in 0 .. ETH_RXBUFNB :
          Scanned(k) /\ (k > 0 => ~At(k - 1).ls) /\ Look(k)
    BY <1>2, <2>1 DEF GetNone
  <2>3. CASE k = 0
    <3>1. (rxDesc + k) % ETH_RXBUFNB = rxDesc  BY <1>0, <2>3, RxAfterIs
    <3>2. /\ UNCHANGED <<desc, dmaAt, mid, fifo, suspended, arrived, rxDesc, info, handled>>
          /\ UNCHANGED <<flagR, irq, sem, hand, failures, locked, sending, gaveUp>>
      BY <2>2, <2>3, <3>1 DEF Look, dma
    <3>3. TypeOK'  BY <1>0, <2>1, <3>2 DEF TypeOK, Slots, Desc
    <3> QED  BY <2>1, <3>2, <3>3, Quiet
  <2>4. CASE k > 0
    <3>1. k \in 1 .. ETH_RXBUFNB /\ ~At(k - 1).ls  BY <2>2, <2>4
    <3> QED  BY <2>1, <2>2, <3>1, LookStep
  <2> QED  BY <2>3, <2>4
<1> QED  BY <1>1, <1>2

\* Every step keeps the invariant of the ring.
LEMMA RxStep == RxInv /\ LockInv /\ [Next]_vars => RxInv'
BY ArriveStep, WriteStep, CopyStep, ReleaseStep, OtherStep, GetStep DEF Next, Dma, Reader

\* At first the whole ring is the DMA's.
LEMMA RxInit == Init => RxInv
<1> SUFFICES ASSUME Init PROVE RxInv
  OBVIOUS
<1>1. ETH_RXBUFNB \in Nat /\ ETH_RXBUFNB >= 2 /\ MaxFrames \in Nat /\ MaxAllocFail \in Nat
  BY ConstantsAssumption
<1>2. TypeOK
  <2>1. {mid, suspended, flagR, locked, gaveUp} \subseteq BOOLEAN  BY DEF Init
  <2>2. desc \in [Slots -> Desc]  BY <1>1 DEF Init, Desc
  <2>3. /\ {dmaAt, rxDesc} \subseteq Slots
        /\ info \in [segCount : 0 .. ETH_RXBUFNB, first : Slots]
    BY <1>1 DEF Init, Slots
  <2> QED  BY <1>1, <2>1, <2>2, <2>3 DEF Init, TypeOK
<1>3. Base = 0 /\ Held = 0 /\ Off(0) = 0 /\ \A i \in Slots : Off(i) \in Nat
  BY <1>1 DEF Init, Base, Held, Off, Slots
<1>4. RxRing  BY <1>1, <1>3 DEF Init, RxRing, Slots
<1>5. Parts /\ CountedParts /\ Sorted
  BY <1>1, <1>3 DEF Init, Parts, CountedParts, Sorted, Slots
<1> QED  BY <1>2, <1>4, <1>5 DEF RxInv

\* While the thread sleeps, or is about to for want of a pbuf, and has not been told, a
\* complete frame has an interrupt coming; the interrupt tells it before it clears the flag.
WakeInv ==
  /\ irq = "clear" => sem = 1
  /\ Complete /\ sem = 0 /\ (pc = "wait" \/ (pc \in {"release", "resume"} /\ hand = 0)) =>
       flagR \/ gaveUp

\* When the drain loop finds no frame there is none.
LEMMA NoneComplete == ASSUME RxInv, LockInv, GetNone PROVE ~Complete
<1>0. /\ TypeOK /\ RxRing /\ Parts /\ CountedParts /\ Sorted /\ Base \in Slots /\ pc = "get"
      /\ rxDesc \in Slots /\ Off(Base) = 0
  BY OffFacts DEF RxInv, TypeOK, GetNone
<1>1. ~locked  BY DEF GetNone, LockInv
<1>2. PICK k \in 0 .. ETH_RXBUFNB :
        /\ Scanned(k) /\ (k = ETH_RXBUFNB \/ At(k).own) /\ (k > 0 => ~At(k - 1).ls)
  BY <1>1 DEF GetNone
<1>3. info.segCount \in {0, 1} /\ Off(rxDesc) = info.segCount
  BY <1>0, RxNumber DEF CountedParts, RxRing
<1>4. At(0) = desc[rxDesc] /\ At(1) = desc[After(rxDesc)]
  BY <1>0, RxAfterIs DEF At, After
<1>5. k \in {0, 1}
  <2> SUFFICES ASSUME k >= 2 PROVE FALSE
    OBVIOUS
  <2>1. k \in 1 .. ETH_RXBUFNB  OBVIOUS
  <2>2. /\ info.segCount + k \in {1, 2}
        /\ At(k - 1) = desc[IF k = 1 THEN rxDesc ELSE After(rxDesc)]
        /\ k = 2 => ~desc[rxDesc].ls
    <3>1. info.segCount + k \in {1, 2}  BY <1>0, <1>2, <2>1, ScanFacts
    <3> QED  BY <1>0, <1>2, <2>1, <3>1, ScanFacts
  <2>3. k = 2 /\ info.segCount = 0 /\ ~desc[rxDesc].ls /\ ~desc[After(rxDesc)].ls
    BY <1>2, <1>3, <2>2
  <2>4. Off(After(rxDesc)) = 1  BY <1>0, <1>3, <2>3, OffFacts, RxNumber
  <2>5. ~desc[rxDesc].own /\ ~desc[After(rxDesc)].own
    <3>1. 0 \in 0 .. k - 1 /\ 1 \in 0 .. k - 1  BY <2>3
    <3> QED  BY <1>2, <1>4, <3>1 DEF Scanned
  <2>6. After(rxDesc) \in Slots  BY <1>0, RxAfterIs
  <2> QED  BY <1>0, <1>3, <2>3, <2>4, <2>5, <2>6 DEF Parts
<1>6. \A i \in Slots : ~desc[i].own => ~desc[i].ls
  <2>1. CASE k = 0
    <3>1. desc[rxDesc].own  BY <1>2, <1>4, <2>1, RxNumber
    <3>2. Held = info.segCount
      BY <1>0, <1>3, <3>1, HeldFacts DEF RxRing
    <3> QED  BY <1>0, <1>3, <3>2 DEF RxRing, CountedParts
  <2>2. CASE k = 1
    <3>1. 1 \in 1 .. ETH_RXBUFNB /\ Scanned(1)  BY <1>2, <2>2
    <3>2. info.segCount = 1 => desc[rxDesc].ls  BY <1>0, <3>1, ScanFacts
    <3>3. info.segCount = 0 /\ ~desc[rxDesc].ls  BY <1>2, <1>3, <1>4, <2>2, <3>2
    <3>4. desc[After(rxDesc)].own  BY <1>2, <1>4, <2>2, RxNumber
    <3>5. Off(After(rxDesc)) = 1 /\ After(rxDesc) \in Slots
      BY <1>0, <1>3, <3>3, OffFacts, RxNumber, RxAfterIs
    <3>6. ~(1 < Held)  BY <1>0, <3>4, <3>5 DEF RxRing
    <3>7. \A i \in Slots : ~desc[i].own => Off(i) = 0
      BY <1>0, <3>6, HeldFacts, OffFacts DEF RxRing
    <3> QED  BY <1>0, <1>3, <3>3, <3>7, OffFacts
  <2> QED  BY <1>5, <2>1, <2>2
<1> QED  BY <1>6 DEF Complete

\* No step loses a wake-up.
LEMMA WakeStep == RxInv /\ LockInv /\ WakeInv /\ [Next]_vars => WakeInv'
<1> SUFFICES ASSUME RxInv, LockInv, WakeInv, [Next]_vars PROVE WakeInv'
  OBVIOUS
<1>0. TypeOK /\ Parts  BY DEF RxInv
<1>1. CASE Arrive  BY <1>1 DEF Arrive, WakeInv, Complete, reader
<1>2. CASE Dma
  <2>1. CASE Suspend  BY <2>1 DEF Suspend, WakeInv, Complete, reader
  <2>2. CASE Store
    <3>1. flagR' /\ UNCHANGED <<irq, sem, reader>>  BY <2>2 DEF Store, Write
    <3> QED  BY <3>1 DEF WakeInv, reader
  <2>3. CASE StoreFirst
    <3>1. /\ desc' = [desc EXCEPT ![dmaAt] =
                       [own |-> FALSE, fs |-> TRUE, ls |-> FALSE, frame |-> fifo]]
          /\ (flagR => flagR') /\ (gaveUp => gaveUp') /\ UNCHANGED <<irq, sem, reader>>
      BY <2>3 DEF StoreFirst, Write
    <3>2. Complete' => Complete  BY <1>0, <3>1 DEF Complete, TypeOK
    <3> QED  BY <3>1, <3>2 DEF WakeInv, reader
  <2> QED  BY <1>2, <2>1, <2>2, <2>3 DEF Dma
<1>3. CASE IrqGive \/ IrqClear
  BY <1>3 DEF IrqGive, IrqClear, WakeInv, Complete, dma, reader
<1>4. CASE Wait  BY <1>4 DEF Wait, WakeInv, Complete, dma
<1>5. CASE GetFrame  BY <1>5 DEF GetFrame, Look, WakeInv
<1>6. CASE GetNone
  <2>1. ~Complete /\ desc' = desc /\ sem' = sem /\ irq' = irq
    BY <1>6, NoneComplete DEF GetNone, Look, dma
  <2>2. ~Complete'  BY <2>1 DEF Complete
  <2> QED  BY <2>1, <2>2 DEF WakeInv
<1>7. CASE Copy
  <2>1. pc = "copy" /\ Base \in Slots /\ ~desc[Base].own /\ info.first = Base
    BY <1>7, LastFacts DEF Copy
  <2>2. desc[Base].frame # 0  BY <1>0, <2>1 DEF Parts
  <2>3. (hand' # 0 \/ gaveUp') /\ irq' = irq /\ sem' = sem  BY <1>7, <2>1, <2>2 DEF Copy
  <2>4. pc' = "release"  BY <1>7 DEF Copy
  <2> QED  BY <2>3, <2>4 DEF WakeInv
<1>8. CASE Release
  <2>1. /\ pc = "release" /\ pc' = "resume" /\ UNCHANGED <<flagR, irq, sem, hand, gaveUp>>
        /\ \A i \in Slots : ~desc'[i].own => ~desc[i].own /\ desc'[i] = desc[i]
    <3>1. \A i \in Slots : desc'[i] \in {desc[i], [desc[i] EXCEPT !.own = TRUE]}
      BY <1>8 DEF Release
    <3>2. \A i \in Slots : desc[i] \in Desc  BY <1>0 DEF TypeOK
    <3>3. \A i \in Slots : ~desc'[i].own => desc'[i] = desc[i]
      BY <3>1, <3>2 DEF Desc
    <3> QED  BY <1>8, <3>3 DEF Release
  <2>2. Complete' => Complete  BY <2>1 DEF Complete, Slots
  <2> QED  BY <2>1, <2>2 DEF WakeInv
<1>9. CASE Resume
  BY <1>9 DEF Resume, WakeInv, Complete
<1>10. CASE Input  BY <1>10 DEF Input, WakeInv
<1>11. CASE \E t \in Senders : TransmitEnter(t) \/ TransmitLeave(t)
  BY <1>11 DEF TransmitEnter, TransmitLeave, WakeInv, Complete, dma, reader
<1>12. CASE UNCHANGED vars
  BY <1>12 DEF vars, WakeInv, Complete, dma, reader
<1> QED
  BY <1>1, <1>2, <1>3, <1>4, <1>5, <1>6, <1>7, <1>8, <1>9, <1>10, <1>11, <1>12 DEF Next, Reader

\* What the thread copies are the parts of one frame.
LEMMA CopiesWhole == RxInv => WholeFrame
<1> SUFFICES ASSUME RxInv, pc = "copy"
             PROVE  LET part(j) == desc[(info.first + j) % ETH_RXBUFNB] IN
               /\ info.segCount > 0 /\ part(0).fs /\ part(info.segCount - 1).ls
               /\ \A j \in 0 .. info.segCount - 1 :
                    ~part(j).own /\ part(j).frame = part(0).frame
  BY DEF RxInv, WholeFrame
<1>1. /\ info.segCount \in {1, 2} /\ info.first = Base /\ Base \in Slots
      /\ ~desc[Base].own /\ desc[Base].fs /\ ~desc[Last].own /\ desc[Last].ls
      /\ desc[Last].frame = desc[Base].frame
  BY LastFacts
<1>2. (Base + 0) % ETH_RXBUFNB = Base /\ (Base + 1) % ETH_RXBUFNB = After(Base)
  BY <1>1, RxAfterIs DEF After
<1>3. CASE info.segCount = 1  BY <1>1, <1>2, <1>3 DEF Last
<1>4. CASE info.segCount = 2
  <2>1. \A j \in 0 .. info.segCount - 1 : j \in {0, 1}  BY <1>4
  <2> QED  BY <1>1, <1>2, <1>4, <2>1 DEF Last
<1> QED  BY <1>1, <1>3, <1>4

\* A frame that is handled is newer than the last one.
Newer == handled' >= handled /\ (pc = "copy" /\ pc' # pc => handled' > handled)

\* No step handles an older frame.
LEMMA NewerStep == RxInv /\ [Next]_vars => [Newer]_vars
<1> SUFFICES ASSUME RxInv, Next PROVE Newer
  OBVIOUS
<1> USE DEF Newer
<1>0. TypeOK /\ handled \in Nat  BY DEF RxInv, TypeOK
<1>1. CASE Copy
  <2>1. handled' = desc[Base].frame /\ ~desc[Base].own /\ Base \in Slots /\ pc = "copy"
    BY <1>1, LastFacts DEF Copy
  <2>2. handled < desc[Base].frame /\ desc[Base].frame \in Nat
    BY <1>0, <2>1 DEF RxInv, Sorted, TypeOK, Desc
  <2> QED  BY <1>0, <2>1, <2>2
<1>2. CASE Arrive \/ Dma \/ IrqGive \/ IrqClear
  <2>1. handled' = handled /\ pc' = pc
    BY <1>2 DEF Arrive, Dma, Store, StoreFirst, Suspend, Write, IrqGive, IrqClear, reader
  <2> QED  BY <1>0, <2>1
<1>3. CASE Wait \/ GetFrame \/ GetNone \/ Release \/ Resume \/ Input
  <2>1. handled' = handled /\ pc # "copy"
    BY <1>3 DEF Wait, GetFrame, GetNone, Look, Release, Resume, Input
  <2> QED  BY <1>0, <2>1
<1>4. CASE \E t \in Senders : TransmitEnter(t) \/ TransmitLeave(t)
  <2>1. handled' = handled /\ pc' = pc
    BY <1>4 DEF TransmitEnter, TransmitLeave, reader
  <2> QED  BY <1>0, <2>1
<1> QED  BY <1>1, <1>2, <1>3, <1>4 DEF Next, Reader

\* The invariants of the receive path hold in every reachable state.
LEMMA ReceiveInvariance == Spec => [](RxInv /\ LockInv /\ WakeInv)
<1>1. Init => LockInv /\ WakeInv  BY DEF Init, LockInv, WakeInv, Complete
<1> QED  BY <1>1, RxInit, RxStep, LockStep, WakeStep, PTL DEF Spec

\* ethernetif_input copies the parts of one frame, from its first to its last, however
\* frames, interrupts and senders come.
THEOREM CopyIsWhole == Spec => []WholeFrame
BY ReceiveInvariance, CopiesWhole, PTL

\* While ethernetif_input sleeps over a complete frame an interrupt is due, or memory ran out.
THEOREM WakeupKept == Spec => []NoLostWakeup
<1>1. WakeInv => NoLostWakeup  BY DEF WakeInv, NoLostWakeup, ReaderBlocked
<1> QED  BY <1>1, ReceiveInvariance, PTL

\* Frames are handled in the order in which they arrived, each at most once.
THEOREM HandledInOrder == Spec => InOrder
BY NewerStep, ReceiveInvariance, PTL DEF Spec, InOrder, Newer

-----------------------------------------------------------------------------
(* The transmit path. What low_level_output reports is true, and the wire in *)
(* order, when one thread sends; for more see the run eth_tx_two_senders.  *)

\* Where a sender may be.
Labels == {"idle", "copy", "lock", "check", "give", "advance", "finish"}

\* The part of the type invariant that the argument needs.
TxTyped ==
  /\ own \in [Tx!Slots -> BOOLEAN]
  /\ buf \in [Tx!Slots -> Tx!Buffer]
  /\ {txDmaAt, txDesc} \subseteq Tx!Slots
  /\ txPc \in [Senders -> Labels]
  /\ at \in [Senders -> Tx!Slots]
  /\ frame \in [Senders -> {0} \union Tx!Frames]
  /\ copied \in [Senders -> 0 .. Pbufs]
  /\ made \in {0} \union Tx!Frames
  /\ wire \in Seq(Tx!Buffer)

\* A frame that has been sent or belongs, as it is, to the DMA.
Passed(f) == Tx!Sent(f) \/ \E i \in Tx!Slots : own[i] /\ buf[i] = Tx!Whole(f)

\* The sender fills the buffer of the next descriptor, and hands over just that buffer,
\* full, which the DMA does not own.
Filling(t) ==
  /\ txPc[t] \in {"copy", "lock", "check", "give"} => at[t] = txDesc /\ frame[t] \in Tx!Frames
  /\ txPc[t] = "copy" => /\ copied[t] < Pbufs
                       /\ \A k \in 1 .. copied[t] : buf[txDesc][k] = frame[t]
  /\ txPc[t] \in {"lock", "check", "give"} => ~own[txDesc] /\ buf[txDesc] = Tx!Whole(frame[t])
  /\ txPc[t] \in {"advance", "finish"} => Passed(frame[t])

\* The handle is locked by the sender or not at all.
LockOwn(t) == locked => txPc[t] \in {"check", "give", "advance", "finish"}

Reported == \A f \in ok : Passed(f)

TxInv == TxTyped /\ Reported /\ (\A t \in Senders : Filling(t) /\ LockOwn(t))

\* The next descriptor of the ring is one of the ring.
LEMMA AfterIn == ASSUME Tx!ConstantsOK, NEW i \in Tx!Slots PROVE Tx!After(i) \in Tx!Slots
BY DEF Tx!ConstantsOK, Tx!Slots, Tx!After

\* What has passed has passed, as long as the DMA's buffers are left alone and its
\* descriptors are given to it only.
LEMMA PassedStays ==
  ASSUME NEW f, Passed(f), wire' = wire,
         \A i \in Tx!Slots : own[i] => own'[i] /\ buf'[i] = buf[i]
  PROVE  Passed(f)'
BY DEF Passed, Tx!Sent, Tx!Slots, Tx!Whole

\* The steps of the sender.
LEMMA OutputStep ==
  ASSUME Tx!ConstantsOK, \A t, u \in Senders : t = u, TxInv, NEW t \in Senders, Tx!Output(t)
  PROVE  TxInv'
<1> USE DEF Tx!Goto, Tx!Return
<1>0. TxTyped /\ Reported /\ Filling(t) /\ LockOwn(t)  BY DEF TxInv
<1>a. SUFFICES TxTyped' /\ Reported' /\ Filling(t)' /\ LockOwn(t)'
  BY DEF TxInv
<1>1. CASE Tx!Begin(t)
  <2>1. made + 1 \in Tx!Frames  BY <1>0, <1>1 DEF Tx!ConstantsOK, Tx!Begin, TxTyped, Tx!Frames
  <2>2. TxTyped'
    BY <1>0, <1>1, <2>1 DEF Tx!ConstantsOK, Tx!Begin, TxTyped, Labels, Tx!dma
  <2>3. Reported'  BY <1>0, <1>1, PassedStays DEF Tx!Begin, Reported, Tx!dma
  <2>4. /\ txPc'[t] = "copy" /\ at'[t] = txDesc /\ frame'[t] = made + 1 /\ copied'[t] = 0
        /\ txDesc' = txDesc /\ locked' = locked /\ ~locked
    BY <1>0, <1>1 DEF Tx!Begin, TxTyped, LockOwn
  <2>5. Filling(t)' /\ LockOwn(t)'
    BY <2>1, <2>4 DEF Tx!ConstantsOK, Filling, LockOwn
  <2> QED  BY <2>2, <2>3, <2>5
<1>2. CASE Tx!Copy(t)
  <2>0. /\ txPc[t] = "copy" /\ at[t] = txDesc /\ ~own[txDesc] /\ frame[t] \in Tx!Frames
        /\ copied[t] \in 0 .. Pbufs - 1 /\ txDesc \in Tx!Slots /\ ~locked
    BY <1>0, <1>2 DEF Tx!ConstantsOK, Tx!Copy, Filling, TxTyped, LockOwn
  <2>1. /\ own' = own /\ wire' = wire /\ txDesc' = txDesc /\ frame' = frame /\ at' = at
        /\ locked' = locked /\ ok' = ok /\ txDmaAt' = txDmaAt /\ made' = made
        /\ copied' = [copied EXCEPT ![t] = @ + 1]
        /\ buf' = [buf EXCEPT ![txDesc] = [@ EXCEPT ![copied[t] + 1] = frame[t]]]
        /\ IF copied[t] + 1 = Pbufs THEN txPc' = [txPc EXCEPT ![t] = "lock"] ELSE txPc' = txPc
    BY <1>0, <1>2, <2>0 DEF Tx!Copy, TxTyped, Tx!dma
  <2>2. buf[txDesc] \in Tx!Buffer /\ buf' \in [Tx!Slots -> Tx!Buffer]
        /\ buf'[txDesc] = [buf[txDesc] EXCEPT ![copied[t] + 1] = frame[t]]
    BY <1>0, <2>0, <2>1 DEF Tx!ConstantsOK, TxTyped, Tx!Buffer
  <2>3. copied'[t] = copied[t] + 1 /\ copied' \in [Senders -> 0 .. Pbufs]
    BY <1>0, <2>0, <2>1 DEF Tx!ConstantsOK, TxTyped
  <2>4. txPc' \in [Senders -> Labels]  BY <1>0, <2>1 DEF TxTyped, Labels
  <2>5. TxTyped'  BY <1>0, <2>1, <2>2, <2>3, <2>4 DEF TxTyped
  <2>6. \A i \in Tx!Slots : own[i] => own'[i] /\ buf'[i] = buf[i]
    BY <1>0, <2>0, <2>1 DEF TxTyped
  <2>7. Reported'  BY <1>0, <2>1, <2>6, PassedStays DEF Reported
  <2>8. \A k \in 1 .. copied'[t] : buf'[txDesc][k] = frame[t]
    BY <1>0, <2>0, <2>2, <2>3 DEF Tx!ConstantsOK, Filling, Tx!Buffer
  <2>9. CASE copied[t] + 1 = Pbufs
    <3>1. buf'[txDesc] = Tx!Whole(frame[t])
      BY <2>2, <2>3, <2>8, <2>9 DEF Tx!Whole, Tx!Buffer
    <3>2. txPc'[t] = "lock"  BY <1>0, <2>1, <2>9 DEF TxTyped
    <3> QED  BY <2>0, <2>1, <2>5, <2>7, <3>1, <3>2 DEF Filling, LockOwn, Tx!Whole
  <2>10. CASE copied[t] + 1 # Pbufs
    <3>1. txPc'[t] = "copy" /\ copied'[t] < Pbufs
      BY <2>0, <2>1, <2>3, <2>10 DEF Tx!ConstantsOK
    <3> QED  BY <2>0, <2>1, <2>5, <2>7, <2>8, <3>1 DEF Filling, LockOwn
  <2> QED  BY <2>9, <2>10
<1>3. CASE Tx!CopyRefused(t)
  <2>1. TxTyped' /\ txPc'[t] = "idle" /\ ~locked'
    BY <1>0, <1>3 DEF Tx!CopyRefused, TxTyped, Labels, Tx!dma, LockOwn
  <2>2. Reported'  BY <1>0, <1>3, PassedStays DEF Tx!CopyRefused, Reported, Tx!dma
  <2> QED  BY <2>1, <2>2 DEF Filling, LockOwn
<1>4. CASE Tx!Lock(t)
  <2>1. ~locked  BY <1>0, <1>4 DEF Tx!Lock, LockOwn
  <2>2. TxTyped' /\ txPc'[t] = "check"
    BY <1>0, <1>4, <2>1 DEF Tx!Lock, TxTyped, Labels, Tx!dma
  <2>3. Reported'  BY <1>0, <1>4, <2>1, PassedStays DEF Tx!Lock, Reported, Tx!dma
  <2> QED  BY <1>0, <1>4, <2>2, <2>3 DEF Tx!Lock, Filling, LockOwn, Tx!dma, Tx!Whole
<1>5. CASE Tx!Check(t)
  <2>1. ~own[txDesc]  BY <1>0, <1>5 DEF Tx!Check, Filling
  <2>2. TxTyped' /\ txPc'[t] = "give"
    BY <1>0, <1>5, <2>1 DEF Tx!Check, TxTyped, Labels, Tx!dma
  <2>3. Reported'  BY <1>0, <1>5, <2>1, PassedStays DEF Tx!Check, Reported, Tx!dma
  <2> QED  BY <1>0, <1>5, <2>2, <2>3 DEF Tx!Check, Filling, LockOwn, Tx!dma, Tx!Whole
<1>6. CASE Tx!Give(t)
  <2>1. TxTyped' /\ txPc'[t] = "advance" /\ own'[txDesc]
    BY <1>0, <1>6 DEF Tx!Give, TxTyped, Labels
  <2>2. \A i \in Tx!Slots : own[i] => own'[i] /\ buf'[i] = buf[i]
    BY <1>0, <1>6 DEF Tx!Give, TxTyped
  <2>3. Reported'  BY <1>0, <1>6, <2>2, PassedStays DEF Tx!Give, Reported
  <2>4. Passed(frame[t])'
    BY <1>0, <1>6, <2>1 DEF Tx!Give, Passed, Filling, TxTyped, Tx!Whole, Tx!Slots
  <2> QED  BY <1>6, <2>1, <2>3, <2>4 DEF Tx!Give, Filling, LockOwn
<1>7. CASE Tx!Advance(t)
  <2>1. TxTyped' /\ txPc'[t] = "finish"
    BY <1>0, <1>7, AfterIn DEF Tx!Advance, TxTyped, Labels, Tx!dma
  <2>2. Reported'  BY <1>0, <1>7, PassedStays DEF Tx!Advance, Reported, Tx!dma
  <2>3. Passed(frame[t])'
    BY <1>0, <1>7, PassedStays DEF Tx!Advance, Filling, Tx!dma
  <2> QED  BY <1>7, <2>1, <2>2, <2>3 DEF Tx!Advance, Filling, LockOwn
<1>8. CASE Tx!Finish(t)
  <2>1. TxTyped' /\ txPc'[t] = "idle" /\ ~locked'
    BY <1>0, <1>8 DEF Tx!Finish, TxTyped, Labels
  <2>2. Passed(frame[t])  BY <1>0, <1>8 DEF Tx!Finish, Filling
  <2>3. Reported'  BY <1>0, <1>8, <2>2, PassedStays DEF Tx!Finish, Reported
  <2> QED  BY <2>1, <2>3 DEF Filling, LockOwn
<1> QED  BY <1>1, <1>2, <1>3, <1>4, <1>5, <1>6, <1>7, <1>8 DEF Tx!Output

\* The DMA puts what it takes on the wire.
LEMMA TransmitStep == ASSUME Tx!ConstantsOK, TxInv, Tx!Transmit PROVE TxInv'
<1>0. TxTyped /\ Reported /\ own[txDmaAt] /\ txDmaAt \in Tx!Slots
  BY DEF TxInv, Tx!Transmit, TxTyped
<1>1. /\ own' = [own EXCEPT ![txDmaAt] = FALSE] /\ wire' = Append(wire, buf[txDmaAt])
      /\ buf[txDmaAt] \in Tx!Buffer /\ wire' \in Seq(Tx!Buffer)
      /\ buf' = buf /\ txDesc' = txDesc /\ locked' = locked /\ txPc' = txPc /\ at' = at
      /\ frame' = frame /\ copied' = copied /\ made' = made /\ ok' = ok
  BY <1>0 DEF Tx!Transmit, TxTyped, Tx!sender
<1>2. TxTyped'  BY <1>0, <1>1, AfterIn DEF Tx!Transmit, TxTyped
<1>3. ASSUME NEW f, Passed(f) PROVE Passed(f)'
  <2>1. CASE Tx!Sent(f)
    <3>1. PICK i \in DOMAIN wire : wire[i] = Tx!Whole(f)  BY <2>1 DEF Tx!Sent
    <3>2. i \in DOMAIN wire' /\ wire'[i] = Tx!Whole(f)
      BY <1>0, <1>1, <3>1 DEF TxTyped
    <3> QED  BY <3>2 DEF Passed, Tx!Sent, Tx!Whole
  <2>2. CASE \E i \in Tx!Slots : own[i] /\ buf[i] = Tx!Whole(f)
    <3>1. PICK i \in Tx!Slots : own[i] /\ buf[i] = Tx!Whole(f)  BY <2>2
    <3>2. CASE i = txDmaAt
      <4>1. Len(wire) + 1 \in DOMAIN wire' /\ wire'[Len(wire) + 1] = Tx!Whole(f)
        BY <1>0, <1>1, <3>1, <3>2 DEF TxTyped
      <4> QED  BY <4>1 DEF Passed, Tx!Sent, Tx!Whole
    <3>3. CASE i # txDmaAt
      BY <1>0, <1>1, <3>1, <3>3 DEF Passed, TxTyped, Tx!Whole, Tx!Slots
    <3> QED  BY <3>2, <3>3
  <2> QED  BY <1>3, <2>1, <2>2 DEF Passed
<1>4. Reported'  BY <1>0, <1>1, <1>3 DEF Reported
<1>5. ASSUME NEW t \in Senders PROVE Filling(t)' /\ LockOwn(t)'
  <2>1. Filling(t) /\ LockOwn(t)  BY DEF TxInv
  <2>2. ~own[txDesc] => ~own'[txDesc]  BY <1>0, <1>1 DEF TxTyped
  <2>3. Passed(frame[t]) => Passed(frame[t])'  BY <1>1, <1>3
  <2> QED  BY <1>1, <2>1, <2>2, <2>3 DEF Filling, LockOwn, Tx!Whole
<1> QED  BY <1>2, <1>4, <1>5 DEF TxInv

\* Every step keeps the invariant.
LEMMA TxStep ==
  ASSUME Tx!ConstantsOK, \A t, u \in Senders : t = u
  PROVE  TxInv /\ [Tx!Next]_(Tx!vars) => TxInv'
<1> SUFFICES ASSUME TxInv, [Tx!Next]_(Tx!vars) PROVE TxInv'
  OBVIOUS
<1>1. CASE Tx!Transmit  BY <1>1, TransmitStep
<1>2. CASE Tx!Suspend \/ Tx!Interrupt \/ UNCHANGED Tx!vars
  <2>1. /\ own' = own /\ wire' = wire /\ buf' = buf /\ txDesc' = txDesc /\ txDmaAt' = txDmaAt
        /\ txPc' = txPc /\ at' = at /\ frame' = frame /\ copied' = copied /\ made' = made
        /\ ok' = ok /\ (locked' => locked)
    BY <1>2 DEF Tx!Suspend, Tx!Interrupt, Tx!vars, Tx!dma, Tx!sender
  <2>2. TxTyped'  BY <2>1 DEF TxInv, TxTyped
  <2>3. \A f : Passed(f) => Passed(f)'  BY <2>1, PassedStays
  <2>4. Reported'  BY <2>1, <2>3 DEF TxInv, Reported
  <2>5. ASSUME NEW t \in Senders PROVE Filling(t)' /\ LockOwn(t)'
    BY <2>1, <2>3 DEF TxInv, Filling, LockOwn, Tx!Whole
  <2> QED  BY <2>2, <2>4, <2>5 DEF TxInv
<1>3. CASE \E t \in Senders : Tx!Output(t)  BY <1>3, OutputStep
<1> QED  BY <1>1, <1>2, <1>3 DEF Tx!Next

\* When one thread sends, every frame that low_level_output has reported as sent is on the
\* wire, or is with the DMA as it was passed down.
THEOREM OneSenderReportsTrue ==
  ASSUME Tx!ConstantsOK, \A t, u \in Senders : t = u
  PROVE  Tx!Spec => []Tx!ReportsTrue
<1>1. Tx!Init => TxInv
  BY DEF Tx!ConstantsOK, Tx!Init, TxInv, TxTyped, Reported, Filling, LockOwn, Tx!Slots,
         Tx!Buffer, Tx!Whole, Labels, Tx!Frames
<1>2. TxInv => Tx!ReportsTrue  BY DEF TxInv, Reported, Tx!ReportsTrue, Passed
<1> QED  BY <1>1, <1>2, TxStep, PTL DEF Tx!Spec

-----------------------------------------------------------------------------
(* The order of the frames. Those that the DMA owns lie between its own        *)
(* position and that of the sender; all that went before is older.             *)

\* How far a descriptor is from the one that the DMA sends next.
Pos(i) == IF i >= txDmaAt THEN i - txDmaAt ELSE i - txDmaAt + ETH_TXBUFNB

\* The descriptor behind the last one that was given to the DMA.
Mark == IF \E t \in Senders : txPc[t] = "advance" THEN Tx!After(txDesc) ELSE txDesc

Ring ==
  /\ own[Mark] => Mark = txDmaAt
  /\ \A i \in Tx!Slots : own[i] <=> own[Mark] \/ Pos(i) < Pos(Mark)

\* A frame was begun before the one, if any, that is not yet given to the DMA.
Older(f) ==
  /\ f <= made
  /\ \A t \in Senders :
       txPc[t] \in {"copy", "lock", "check", "give"} => f < frame[t] /\ frame[t] <= made

OldFrame(b) == b[1] \in Tx!Frames /\ b = Tx!Whole(b[1]) /\ Older(b[1])

Ordered ==
  /\ \A i \in DOMAIN wire : OldFrame(wire[i])
  /\ \A i \in Tx!Slots : own[i] => OldFrame(buf[i])
  /\ \A i, j \in DOMAIN wire : i < j => wire[i][1] < wire[j][1]
  /\ \A i \in DOMAIN wire, j \in Tx!Slots : own[j] => wire[i][1] < buf[j][1]
  /\ \A i, j \in Tx!Slots : own[i] /\ own[j] /\ Pos(i) < Pos(j) => buf[i][1] < buf[j][1]

\* The descriptors form a ring.
LEMMA AfterIs ==
  ASSUME Tx!ConstantsOK, NEW i \in Tx!Slots
  PROVE  Tx!After(i) = IF i = ETH_TXBUFNB - 1 THEN 0 ELSE i + 1
<1>1. ETH_TXBUFNB \in Nat /\ ETH_TXBUFNB > 0 /\ i \in Nat /\ i < ETH_TXBUFNB
  BY DEF Tx!ConstantsOK, Tx!Slots
<1>2. CASE i = ETH_TXBUFNB - 1
  <2>1. i + 1 = ETH_TXBUFNB  BY <1>1, <1>2
  <2>2. ETH_TXBUFNB % ETH_TXBUFNB = 0  BY <1>1
  <2> QED  BY <1>2, <2>1, <2>2 DEF Tx!After
<1>3. CASE i # ETH_TXBUFNB - 1
  <2>1. i + 1 \in 0 .. ETH_TXBUFNB - 1  BY <1>1, <1>3
  <2>2. (i + 1) % ETH_TXBUFNB = i + 1  BY <1>1, <2>1
  <2> QED  BY <1>3, <2>2 DEF Tx!After
<1> QED  BY <1>2, <1>3

\* A position tells the descriptor.
LEMMA PosTells ==
  ASSUME Tx!ConstantsOK, TxTyped, NEW i \in Tx!Slots, NEW j \in Tx!Slots, Pos(i) = Pos(j)
  PROVE  i = j
BY DEF Tx!ConstantsOK, TxTyped, Tx!Slots, Pos

\* When the DMA goes on, all others come one nearer and its last one goes to the end.
LEMMA PosMoves ==
  ASSUME Tx!ConstantsOK, TxTyped, NEW i \in Tx!Slots, txDmaAt' = Tx!After(txDmaAt)
  PROVE  Pos(i)' = IF i = txDmaAt THEN ETH_TXBUFNB - 1 ELSE Pos(i) - 1
<1>1. txDmaAt' = IF txDmaAt = ETH_TXBUFNB - 1 THEN 0 ELSE txDmaAt + 1
  BY AfterIs DEF TxTyped
<1>2. /\ ETH_TXBUFNB \in Nat /\ txDmaAt \in 0 .. ETH_TXBUFNB - 1 /\ i \in 0 .. ETH_TXBUFNB - 1
      /\ ETH_TXBUFNB' = ETH_TXBUFNB
  BY DEF Tx!ConstantsOK, TxTyped, Tx!Slots
<1>3. CASE txDmaAt = ETH_TXBUFNB - 1
  <2>1. txDmaAt' = 0  BY <1>1, <1>3
  <2>2. Pos(i)' = i  BY <1>2, <2>1 DEF Pos
  <2> QED  BY <1>2, <1>3, <2>2 DEF Pos
<1>4. CASE txDmaAt # ETH_TXBUFNB - 1
  <2>1. txDmaAt' = txDmaAt + 1  BY <1>1, <1>4
  <2>2. Pos(i)' = IF i >= txDmaAt + 1 THEN i - (txDmaAt + 1) ELSE i - (txDmaAt + 1) + ETH_TXBUFNB
    BY <2>1 DEF Pos
  <2> QED  BY <1>2, <1>4, <2>2 DEF Pos
<1> QED  BY <1>3, <1>4

LEMMA TransmitOrder ==
  ASSUME Tx!ConstantsOK, TxInv, Ring, Ordered, Tx!Transmit
  PROVE  Ring' /\ Ordered'
<1>0. TxTyped /\ own[txDmaAt] /\ txDmaAt \in Tx!Slots
  BY DEF TxInv, Tx!Transmit, TxTyped
<1>1. /\ own' = [own EXCEPT ![txDmaAt] = FALSE] /\ wire' = Append(wire, buf[txDmaAt])
      /\ buf[txDmaAt] \in Tx!Buffer /\ wire \in Seq(Tx!Buffer) /\ txDmaAt' = Tx!After(txDmaAt)
      /\ buf' = buf /\ txDesc' = txDesc /\ txPc' = txPc /\ frame' = frame /\ made' = made
  BY <1>0 DEF Tx!Transmit, TxTyped, Tx!sender
<1>n. ETH_TXBUFNB \in Nat \ {0}  BY DEF Tx!ConstantsOK
<1>a. \A i \in Tx!Slots : own'[i] <=> own[i] /\ i # txDmaAt  BY <1>0, <1>1 DEF TxTyped
<1>b. \A i \in Tx!Slots : Pos(i)' = IF i = txDmaAt THEN ETH_TXBUFNB - 1 ELSE Pos(i) - 1
  BY <1>0, <1>1, PosMoves
<1>c. \A i \in Tx!Slots : Pos(i) \in 0 .. ETH_TXBUFNB - 1
  BY <1>0, <1>n DEF Pos, Tx!Slots
<1>d. Pos(txDmaAt) = 0  BY <1>0, <1>n DEF Pos, Tx!Slots
<1>2. /\ \A i \in Tx!Slots : own'[i] <=> own[i] /\ i # txDmaAt
      /\ \A i \in Tx!Slots : Pos(i)' = IF i = txDmaAt THEN ETH_TXBUFNB - 1 ELSE Pos(i) - 1
      /\ \A i \in Tx!Slots : Pos(i) \in 0 .. ETH_TXBUFNB - 1
      /\ Pos(txDmaAt) = 0
  BY <1>a, <1>b, <1>c, <1>d
<1>3. Mark \in Tx!Slots /\ Mark' = Mark
  BY <1>0, <1>1, AfterIn DEF Mark, TxTyped
<1>4. Ring'
  <2>1. CASE own[Mark]
    <3>1. Mark = txDmaAt  BY <2>1 DEF Ring
    <3>2. \A i \in Tx!Slots : i # txDmaAt => own[i] /\ Pos(i) # 0
      BY <1>0, <1>2, <2>1, PosTells DEF Ring
    <3>3. ~own'[Mark] /\ Pos(Mark)' = ETH_TXBUFNB - 1  BY <1>2, <1>3, <3>1
    <3>4. \A i \in Tx!Slots : own'[i] <=> Pos(i)' < ETH_TXBUFNB - 1
      BY <1>0, <1>2, <3>2 DEF Tx!ConstantsOK
    <3> QED  BY <1>3, <3>3, <3>4 DEF Ring
  <2>2. CASE ~own[Mark]
    <3>1. Mark # txDmaAt /\ Pos(Mark)' = Pos(Mark) - 1 /\ ~own'[Mark]
      BY <1>0, <1>2, <1>3, <2>2
    <3>2. \A i \in Tx!Slots : own[i] <=> Pos(i) < Pos(Mark)  BY <2>2 DEF Ring
    <3>3. ASSUME NEW i \in Tx!Slots PROVE own'[i] <=> Pos(i)' < Pos(Mark)'
      <4>1. Pos(Mark) \in 0 .. ETH_TXBUFNB - 1 /\ Pos(i) \in 0 .. ETH_TXBUFNB - 1
        BY <1>2, <1>3
      <4>2. CASE i = txDmaAt  BY <1>n, <1>2, <3>1, <4>1, <4>2
      <4>3. CASE i # txDmaAt  BY <1>n, <1>2, <3>1, <3>2, <4>1, <4>3
      <4> QED  BY <4>2, <4>3
    <3> QED  BY <1>3, <3>1, <3>3 DEF Ring
  <2> QED  BY <2>1, <2>2
<1>5. \A b : OldFrame(b) => OldFrame(b)'
  BY <1>1 DEF OldFrame, Older, Tx!Whole, Tx!Frames
<1>6. /\ DOMAIN wire' = 1 .. Len(wire) + 1 /\ DOMAIN wire = 1 .. Len(wire) /\ Len(wire) \in Nat
      /\ wire'[Len(wire) + 1] = buf[txDmaAt] /\ \A i \in DOMAIN wire : wire'[i] = wire[i]
  BY <1>1
<1>7. \A i \in Tx!Slots : own[i] /\ i # txDmaAt => buf[txDmaAt][1] < buf[i][1]
  <2>1. \A i \in Tx!Slots : i # txDmaAt => Pos(txDmaAt) < Pos(i)
    BY <1>0, <1>2, PosTells
  <2> QED  BY <1>0, <2>1 DEF Ordered
<1>8. (\A i \in DOMAIN wire : OldFrame(wire[i]))'
  BY <1>0, <1>5, <1>6 DEF Ordered
<1>9. (\A i \in Tx!Slots : own[i] => OldFrame(buf[i]))'
  BY <1>1, <1>2, <1>5 DEF Ordered
<1>10. (\A i, j \in DOMAIN wire : i < j => wire[i][1] < wire[j][1])'
  BY <1>0, <1>6 DEF Ordered
<1>11. (\A i \in DOMAIN wire, j \in Tx!Slots : own[j] => wire[i][1] < buf[j][1])'
  BY <1>1, <1>2, <1>6, <1>7 DEF Ordered
<1>12. (\A i, j \in Tx!Slots : own[i] /\ own[j] /\ Pos(i) < Pos(j) => buf[i][1] < buf[j][1])'
  BY <1>1, <1>2 DEF Ordered
<1> QED  BY <1>4, <1>8, <1>9, <1>10, <1>11, <1>12 DEF Ordered

\* The descriptor behind another is one further, or is the one that the DMA sends next.
LEMMA PosAfter ==
  ASSUME Tx!ConstantsOK, TxTyped, NEW i \in Tx!Slots
  PROVE  IF Pos(i) = ETH_TXBUFNB - 1 THEN Tx!After(i) = txDmaAt ELSE Pos(Tx!After(i)) = Pos(i) + 1
<1>1. /\ ETH_TXBUFNB \in Nat /\ txDmaAt \in 0 .. ETH_TXBUFNB - 1 /\ i \in 0 .. ETH_TXBUFNB - 1
  BY DEF Tx!ConstantsOK, TxTyped, Tx!Slots
<1>2. CASE i = ETH_TXBUFNB - 1
  <2>1. Tx!After(i) = 0  BY <1>2, AfterIs
  <2> QED  BY <1>1, <1>2, <2>1 DEF Pos
<1>3. CASE i # ETH_TXBUFNB - 1
  <2>1. Tx!After(i) = i + 1  BY <1>3, AfterIs
  <2> QED  BY <1>1, <1>3, <2>1 DEF Pos
<1> QED  BY <1>2, <1>3

\* A step that leaves the descriptors, the wire and what the DMA owns as they are.
LEMMA OrderStays ==
  ASSUME Ring, Ordered, own' = own, wire' = wire, txDmaAt' = txDmaAt, Mark' = Mark,
         \A i \in Tx!Slots : own[i] => buf'[i] = buf[i],
         \A f \in Tx!Frames : Older(f) => Older(f)'
  PROVE  Ring' /\ Ordered'
<1>1. \A i : Pos(i)' = Pos(i)  BY DEF Pos
<1>2. Ring'  BY <1>1 DEF Ring, Tx!Slots
<1>3. \A b : OldFrame(b) => OldFrame(b)'  BY DEF OldFrame, Tx!Whole, Tx!Frames
<1> QED  BY <1>1, <1>2, <1>3 DEF Ordered, Tx!Slots

\* A frame is one of those that lwIP has passed down, and so is what was reported.
Numbered ==
  /\ {txSuspended, locked} \subseteq BOOLEAN
  /\ ok \subseteq 1 .. made
  /\ \A t \in Senders : txPc[t] # "idle" => frame[t] \in 1 .. made

\* The sender numbers the frames.
LEMMA NumberedStep ==
  ASSUME Tx!ConstantsOK, TxInv, Numbered, [Tx!Next]_(Tx!vars)
  PROVE  Numbered'
<1> USE DEF Tx!Goto, Tx!Return
<1>0. TxTyped /\ made \in Nat  BY DEF TxInv, TxTyped, Tx!Frames
<1>1. ASSUME NEW t \in Senders, Tx!Output(t)  PROVE Numbered'
  <2>1. CASE Tx!Begin(t)
    <3>1. /\ made' = made + 1 /\ frame' = [frame EXCEPT ![t] = made + 1]
          /\ txPc' = [txPc EXCEPT ![t] = "copy"] /\ ok' = ok
          /\ locked' = locked /\ txSuspended' = txSuspended
      BY <2>1 DEF Tx!Begin, Tx!dma
    <3>2. 1 .. made \subseteq 1 .. made'  BY <1>0, <3>1
    <3>3. \A u \in Senders : txPc'[u] # "idle" => frame'[u] \in 1 .. made'
      BY <1>0, <3>1, <3>2 DEF TxTyped, Numbered
    <3> QED  BY <3>1, <3>2, <3>3 DEF Numbered
  <2>2. CASE Tx!Copy(t)  BY <1>0, <2>2 DEF Tx!Copy, Numbered, TxTyped, Tx!dma
  <2>3. CASE Tx!CopyRefused(t)  BY <1>0, <2>3 DEF Tx!CopyRefused, Numbered, TxTyped, Tx!dma
  <2>4. CASE Tx!Lock(t)  BY <1>0, <2>4 DEF Tx!Lock, Numbered, TxTyped, Tx!dma
  <2>5. CASE Tx!Check(t)  BY <1>0, <2>5 DEF Tx!Check, Numbered, TxTyped, Tx!dma
  <2>6. CASE Tx!Give(t)  BY <1>0, <2>6 DEF Tx!Give, Numbered, TxTyped, Tx!dma
  <2>7. CASE Tx!Advance(t)  BY <1>0, <2>7 DEF Tx!Advance, Numbered, TxTyped, Tx!dma
  <2>8. CASE Tx!Finish(t)  BY <1>0, <2>8 DEF Tx!Finish, Numbered, TxTyped, Tx!dma
  <2> QED  BY <1>1, <2>1, <2>2, <2>3, <2>4, <2>5, <2>6, <2>7, <2>8 DEF Tx!Output
<1>2. CASE Tx!Transmit \/ Tx!Suspend \/ Tx!Interrupt \/ UNCHANGED Tx!vars
  BY <1>2 DEF Tx!Transmit, Tx!Suspend, Tx!Interrupt, Tx!vars, Tx!dma, Tx!sender, Numbered
<1> QED  BY <1>1, <1>2 DEF Tx!Next

\* The steps of the sender keep the order.
LEMMA OutputOrder ==
  ASSUME Tx!ConstantsOK, \A t, u \in Senders : t = u, TxInv, Numbered, Ring, Ordered,
         NEW t \in Senders, Tx!Output(t)
  PROVE  Ring' /\ Ordered'
<1> USE DEF Tx!Goto, Tx!Return
<1>0. /\ TxTyped /\ Filling(t) /\ made \in Nat /\ txDesc \in Tx!Slots
      /\ txPc[t] # "idle" => frame[t] \in 1 .. made
  BY DEF TxInv, TxTyped, Tx!Frames, Numbered
<1>m. /\ Mark = IF txPc[t] = "advance" THEN Tx!After(txDesc) ELSE txDesc
      /\ Mark' = IF txPc'[t] = "advance" THEN Tx!After(txDesc') ELSE txDesc'
  BY DEF Mark, Tx!After
<1>1. CASE Tx!Begin(t)
  <2>1. /\ own' = own /\ wire' = wire /\ txDmaAt' = txDmaAt /\ buf' = buf /\ txDesc' = txDesc
        /\ txPc[t] = "idle" /\ txPc'[t] = "copy" /\ made' = made + 1 /\ frame'[t] = made + 1
    BY <1>0, <1>1 DEF Tx!Begin, TxTyped, Tx!dma
  <2>2. \A f \in Tx!Frames : Older(f) => Older(f)'  BY <1>0, <2>1 DEF Older, Tx!Frames
  <2> QED  BY <1>m, <2>1, <2>2, OrderStays
<1>2. CASE Tx!Copy(t)
  <2>1. /\ own' = own /\ wire' = wire /\ txDmaAt' = txDmaAt /\ txDesc' = txDesc
        /\ txPc[t] = "copy" /\ txPc'[t] \in {"copy", "lock"} /\ made' = made /\ frame' = frame
        /\ ~own[txDesc] /\ at[t] = txDesc
    BY <1>0, <1>2 DEF Tx!Copy, TxTyped, Filling, Tx!dma
  <2>2. \A i \in Tx!Slots : own[i] => buf'[i] = buf[i]  BY <1>0, <1>2, <2>1 DEF Tx!Copy, TxTyped
  <2>3. \A f \in Tx!Frames : Older(f) => Older(f)'  BY <2>1 DEF Older
  <2> QED  BY <1>m, <2>1, <2>2, <2>3, OrderStays
<1>3. CASE Tx!CopyRefused(t) \/ Tx!Lock(t) \/ Tx!Check(t) \/ Tx!Finish(t)
  <2>1. /\ own' = own /\ wire' = wire /\ txDmaAt' = txDmaAt /\ txDesc' = txDesc /\ buf' = buf
        /\ made' = made /\ frame' = frame
    BY <1>3 DEF Tx!CopyRefused, Tx!Lock, Tx!Check, Tx!Finish, Tx!dma
  <2>2. /\ txPc[t] \in {"copy", "lock", "check", "finish"}
        /\ txPc'[t] \in {"idle", "check", "give"}
        /\ txPc[t] = "finish" => txPc'[t] = "idle"
    BY <1>0, <1>3 DEF Tx!CopyRefused, Tx!Lock, Tx!Check, Tx!Finish, TxTyped
  <2>3. \A f \in Tx!Frames : Older(f) => Older(f)'  BY <2>1, <2>2 DEF Older
  <2> QED  BY <1>m, <2>1, <2>2, <2>3, OrderStays
<1>4. CASE Tx!Advance(t)
  <2>1. /\ own' = own /\ wire' = wire /\ txDmaAt' = txDmaAt /\ buf' = buf
        /\ txDesc' = Tx!After(txDesc)
        /\ txPc[t] = "advance" /\ txPc'[t] = "finish" /\ made' = made /\ frame' = frame
    BY <1>0, <1>4 DEF Tx!Advance, TxTyped, Tx!dma
  <2>2. \A f \in Tx!Frames : Older(f) => Older(f)'  BY <2>1 DEF Older
  <2> QED  BY <1>m, <2>1, <2>2, OrderStays
<1>5. CASE Tx!Give(t)
  <2>1. /\ own' = [own EXCEPT ![txDesc] = TRUE] /\ wire' = wire /\ txDmaAt' = txDmaAt /\ buf' = buf
        /\ txDesc' = txDesc /\ txPc[t] = "give" /\ txPc'[t] = "advance" /\ made' = made
        /\ frame' = frame /\ ~own[txDesc] /\ buf[txDesc] = Tx!Whole(frame[t])
        /\ frame[t] \in Tx!Frames /\ frame[t] <= made
    BY <1>0, <1>5 DEF Tx!Give, TxTyped, Filling
  <2>2. /\ \A i : Pos(i)' = Pos(i)
        /\ \A i \in Tx!Slots : own'[i] <=> own[i] \/ i = txDesc
    BY <1>0, <2>1 DEF Pos, TxTyped
  <2>3. /\ Mark = txDesc /\ Mark' = Tx!After(txDesc) /\ Mark' \in Tx!Slots
        /\ \A i \in Tx!Slots : own[i] <=> Pos(i) < Pos(txDesc)
    BY <1>0, <1>m, <2>1, AfterIn DEF Ring
  <2>n. /\ ETH_TXBUFNB \in Nat \ {0}
        /\ \A i \in Tx!Slots : Pos(i) \in 0 .. ETH_TXBUFNB - 1
    BY <1>0 DEF Tx!ConstantsOK, TxTyped, Tx!Slots, Pos
  <2>4. Ring'
    <3>1. CASE Pos(txDesc) = ETH_TXBUFNB - 1
      <4>1. Mark' = txDmaAt'  BY <1>0, <2>1, <2>3, <3>1, PosAfter
      <4>2. \A i \in Tx!Slots : own'[i]
        BY <1>0, <2>2, <2>3, <2>n, <3>1, PosTells
      <4> QED  BY <2>3, <4>1, <4>2 DEF Ring, Tx!Slots
    <3>2. CASE Pos(txDesc) # ETH_TXBUFNB - 1
      <4>1. Pos(Mark)' = Pos(txDesc) + 1
        BY <1>0, <2>2, <2>3, <3>2, PosAfter
      <4>2. \A i \in Tx!Slots : own'[i] <=> Pos(i)' < Pos(Mark)'
        BY <1>0, <2>2, <2>3, <2>n, <4>1, PosTells
      <4>3. ~own'[Mark']  BY <2>3, <2>n, <2>2, <4>1, <4>2
      <4> QED  BY <4>2, <4>3 DEF Ring, Tx!Slots
    <3> QED  BY <3>1, <3>2
  <2>5. \A f \in Tx!Frames : Older(f) => Older(f)' /\ f < frame[t]  BY <2>1 DEF Older
  <2>6. /\ \A b : OldFrame(b) => OldFrame(b)' /\ b[1] < frame[t]
        /\ OldFrame(buf[txDesc])' /\ buf[txDesc][1] = frame[t]
    <3>1. buf[txDesc][1] = frame[t]  BY <2>1 DEF Tx!Whole, Tx!ConstantsOK
    <3>2. Older(frame[t])'  BY <2>1 DEF Older
    <3> QED  BY <2>1, <2>5, <3>1, <3>2 DEF OldFrame, Tx!Whole, Tx!Frames
  <2>7. (\A i \in Tx!Slots : own[i] => OldFrame(buf[i]))'
    BY <2>1, <2>2, <2>6 DEF Ordered, Tx!Slots
  <2>8. (\A i \in DOMAIN wire : OldFrame(wire[i]))'  BY <2>1, <2>6 DEF Ordered
  <2>9. (\A i \in DOMAIN wire, j \in Tx!Slots : own[j] => wire[i][1] < buf[j][1])'
    BY <2>1, <2>2, <2>6 DEF Ordered, Tx!Slots
  <2>10. (\A i, j \in Tx!Slots : own[i] /\ own[j] /\ Pos(i) < Pos(j) => buf[i][1] < buf[j][1])'
    BY <1>0, <2>1, <2>2, <2>3, <2>6, <2>n DEF Ordered, Tx!Slots
  <2> QED  BY <2>1, <2>4, <2>7, <2>8, <2>9, <2>10 DEF Ordered
<1> QED  BY <1>1, <1>2, <1>3, <1>4, <1>5 DEF Tx!Output

\* Every step keeps the order.
LEMMA OrderStep ==
  ASSUME Tx!ConstantsOK, \A t, u \in Senders : t = u, TxInv, Numbered, Ring, Ordered,
         [Tx!Next]_(Tx!vars)
  PROVE  Ring' /\ Ordered'
<1>1. CASE Tx!Transmit  BY <1>1, TransmitOrder
<1>2. CASE Tx!Suspend \/ Tx!Interrupt \/ UNCHANGED Tx!vars
  <2>1. /\ own' = own /\ wire' = wire /\ buf' = buf /\ txDesc' = txDesc /\ txDmaAt' = txDmaAt
        /\ txPc' = txPc /\ frame' = frame /\ made' = made
    BY <1>2 DEF Tx!Suspend, Tx!Interrupt, Tx!vars, Tx!dma, Tx!sender
  <2>2. Mark' = Mark /\ \A f : Older(f) => Older(f)'
    BY <2>1 DEF Mark, Tx!After, Older
  <2> QED  BY <2>1, <2>2, OrderStays
<1>3. CASE \E t \in Senders : Tx!Output(t)  BY <1>3, OutputOrder
<1> QED  BY <1>1, <1>2, <1>3 DEF Tx!Next

\* The first buffers are not the DMA's, and nothing is on the wire.
LEMMA OrderInit == ASSUME Tx!ConstantsOK, Tx!Init PROVE Numbered /\ Ring /\ Ordered
<1>1. Numbered  BY DEF Tx!Init, Numbered
<1>2. Ordered  BY DEF Tx!ConstantsOK, Tx!Init, Ordered, Tx!Slots
<1>3. Ring  BY DEF Tx!ConstantsOK, Tx!Init, Ring, Mark, Pos, Tx!Slots
<1> QED  BY <1>1, <1>2, <1>3

\* When one thread sends, the wire carries the frames of lwIP, whole, in their order and
\* once each.
THEOREM OneSenderInOrder ==
  ASSUME Tx!ConstantsOK, \A t, u \in Senders : t = u
  PROVE  Tx!Spec => []Tx!WireInOrder
<1>1. Tx!Init => TxInv
  BY DEF Tx!ConstantsOK, Tx!Init, TxInv, TxTyped, Reported, Filling, LockOwn, Tx!Slots,
         Tx!Buffer, Tx!Whole, Labels, Tx!Frames
<1>2. TxInv /\ Numbered /\ Ordered => Tx!WireInOrder
  BY DEF TxInv, Numbered, Ordered, OldFrame, Tx!WireInOrder, Tx!TypeOK, TxTyped, Labels
<1> QED  BY <1>1, <1>2, TxStep, NumberedStep, OrderStep, OrderInit, PTL DEF Tx!Spec

-----------------------------------------------------------------------------
(* Both directions together                                                *)

\* What the receive path sees of the senders are those inside HAL_ETH_TransmitFrame.
Seen == sending = Inside /\ txPc \in [Senders -> Labels]

\* A step that neither enters nor leaves is nothing to the receive path.
LEMMA Stutter ==
  ASSUME Seen, Unseen, locked' = locked, Inside' = Inside
  PROVE  UNCHANGED vars
BY DEF Seen, Unseen, vars, dma, reader

\* The places of the senders stay places.
LEMMA Places ==
  ASSUME Seen, Unseen, NEW t \in Senders, NEW l \in Labels,
         txPc' = [txPc EXCEPT ![t] = l] \/ txPc' = txPc
  PROVE  Seen'
<1>1. txPc' \in [Senders -> Labels]  BY DEF Seen
<1> QED  BY <1>1 DEF Seen, Unseen

\* A step of a sender is an entry, an exit or nothing to the receive path.
LEMMA OutputSeen ==
  ASSUME Seen, ReaderBlocked, NEW t \in Senders, Tx!Output(t), Unseen
  PROVE  Seen' /\ [Next]_vars
<1> USE DEF Tx!Goto, Tx!Return, Labels
<1>0. sending = Inside /\ sending' = Inside'
  BY DEF Seen, Unseen
<1>1. CASE Tx!Begin(t)
  <2>1. txPc' = [txPc EXCEPT ![t] = "copy"] /\ txPc[t] = "idle" /\ locked' = locked
    BY <1>1 DEF Tx!Begin
  <2>2. Inside' = Inside  BY <2>1 DEF Seen, Inside
  <2> QED  BY <2>1, <2>2, Stutter, Places
<1>2. CASE Tx!Copy(t)
  <2>1. /\ txPc' = [txPc EXCEPT ![t] = "lock"] \/ txPc' = txPc
        /\ txPc[t] = "copy" /\ locked' = locked
    BY <1>2 DEF Tx!Copy
  <2>2. Inside' = Inside  BY <2>1 DEF Seen, Inside
  <2> QED  BY <2>1, <2>2, Stutter, Places
<1>3. CASE Tx!CopyRefused(t)
  <2>1. txPc' = [txPc EXCEPT ![t] = "idle"] /\ txPc[t] = "copy" /\ locked' = locked
    BY <1>3 DEF Tx!CopyRefused
  <2>2. Inside' = Inside  BY <2>1 DEF Seen, Inside
  <2> QED  BY <2>1, <2>2, Stutter, Places
<1>4. CASE Tx!Lock(t)
  <2>1. CASE locked
    <3>1. txPc' = [txPc EXCEPT ![t] = "idle"] /\ txPc[t] = "lock" /\ locked' = locked
      BY <1>4, <2>1 DEF Tx!Lock
    <3>2. Inside' = Inside  BY <3>1 DEF Seen, Inside
    <3> QED  BY <3>1, <3>2, Stutter, Places
  <2>2. CASE ~locked
    <3>1. txPc' = [txPc EXCEPT ![t] = "check"] /\ txPc[t] = "lock" /\ locked' = TRUE
      BY <1>4, <2>2 DEF Tx!Lock
    <3>2. Inside' = Inside \union {t} /\ t \notin Inside  BY <3>1 DEF Seen, Inside
    <3>3. TransmitEnter(t)  BY <1>0, <2>2, <3>1, <3>2 DEF Unseen, TransmitEnter
    <3> QED  BY <3>1, <3>3, Places DEF Next
  <2> QED  BY <2>1, <2>2
<1>5. CASE Tx!Check(t)
  <2>1. CASE own[txDesc]
    <3>1. txPc' = [txPc EXCEPT ![t] = "idle"] /\ txPc[t] = "check" /\ locked' = FALSE
      BY <1>5, <2>1 DEF Tx!Check
    <3>2. Inside' = Inside \ {t} /\ t \in Inside  BY <3>1 DEF Seen, Inside
    <3>3. TransmitLeave(t)  BY <1>0, <3>1, <3>2 DEF Unseen, TransmitLeave
    <3> QED  BY <3>1, <3>3, Places DEF Next
  <2>2. CASE ~own[txDesc]
    <3>1. txPc' = [txPc EXCEPT ![t] = "give"] /\ txPc[t] = "check" /\ locked' = locked
      BY <1>5, <2>2 DEF Tx!Check
    <3>2. Inside' = Inside  BY <3>1 DEF Seen, Inside
    <3> QED  BY <3>1, <3>2, Stutter, Places
  <2> QED  BY <2>1, <2>2
<1>6. CASE Tx!Give(t)
  <2>1. txPc' = [txPc EXCEPT ![t] = "advance"] /\ txPc[t] = "give" /\ locked' = locked
    BY <1>6 DEF Tx!Give
  <2>2. Inside' = Inside  BY <2>1 DEF Seen, Inside
  <2> QED  BY <2>1, <2>2, Stutter, Places
<1>7. CASE Tx!Advance(t)
  <2>1. txPc' = [txPc EXCEPT ![t] = "finish"] /\ txPc[t] = "advance" /\ locked' = locked
    BY <1>7 DEF Tx!Advance
  <2>2. Inside' = Inside  BY <2>1 DEF Seen, Inside
  <2> QED  BY <2>1, <2>2, Stutter, Places
<1>8. CASE Tx!Finish(t)
  <2>1. txPc' = [txPc EXCEPT ![t] = "idle"] /\ txPc[t] = "finish" /\ locked' = FALSE
    BY <1>8 DEF Tx!Finish
  <2>2. Inside' = Inside \ {t} /\ t \in Inside  BY <2>1 DEF Seen, Inside
  <2>3. TransmitLeave(t)  BY <1>0, <2>1, <2>2 DEF Unseen, TransmitLeave
  <2> QED  BY <2>1, <2>3, Places DEF Next
<1> QED  BY <1>1, <1>2, <1>3, <1>4, <1>5, <1>6, <1>7, <1>8 DEF Tx!Output

\* Every step of the driver is one of the receive path, or nothing to it.
LEMMA StackStep == Seen /\ [StackNext]_stackVars => Seen' /\ [Next]_vars
<1> SUFFICES ASSUME Seen, [StackNext]_stackVars PROVE Seen' /\ [Next]_vars
  OBVIOUS
<1>1. CASE Receive
  <2>1. Next  BY <1>1 DEF Receive, Next
  <2>2. sending' = sending /\ txPc' = txPc
    BY <1>1 DEF Receive, txVars, Arrive, Dma, Store, StoreFirst, Suspend, Write, IrqGive,
                IrqClear, Reader, Wait, GetFrame, GetNone, Look, Copy, Release, Resume, Input
  <2>3. Seen'  BY <2>2 DEF Seen, Inside
  <2> QED  BY <2>1, <2>3
<1>2. CASE (Tx!Transmit \/ Tx!Suspend) /\ Unseen
  <2>1. txPc' = txPc /\ locked' = locked
    BY <1>2 DEF Tx!Transmit, Tx!Suspend, Tx!sender
  <2>2. Inside' = Inside  BY <2>1 DEF Inside
  <2> QED  BY <1>2, <2>1, <2>2 DEF Seen, Unseen, vars
<1>3. CASE ReaderBlocked /\ (\E t \in Senders : Tx!Output(t)) /\ Unseen
  BY <1>3, OutputSeen
<1>4. CASE UNCHANGED stackVars
  BY <1>4 DEF stackVars, txVars, Seen, Inside, vars
<1> QED  BY <1>1, <1>2, <1>3, <1>4 DEF StackNext, Transmit

\* Both directions together behave as the receive path with senders that do nothing but
\* take the lock and give it back.
THEOREM ReceiveRefined == StackSpec => ImplementsReceive
<1>1. StackInit => Init /\ Seen
  BY DEF StackInit, Init, Tx!Init, Seen, Inside, Labels
<1> QED  BY <1>1, StackStep, PTL DEF StackSpec, ImplementsReceive, Spec

\* In the whole driver too, ethernetif_input never meets the lock of a sender.
THEOREM StackNeverBusy == StackSpec => []NeverBusy
BY ReceiveRefined, LoopNeverBusy, PTL DEF ImplementsReceive

\* ... and what ethernetif_input copies, hears of and hands on is as in EthRx.
THEOREM StackReceives == StackSpec => []WholeFrame /\ []NoLostWakeup /\ InOrder
BY ReceiveRefined, CopyIsWhole, WakeupKept, HandledInOrder, PTL DEF ImplementsReceive

LockTyped == locked \in BOOLEAN

\* The lock is free or taken.
LEMMA LockStays == LockTyped /\ [StackNext]_stackVars => LockTyped'
<1>1. CASE Receive
  BY <1>1 DEF LockTyped, Receive, Arrive, Dma, Store, StoreFirst, Suspend, Write, IrqGive,
              IrqClear, Reader, Wait, GetFrame, GetNone, Look, Copy, Release, Resume, Input
<1>2. CASE Transmit
  BY <1>2 DEF LockTyped, Transmit, Tx!Transmit, Tx!Suspend, Tx!Output, Tx!Begin, Tx!Copy,
              Tx!CopyRefused, Tx!Lock, Tx!Check, Tx!Give, Tx!Advance, Tx!Finish
<1>3. CASE UNCHANGED stackVars  BY <1>3 DEF LockTyped, stackVars, vars
<1> QED  BY <1>1, <1>2, <1>3 DEF StackNext

\* To the transmit path the receive path is an interrupt that may unlock the handle.
LEMMA ReceiveUnseen == ASSUME LockTyped, Receive PROVE [Tx!Next]_(Tx!vars)
<1>1. CASE IrqClear
  <2>1. locked' = FALSE /\ UNCHANGED txVars  BY <1>1 DEF Receive, IrqClear
  <2>2. CASE locked
    <3>1. Tx!Interrupt  BY <2>1, <2>2 DEF txVars, Tx!Interrupt, Tx!dma, Tx!sender
    <3> QED  BY <3>1 DEF Tx!Next
  <2>3. CASE ~locked
    <3>1. locked' = locked  BY <2>1, <2>3 DEF LockTyped
    <3>2. UNCHANGED Tx!vars  BY <2>1, <3>1 DEF txVars, Tx!vars, Tx!dma, Tx!sender
    <3> QED  BY <3>2
  <2> QED  BY <2>2, <2>3
<1>2. CASE Arrive \/ Dma \/ IrqGive \/ Reader
  <2>1. locked' = locked /\ UNCHANGED txVars
    BY <1>2 DEF Receive, Arrive, Dma, Store, StoreFirst, Suspend, Write, IrqGive, Reader,
                Wait, GetFrame, GetNone, Look, Copy, Release, Resume, Input
  <2> QED  BY <2>1 DEF txVars, Tx!vars, Tx!dma, Tx!sender
<1> QED  BY <1>1, <1>2 DEF Receive

\* ... and both directions together behave as the transmit path with an interrupt that
\* unlocks the handle at any time.
THEOREM TransmitRefined == StackSpec => Tx!Spec
<1>1. StackInit => Tx!Init /\ LockTyped  BY DEF StackInit, Init, LockTyped
<1>2. Transmit => Tx!Next  BY DEF Transmit, Tx!Next
<1>3. UNCHANGED stackVars => UNCHANGED Tx!vars
  BY DEF stackVars, vars, txVars, Tx!vars, Tx!dma, Tx!sender
<1>4. LockTyped /\ [StackNext]_stackVars => [Tx!Next]_(Tx!vars)
  BY <1>2, <1>3, ReceiveUnseen DEF StackNext
<1> QED  BY <1>1, <1>4, LockStays, PTL DEF StackSpec, Tx!Spec

\* In the whole driver too, when one thread sends, the wire carries the frames of lwIP,
\* whole, in their order and once each, whatever the receive path and its interrupt do.
THEOREM StackInOrder ==
  ASSUME \A t, u \in Senders : t = u
  PROVE  StackSpec => []WireInOrder
BY TransmitRefined, OneSenderInOrder, TxAssumption, PTL DEF WireInOrder
=============================================================================
