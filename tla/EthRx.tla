------------------------------- MODULE EthRx -------------------------------
(***************************************************************************)
(* How a frame gets from the wire to lwIP: the receive ring shared by the  *)
(* Ethernet DMA and ethernetif_input, the interrupt that wakes that thread,*)
(* and the lock of the HAL handle it shares with the transmit path         *)
(* (src/app/net/ethernetif.c, src/drivers/.../stm32f7xx_hal_eth.c).        *)
(* ethernetif_input has the highest priority of all threads: another one   *)
(* runs only while it waits for the semaphore.                             *)
(***************************************************************************)
EXTENDS Integers

CONSTANTS
  ETH_RXBUFNB,   \* descriptors of the receive ring
  Senders,       \* threads that call low_level_output
  MaxFrames,     \* bound: frames that arrive
  MaxAllocFail   \* bound: how often pbuf_alloc fails

ASSUME ConstantsAssumption ==
  /\ ETH_RXBUFNB \in Nat \ {0, 1}
  /\ {MaxFrames, MaxAllocFail} \subseteq Nat

VARIABLES
  desc,       \* DMARxDscrTab: who owns each descriptor, and what is in it
  dmaAt,      \* the descriptor the DMA writes next
  mid,        \* the DMA has written the first part of a frame only
  fifo,       \* the frame in the receive FIFO, 0 if none
  suspended,  \* the DMA found no descriptor (ETH_DMASR_RBUS)
  flagR,      \* ETH_DMASR_RS: a frame is complete, an interrupt is due
  irq,        \* where HAL_ETH_IRQHandler is
  sem,        \* s_xSemaphore
  pc,         \* where ethernetif_input is
  rxDesc,     \* heth->RxDesc
  info,       \* heth->RxFrameInfos
  hand,       \* the frame in the pbuf, 0 if there is none
  locked,     \* heth->Lock
  sending,    \* threads inside HAL_ETH_TransmitFrame
  arrived,    \* frames that have arrived
  handled,    \* history: the last frame that lwIP got, or that was dropped
  failures,   \* how often pbuf_alloc has failed
  gaveUp      \* history: it has failed, and no frame was completed since

dma == <<desc, dmaAt, mid, fifo, suspended, arrived>>
reader == <<pc, rxDesc, info, hand, handled, failures>>
vars == <<dma, flagR, irq, sem, reader, locked, sending, gaveUp>>

Slots == 0 .. ETH_RXBUFNB - 1
After(i) == (i + 1) % ETH_RXBUFNB

\* ETH_DMARXDESC_OWN, _FS, _LS and the frame a part of which is in the buffer.
Desc == [own : BOOLEAN, fs : BOOLEAN, ls : BOOLEAN, frame : 0 .. MaxFrames]

TypeOK ==
  /\ desc \in [Slots -> Desc]
  /\ {dmaAt, rxDesc} \subseteq Slots
  /\ {mid, suspended, flagR, locked, gaveUp} \subseteq BOOLEAN
  /\ {fifo, hand, arrived, handled} \subseteq 0 .. MaxFrames
  /\ irq \in {"idle", "clear"}
  /\ sem \in {0, 1}
  /\ pc \in {"wait", "get", "copy", "release", "resume", "input"}
  /\ info \in [segCount : 0 .. ETH_RXBUFNB, first : Slots]
  /\ sending \subseteq Senders
  /\ failures \in 0 .. MaxAllocFail

\* low_level_init: the ring belongs to the DMA; osSemaphoreCreate gives the
\* semaphore once.
Init ==
  /\ desc = [i \in Slots |-> [own |-> TRUE, fs |-> FALSE, ls |-> FALSE, frame |-> 0]]
  /\ dmaAt = 0 /\ rxDesc = 0
  /\ mid = FALSE /\ suspended = FALSE /\ flagR = FALSE /\ locked = FALSE
  /\ fifo = 0 /\ hand = 0 /\ arrived = 0 /\ handled = 0 /\ failures = 0
  /\ irq = "idle" /\ sem = 1 /\ pc = "wait"
  /\ info = [segCount |-> 0, first |-> 0]
  /\ sending = {} /\ gaveUp = FALSE

-----------------------------------------------------------------------------
(* The Ethernet MAC and its DMA                                            *)

\* A frame comes in; it is lost when the FIFO is not empty. A frame makes a
\* suspended DMA look at its descriptor again.
Arrive ==
  /\ arrived < MaxFrames
  /\ arrived' = arrived + 1
  /\ fifo' = IF fifo = 0 THEN arrived + 1 ELSE fifo
  /\ suspended' = FALSE
  /\ UNCHANGED <<desc, dmaAt, mid, flagR, irq, sem, reader, locked, sending, gaveUp>>

Write(fs, ls) ==
  /\ desc' = [desc EXCEPT ![dmaAt] = [own |-> FALSE, fs |-> fs, ls |-> ls, frame |-> fifo]]
  /\ dmaAt' = After(dmaAt)
  /\ mid' = ~ls
  /\ fifo' = IF ls THEN 0 ELSE fifo
  /\ flagR' = (flagR \/ ls)
  /\ gaveUp' = (gaveUp /\ ~ls)
  /\ UNCHANGED <<suspended, arrived, irq, sem, reader, locked, sending>>

\* A frame that fits, or the end of one that does not. A frame that needs a
\* second buffer is cut off when the DMA does not own one.
Store == fifo # 0 /\ ~suspended /\ desc[dmaAt].own /\ Write(~mid, TRUE)

\* The first part of a frame longer than ETH_RX_BUF_SIZE.
StoreFirst ==
  /\ fifo # 0 /\ ~suspended /\ ~mid
  /\ desc[dmaAt].own /\ desc[After(dmaAt)].own
  /\ Write(TRUE, FALSE)

\* The next descriptor belongs to the CPU.
Suspend ==
  /\ fifo # 0 /\ ~suspended /\ ~desc[dmaAt].own
  /\ suspended' = TRUE
  /\ UNCHANGED <<desc, dmaAt, mid, fifo, arrived, flagR, irq, sem, reader, locked,
                 sending, gaveUp>>

Dma == Store \/ StoreFirst \/ Suspend

-----------------------------------------------------------------------------
(* HAL_ETH_IRQHandler                                                      *)

\* HAL_ETH_RxCpltCallback
IrqGive ==
  /\ irq = "idle" /\ flagR
  /\ irq' = "clear"
  /\ sem' = 1
  /\ UNCHANGED <<dma, flagR, reader, locked, sending, gaveUp>>

\* Mutant: the handle stays locked.
IrqClearKeepsLock ==
  /\ irq = "clear"
  /\ irq' = "idle"
  /\ flagR' = FALSE
  /\ UNCHANGED <<dma, sem, reader, locked, sending, gaveUp>>

\* Clears the flag, and unlocks the handle, whoever has locked it.
IrqClear ==
  /\ irq = "clear"
  /\ irq' = "idle"
  /\ flagR' = FALSE
  /\ locked' = FALSE
  /\ UNCHANGED <<dma, sem, reader, sending, gaveUp>>

-----------------------------------------------------------------------------
(* ethernetif_input                                                        *)

\* osSemaphoreWait
Wait ==
  /\ pc = "wait" /\ sem = 1 /\ irq = "idle"
  /\ sem' = 0
  /\ pc' = "get"
  /\ UNCHANGED <<dma, flagR, irq, rxDesc, info, hand, handled, failures, locked,
                 sending, gaveUp>>

\* HAL_ETH_GetReceivedFrame_IT looks at the descriptors from RxDesc on, up to the
\* end of a frame or to the first one of the DMA. At(j): the j-th of them.
At(j) == desc[(rxDesc + j) % ETH_RXBUFNB]

Scanned(k) == /\ \A j \in 0 .. k - 1 : ~At(j).own
              /\ \A j \in 0 .. k - 2 : ~At(j).ls

\* SegCount and FSRxDesc after k descriptors.
Counted(k) ==
  LET firsts == {j \in 0 .. k - 1 : At(j).fs /\ ~At(j).ls}
      total == info.segCount + k
  IN IF firsts # {}
     THEN LET j == CHOOSE j \in firsts : \A o \in firsts : o <= j
          IN [segCount |-> k - j, first |-> (rxDesc + j) % ETH_RXBUFNB]
     ELSE [segCount |-> total, first |-> IF total = 1 THEN rxDesc ELSE info.first]

Look(k) ==
  /\ info' = IF k = 0 THEN info ELSE Counted(k)
  /\ rxDesc' = (rxDesc + k) % ETH_RXBUFNB
  /\ UNCHANGED <<dma, flagR, irq, sem, hand, handled, failures, locked, sending, gaveUp>>

\* Mutant: a frame that is not complete counts as received.
GetFrameParts ==
  /\ pc = "get" /\ irq = "idle" /\ ~locked
  /\ \E k \in 1 .. ETH_RXBUFNB : Scanned(k) /\ Look(k)
  /\ pc' = "copy"

GetFrame ==
  /\ pc = "get" /\ irq = "idle" /\ ~locked
  /\ \E k \in 1 .. ETH_RXBUFNB : Scanned(k) /\ At(k - 1).ls /\ Look(k)
  /\ pc' = "copy"

\* No frame is complete: the drain loop ends. What is there of one has been counted.
\* HAL_BUSY, for a handle that is locked, looks just the same.
GetNone ==
  /\ pc = "get" /\ irq = "idle"
  /\ \E k \in 0 .. ETH_RXBUFNB :
       /\ IF locked THEN k = 0
          ELSE /\ Scanned(k) /\ (k = ETH_RXBUFNB \/ At(k).own)
               /\ k > 0 => ~At(k - 1).ls
       /\ Look(k)
  /\ pc' = "wait"

\* low_level_input: a pbuf is allocated, the parts are copied ...
Copy ==
  /\ pc = "copy" /\ irq = "idle"
  /\ pc' = "release"
  /\ \/ hand' = desc[info.first].frame /\ UNCHANGED <<failures, gaveUp>>
     \/ /\ failures < MaxAllocFail
        /\ failures' = failures + 1
        /\ hand' = 0 /\ gaveUp' = TRUE
  /\ handled' = desc[info.first].frame
  /\ UNCHANGED <<dma, flagR, irq, sem, rxDesc, info, locked, sending>>

\* Mutant: only the first descriptor of the frame goes back.
ReleaseFirst ==
  /\ pc = "release" /\ irq = "idle"
  /\ desc' = [desc EXCEPT ![info.first].own = TRUE]
  /\ info' = [info EXCEPT !.segCount = 0]
  /\ pc' = "resume"
  /\ UNCHANGED <<dmaAt, mid, fifo, suspended, arrived, flagR, irq, sem, rxDesc, hand,
                 handled, failures, locked, sending, gaveUp>>

\* ... the descriptors go back to the DMA ...
Release ==
  /\ pc = "release" /\ irq = "idle"
  /\ desc' = [i \in Slots |->
       IF \E j \in 0 .. info.segCount - 1 : i = (info.first + j) % ETH_RXBUFNB
       THEN [desc[i] EXCEPT !.own = TRUE] ELSE desc[i]]
  /\ info' = [info EXCEPT !.segCount = 0]
  /\ pc' = "resume"
  /\ UNCHANGED <<dmaAt, mid, fifo, suspended, arrived, flagR, irq, sem, rxDesc, hand,
                 handled, failures, locked, sending, gaveUp>>

\* Mutant: the DMA stays suspended.
ResumeNot ==
  /\ pc = "resume" /\ irq = "idle"
  /\ pc' = IF hand = 0 THEN "wait" ELSE "input"
  /\ UNCHANGED <<dma, flagR, irq, sem, rxDesc, info, hand, handled, failures,
                 locked, sending, gaveUp>>

\* ... which is told to go on. Without a pbuf the drain loop ends.
Resume ==
  /\ pc = "resume" /\ irq = "idle"
  /\ suspended' = FALSE
  /\ pc' = IF hand = 0 THEN "wait" ELSE "input"
  /\ UNCHANGED <<desc, dmaAt, mid, fifo, arrived, flagR, irq, sem, rxDesc, info, hand,
                 handled, failures, locked, sending, gaveUp>>

\* Mutant: one frame for each time the semaphore is given.
InputOnce ==
  /\ pc = "input" /\ irq = "idle"
  /\ hand' = 0
  /\ pc' = "wait"
  /\ UNCHANGED <<dma, flagR, irq, sem, rxDesc, info, handled, failures, locked,
                 sending, gaveUp>>

\* netif->input: lwIP takes the frame or, its mailbox full, does not.
Input ==
  /\ pc = "input" /\ irq = "idle"
  /\ hand' = 0
  /\ pc' = "get"
  /\ UNCHANGED <<dma, flagR, irq, sem, rxDesc, info, handled, failures, locked,
                 sending, gaveUp>>

Reader == \/ Wait \/ GetFrame \/ GetNone \/ Copy \/ Release \/ Resume \/ Input

-----------------------------------------------------------------------------
(* HAL_ETH_TransmitFrame, as far as the lock goes                          *)

ReaderBlocked == pc = "wait" /\ sem = 0 /\ irq = "idle"

TransmitEnter(t) ==
  /\ ReaderBlocked
  /\ t \notin sending /\ ~locked
  /\ sending' = sending \union {t}
  /\ locked' = TRUE
  /\ UNCHANGED <<dma, flagR, irq, sem, reader, gaveUp>>

TransmitLeave(t) ==
  /\ ReaderBlocked
  /\ t \in sending
  /\ sending' = sending \ {t}
  /\ locked' = FALSE
  /\ UNCHANGED <<dma, flagR, irq, sem, reader, gaveUp>>

Next ==
  \/ Arrive
  \/ Dma
  \/ IrqGive \/ IrqClear
  \/ Reader
  \/ \E t \in Senders : TransmitEnter(t) \/ TransmitLeave(t)

Spec == Init /\ [][Next]_vars

\* The hardware works, and so does the thread of the highest priority. Nothing is
\* assumed about the senders.
FairSpec == Spec /\ WF_vars(Dma) /\ WF_vars(IrqGive \/ IrqClear) /\ WF_vars(Reader)

-----------------------------------------------------------------------------
(* Properties                                                              *)

Complete == \E i \in Slots : ~desc[i].own /\ desc[i].ls

\* No wake-up is lost: while a complete frame is in the ring and the thread sleeps,
\* an interrupt is due. The exception is a drain that ended for want of a pbuf:
\* then the rest waits until the next frame.
NoLostWakeup ==
  Complete /\ ReaderBlocked => flagR \/ gaveUp

\* The drain loop never meets the lock of a sender that it has preempted: it would
\* take HAL_BUSY for an empty ring.
NeverBusy == pc = "get" /\ irq = "idle" => ~locked

\* The ring and what is read of it are well-formed, and what is copied are the parts of one
\* frame, from its first to its last.
WholeFrame ==
  /\ TypeOK
  /\ pc = "copy" =>
       LET part(j) == desc[(info.first + j) % ETH_RXBUFNB] IN
       /\ info.segCount > 0 /\ part(0).fs /\ part(info.segCount - 1).ls
       /\ \A j \in 0 .. info.segCount - 1 : ~part(j).own /\ part(j).frame = part(0).frame

\* Frames are handled in the order of arrival, each at most once.
InOrder == [][handled' >= handled /\ (pc = "copy" /\ pc' # pc => handled' > handled)]_vars

\* A frame that the MAC has taken is handled, however full the ring was, unless
\* memory has run out.
FramesMove ==
  \A f \in 1 .. MaxFrames : fifo = f ~> (handled >= f \/ gaveUp)
=============================================================================
