------------------------------- MODULE EthTx -------------------------------
(***************************************************************************)
(* How a frame gets from lwIP to the wire: low_level_output of             *)
(* src/app/net/ethernetif.c, HAL_ETH_TransmitFrame of                      *)
(* src/drivers/.../stm32f7xx_hal_eth.c and the transmit ring of the DMA.   *)
(* Any frame fits into one buffer (the MTU is 1500, ETH_TX_BUF_SIZE 1524). *)
(* A sender is named by its priority: it runs only while those of higher   *)
(* priority are idle.                                                      *)
(***************************************************************************)
EXTENDS Integers, Sequences

CONSTANTS
  ETH_TXBUFNB,  \* descriptors of the transmit ring
  Senders,      \* the threads that call low_level_output: their priorities
  Pbufs,        \* pbufs of a frame
  MaxFrames     \* bound: frames to send

\* What is assumed of the constants; Ethernet, which gives them values, states it.
ConstantsOK ==
  /\ {ETH_TXBUFNB, Pbufs} \subseteq Nat \ {0}
  /\ MaxFrames \in Nat
  /\ Senders \subseteq Nat

VARIABLES
  own,        \* ETH_DMATXDESC_OWN of each descriptor
  buf,        \* its buffer: of which frame each piece is
  dmaAt,      \* the descriptor the DMA sends next
  suspended,  \* the DMA found nothing to send (ETH_DMASR_TBUS)
  txDesc,     \* heth->TxDesc
  locked,     \* heth->Lock
  pc,         \* where each sender is
  at,         \* DmaTxDesc
  frame,      \* the frame it sends
  copied,     \* pbufs it has copied
  made,       \* frames that lwIP has passed down
  ok,         \* those for which low_level_output has returned ERR_OK
  wire        \* what the DMA has sent

dma == <<own, dmaAt, suspended, wire>>
sender == <<pc, at, frame, copied, made, ok>>
vars == <<dma, buf, txDesc, locked, sender>>

Slots == 0 .. ETH_TXBUFNB - 1
After(i) == (i + 1) % ETH_TXBUFNB
Frames == 1 .. MaxFrames
Buffer == [1 .. Pbufs -> {0} \union Frames]
Whole(f) == [i \in 1 .. Pbufs |-> f]

TypeOK ==
  /\ own \in [Slots -> BOOLEAN]
  /\ buf \in [Slots -> Buffer]
  /\ {dmaAt, txDesc} \subseteq Slots
  /\ {suspended, locked} \subseteq BOOLEAN
  /\ pc \in [Senders -> {"idle", "copy", "lock", "check", "give", "advance", "finish"}]
  /\ at \in [Senders -> Slots]
  /\ frame \in [Senders -> {0} \union Frames]
  /\ copied \in [Senders -> 0 .. Pbufs]
  /\ made \in {0} \union Frames
  /\ ok \subseteq 1 .. made
  /\ wire \in Seq(Buffer)

Init ==
  /\ own = [i \in Slots |-> FALSE] /\ buf = [i \in Slots |-> Whole(0)]
  /\ dmaAt = 0 /\ txDesc = 0 /\ suspended = FALSE /\ locked = FALSE
  /\ pc = [t \in Senders |-> "idle"] /\ at = [t \in Senders |-> 0]
  /\ frame = [t \in Senders |-> 0] /\ copied = [t \in Senders |-> 0]
  /\ made = 0 /\ ok = {} /\ wire = <<>>

-----------------------------------------------------------------------------
(* The DMA, and the interrupt of the receive path                          *)

Transmit ==
  /\ ~suspended /\ own[dmaAt]
  /\ own' = [own EXCEPT ![dmaAt] = FALSE]
  /\ wire' = Append(wire, buf[dmaAt])
  /\ dmaAt' = After(dmaAt)
  /\ UNCHANGED <<suspended, buf, txDesc, locked, sender>>

Suspend ==
  /\ ~suspended /\ ~own[dmaAt]
  /\ suspended' = TRUE
  /\ UNCHANGED <<own, dmaAt, wire, buf, txDesc, locked, sender>>

\* HAL_ETH_IRQHandler unlocks the handle, whoever has locked it.
Interrupt ==
  /\ locked
  /\ locked' = FALSE
  /\ UNCHANGED <<dma, buf, txDesc, sender>>

-----------------------------------------------------------------------------
(* low_level_output                                                        *)

Runs(t) == \A u \in Senders : u > t => pc[u] = "idle"

Goto(t, l) == pc' = [pc EXCEPT ![t] = l]

Return(t, errval) ==
  /\ Goto(t, "idle")
  /\ ok' = IF errval = "ERR_OK" THEN ok \union {frame[t]} ELSE ok

Begin(t) ==
  /\ pc[t] = "idle" /\ Runs(t) /\ made < MaxFrames
  /\ made' = made + 1
  /\ frame' = [frame EXCEPT ![t] = made + 1]
  /\ at' = [at EXCEPT ![t] = txDesc]
  /\ copied' = [copied EXCEPT ![t] = 0]
  /\ Goto(t, "copy")
  /\ UNCHANGED <<dma, buf, txDesc, locked, ok>>

\* Mutant: the descriptor is not looked at.
CopyAnyhow(t) ==
  /\ pc[t] = "copy" /\ Runs(t)
  /\ copied' = [copied EXCEPT ![t] = @ + 1]
  /\ buf' = [buf EXCEPT ![at[t]][copied'[t]] = frame[t]]
  /\ IF copied'[t] = Pbufs THEN Goto(t, "lock") ELSE UNCHANGED pc
  /\ UNCHANGED <<dma, txDesc, locked, at, frame, made, ok>>

\* One pbuf of the chain.
Copy(t) ==
  /\ pc[t] = "copy" /\ Runs(t) /\ ~own[at[t]]
  /\ copied' = [copied EXCEPT ![t] = @ + 1]
  /\ buf' = [buf EXCEPT ![at[t]][copied'[t]] = frame[t]]
  /\ IF copied'[t] = Pbufs THEN Goto(t, "lock") ELSE UNCHANGED pc
  /\ UNCHANGED <<dma, txDesc, locked, at, frame, made, ok>>

\* The DMA has not sent what is in the buffer: ERR_USE.
CopyRefused(t) ==
  /\ pc[t] = "copy" /\ Runs(t) /\ own[at[t]]
  /\ Return(t, "ERR_USE")
  /\ UNCHANGED <<dma, buf, txDesc, locked, at, frame, copied, made>>

\* HAL_ETH_TransmitFrame. Its result is not used.
Lock(t) ==
  /\ pc[t] = "lock" /\ Runs(t)
  /\ locked' = TRUE
  /\ IF locked THEN Return(t, "ERR_OK")  \* HAL_BUSY
               ELSE Goto(t, "check") /\ UNCHANGED ok
  /\ UNCHANGED <<dma, buf, txDesc, at, frame, copied, made>>

Check(t) ==
  /\ pc[t] = "check" /\ Runs(t)
  /\ IF own[txDesc] THEN locked' = FALSE /\ Return(t, "ERR_OK")  \* HAL_ERROR
                    ELSE Goto(t, "give") /\ UNCHANGED <<locked, ok>>
  /\ UNCHANGED <<dma, buf, txDesc, at, frame, copied, made>>

Give(t) ==
  /\ pc[t] = "give" /\ Runs(t)
  /\ own' = [own EXCEPT ![txDesc] = TRUE]
  /\ Goto(t, "advance")
  /\ UNCHANGED <<dmaAt, suspended, wire, buf, txDesc, locked, at, frame, copied, made, ok>>

Advance(t) ==
  /\ pc[t] = "advance" /\ Runs(t)
  /\ txDesc' = After(txDesc)
  /\ Goto(t, "finish")
  /\ UNCHANGED <<dma, buf, locked, at, frame, copied, made, ok>>

\* Mutant: no poll demand.
FinishSilently(t) ==
  /\ pc[t] = "finish" /\ Runs(t)
  /\ locked' = FALSE
  /\ Return(t, "ERR_OK")
  /\ UNCHANGED <<dma, buf, txDesc, at, frame, copied, made>>

\* Mutant: the handle stays locked.
FinishKeepsLock(t) ==
  /\ pc[t] = "finish" /\ Runs(t)
  /\ suspended' = FALSE
  /\ Return(t, "ERR_OK")
  /\ UNCHANGED <<own, dmaAt, wire, buf, txDesc, locked, at, frame, copied, made>>

\* A DMA that is suspended is told to go on.
Finish(t) ==
  /\ pc[t] = "finish" /\ Runs(t)
  /\ suspended' = FALSE
  /\ locked' = FALSE
  /\ Return(t, "ERR_OK")
  /\ UNCHANGED <<own, dmaAt, wire, buf, txDesc, at, frame, copied, made>>

Output(t) == \/ Begin(t) \/ Copy(t) \/ CopyRefused(t) \/ Lock(t) \/ Check(t)
             \/ Give(t) \/ Advance(t) \/ Finish(t)

Next == Transmit \/ Suspend \/ Interrupt \/ \E t \in Senders : Output(t)

Spec == Init /\ [][Next]_vars

\* The DMA works.
FairSpec == Spec /\ WF_vars(Transmit)

-----------------------------------------------------------------------------
(* Properties                                                              *)

Sent(f) == \E i \in DOMAIN wire : wire[i] = Whole(f)

\* ethernetif.c:272: "@return ERR_OK if the packet could be sent". A frame so
\* reported has been sent or belongs, as it is, to the DMA.
ReportsTrue ==
  \A f \in ok : Sent(f) \/ \E i \in Slots : own[i] /\ buf[i] = Whole(f)

\* The ring is well-formed, and the wire carries the frames of lwIP, whole, in their order
\* and once each.
WireInOrder ==
  /\ TypeOK
  /\ \A i \in DOMAIN wire : \E f \in Frames : wire[i] = Whole(f)
  /\ \A i, j \in DOMAIN wire : i < j => wire[i][1] < wire[j][1]

\* A frame that was reported as sent gets onto the wire.
GoesOut == []<>(\A f \in ok : Sent(f))
=============================================================================
