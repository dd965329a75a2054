------------------------------ MODULE Ethernet ------------------------------
(***************************************************************************)
(* Both directions of the Ethernet driver at work: the receive path of     *)
(* EthRx and the transmit path of EthTx share the lock of the HAL handle,  *)
(* the interrupt handler and the processor                                 *)
(* (src/app/net/ethernetif.c, src/drivers/.../stm32f7xx_hal_eth.c).        *)
(* What EthRx knows of a sender, that it is inside HAL_ETH_TransmitFrame,  *)
(* is here what EthTx makes of it.                                         *)
(***************************************************************************)
EXTENDS EthRx

CONSTANTS
  ETH_TXBUFNB,  \* descriptors of the transmit ring
  Pbufs,        \* pbufs of a frame that is sent
  MaxSent       \* bound: frames to send

\* The variables of EthTx; dmaAt and suspended are those of the transmit DMA.
VARIABLES own, buf, txDmaAt, txSuspended, txDesc, txPc, at, frame, copied, made, ok, wire

Tx == INSTANCE EthTx WITH
  MaxFrames <- MaxSent, dmaAt <- txDmaAt, suspended <- txSuspended, pc <- txPc

ASSUME TxAssumption == Tx!ConstantsOK

txVars == <<own, buf, txDmaAt, txSuspended, txDesc, txPc, at, frame, copied, made, ok, wire>>
stackVars == <<vars, txVars>>

StackInit == Init /\ Tx!Init

\* The receive path, the MAC and the interrupt, which interrupts a sender anywhere.
Receive == (Arrive \/ Dma \/ IrqGive \/ IrqClear \/ Reader) /\ UNCHANGED txVars

Inside == {t \in Senders : txPc[t] \in {"check", "give", "advance", "finish"}}

\* The receive path sees no more of a sender than the lock.
Unseen == sending' = Inside' /\ UNCHANGED <<dma, flagR, irq, sem, reader, gaveUp>>

\* The DMA sends at any time, a thread only while ethernetif_input waits.
Transmit ==
  /\ \/ Tx!Transmit \/ Tx!Suspend
     \/ ReaderBlocked /\ \E t \in Senders : Tx!Output(t)
  /\ Unseen

StackNext == Receive \/ Transmit

StackSpec == StackInit /\ [][StackNext]_stackVars

\* As in EthRx and EthTx, nothing is assumed about the senders.
FairStackSpec ==
  /\ StackSpec
  /\ WF_stackVars(Dma /\ UNCHANGED txVars)
  /\ WF_stackVars((IrqGive \/ IrqClear) /\ UNCHANGED txVars)
  /\ WF_stackVars(Reader /\ UNCHANGED txVars)
  /\ WF_stackVars(Tx!Transmit /\ Unseen)

-----------------------------------------------------------------------------
(* Properties                                                              *)

\* The two directions meet in the lock alone, and the transmit path treats it as the
\* receive path counts on: it takes the lock when it is free, and gives it back when it
\* leaves HAL_ETH_TransmitFrame.
ImplementsReceive == Spec

\* See EthTx: the order on the wire, and that a frame gets there that low_level_output has
\* reported as sent.
WireInOrder == Tx!WireInOrder
GoesOut == Tx!GoesOut
=============================================================================
