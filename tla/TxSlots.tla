------------------------------ MODULE TxSlots ------------------------------
(***************************************************************************)
(* What the asynchronous send path of ZZ9000Net.device promises: every     *)
(* slot of the TX window belongs to one party at a time.  A slot is free,  *)
(* being filled by the driver, or in the hands of the card's DMA; the card *)
(* gives slots back in the order it received them.                         *)
(***************************************************************************)
EXTENDS Naturals, Sequences

CONSTANT Slots        \* the slots of the TX window

VARIABLES filling,    \* slots a sender is copying a frame into
          dma         \* slots the card may still read, oldest first

OnCard == {dma[i] : i \in 1..Len(dma)}

Init == filling = {} /\ dma = <<>>

Take(s) ==            \* the driver starts filling a slot nobody owns
  /\ s \notin filling \cup OnCard
  /\ filling' = filling \cup {s}
  /\ UNCHANGED dma

Drop(s) ==            \* the frame is not sent after all
  /\ s \in filling
  /\ filling' = filling \ {s}
  /\ UNCHANGED dma

Submit(s) ==          \* ownership passes to the card
  /\ s \in filling
  /\ filling' = filling \ {s}
  /\ dma' = Append(dma, s)

Retire ==             \* the card returns the oldest slot
  /\ dma # <<>>
  /\ dma' = Tail(dma)
  /\ UNCHANGED filling

Restart ==            \* a DMA restart returns all of them
  /\ dma # <<>>
  /\ dma' = <<>>
  /\ UNCHANGED filling

Next ==
  \/ \E s \in Slots : Take(s) \/ Drop(s) \/ Submit(s)
  \/ Retire \/ Restart

Spec == Init /\ [][Next]_<<filling, dma>>
=============================================================================
