------------------------------- MODULE NetTx -------------------------------
(***************************************************************************)
(* Asynchronous transmit of ZZ9000Net.device: the slot accounting of       *)
(* net/tx.c, the senders of net/device.c that use it under db_TxSem, and   *)
(* the expunge that must not leave frames in the card's hands.  The card   *)
(* (the firmware) is external: it retires submissions in order and counts  *)
(* them in a 15-bit register.                                              *)
(***************************************************************************)
EXTENDS Integers, Sequences

CONSTANTS Writers,     \* tasks that open the device and send
          Lens,        \* frame lengths that pass the DataLength check
          WaitReads,   \* ZZNET_TX_WAIT_READS: status reads before giving up
          InitCounts,  \* ETH_TX_STATUS counts the driver may find at load
          MaxWrites    \* bound: sends explored in one behaviour

ZZNET_TX_SLOTS == 4
ZZNET_TX_COUNTS == 32768           \* ZZNET_TX_STATUS_COUNT + 1
Slots == 0..3                      \* ZZNET_TX_SLOTS of them
Counts == {n \in Nat : n < ZZNET_TX_COUNTS}  \* values of the 15-bit count
Bytes == {n \in Nat : n < 256}      \* values of a uint8_t

ASSUME LensAssumption       == Lens \subseteq 1..1532
ASSUME WaitReadsAssumption  == WaitReads \in Nat
ASSUME InitCountsAssumption == InitCounts \subseteq Counts
ASSUME MaxWritesAssumption  == MaxWrites \in Nat

VARIABLES
  loaded,   \* the device is resident in memory
  delexp,   \* LIBF_DELEXP: an expunge was deferred
  opened,   \* tasks holding the device open (lib_OpenCnt is their number)
  expunge,  \* "no", or "drain" while DevExpunge waits for the card
  tx,       \* db_Tx
  semq,     \* db_TxSem: its owner first, then the waiters in FIFO order
  pc,       \* where each sender is in write_frame_async
  slot,     \* the slot the owner of db_TxSem took
  reads,    \* status reads of the current wait loop
  fwq,      \* slots the card has not retired, oldest first
  fwCount,  \* the retired count in ETH_TX_STATUS
  writes    \* sends begun so far (bounded by MaxWrites)

driverVars == <<loaded, delexp, opened, expunge>>
vars == <<loaded, delexp, opened, expunge, tx, semq, pc, slot, reads,
          fwq, fwCount, writes>>

-----------------------------------------------------------------------------
(* tx.c: pure slot accounting.                                             *)

\* Takes the capability bit for a part of the count.
ResetUnmasked(status) == [done |-> status, next |-> 0, inuse |-> 0]

\* zznet_tx_reset: no submission outstanding, the count is the baseline.
zznet_tx_reset(status) ==
  [done |-> status % ZZNET_TX_COUNTS, next |-> 0, inuse |-> 0]

\* Takes the difference in 16 bits: a wrapped count looks like a huge step.
ReclaimUnmasked(st, status) ==
  LET now == status % ZZNET_TX_COUNTS
      n   == (now - st.done) % 65536
  IN  [done |-> now, next |-> st.next,
       inuse |-> IF n > st.inuse THEN 0 ELSE st.inuse - n]

\* zznet_tx_reclaim: the oldest n slots are free, never more than are in use.
zznet_tx_reclaim(st, status) ==
  LET now == status % ZZNET_TX_COUNTS
      n   == (now - st.done) % ZZNET_TX_COUNTS
  IN  [done |-> now, next |-> st.next,
       inuse |-> IF n > st.inuse THEN 0 ELSE st.inuse - n]

\* Hands out a fifth slot while four are in flight.
SlotOffByOne(st) ==
  IF st.inuse > ZZNET_TX_SLOTS THEN -1 ELSE st.next % ZZNET_TX_SLOTS

\* zznet_tx_slot: the next slot in submission order, -1 while all are owned.
zznet_tx_slot(st) ==
  IF st.inuse >= ZZNET_TX_SLOTS THEN -1 ELSE st.next % ZZNET_TX_SLOTS

\* The slot shifted one bit short.
WordMisplaced(s, len) == 32768 + s * 1024 + (len % 2048)

\* zznet_tx_word: bit 15 asynchronous, slot in bits 12..11, length below.
zznet_tx_word(s, len) == 32768 + s * 2048 + (len % 2048)

\* zznet_tx_submitted: next and inuse are uint8_t.
zznet_tx_submitted(st) ==
  [done |-> st.done, next |-> (st.next + 1) % 256,
   inuse |-> (st.inuse + 1) % 256]

-----------------------------------------------------------------------------
(* The card.                                                               *)

\* ETH_TX_STATUS: bit 15 says the path exists, the count is below it.
ETH_TX_STATUS == 32768 + fwCount

\* The slot ETH_TX names in bits 12..11.
WordSlot(word) == (word \div 2048) % 4

\* The oldest submission has been sent or refused.
FwRetire ==
  /\ fwq # <<>>
  /\ fwq' = Tail(fwq)
  /\ fwCount' = (fwCount + 1) % ZZNET_TX_COUNTS
  /\ UNCHANGED <<loaded, delexp, opened, expunge, tx, semq, pc, slot, reads,
                 writes>>

\* A DMA restart retires everything outstanding.
FwRestart ==
  /\ fwq # <<>>
  /\ fwq' = <<>>
  /\ fwCount' = (fwCount + Len(fwq)) % ZZNET_TX_COUNTS
  /\ UNCHANGED <<loaded, delexp, opened, expunge, tx, semq, pc, slot, reads,
                 writes>>

-----------------------------------------------------------------------------
(* Open, close and expunge.  Exec calls them under Forbid: while a drain   *)
(* runs no other task does.                                                *)

DevInit ==
  /\ ~loaded
  /\ loaded' = TRUE
  /\ delexp' = FALSE
  /\ tx' = zznet_tx_reset(ETH_TX_STATUS)
  /\ UNCHANGED <<opened, expunge, semq, pc, slot, reads, fwq, fwCount, writes>>

DevOpen(w) ==
  /\ loaded /\ expunge = "no" /\ w \notin opened
  /\ opened' = opened \cup {w}
  /\ delexp' = FALSE
  /\ UNCHANGED <<loaded, expunge, tx, semq, pc, slot, reads, fwq, fwCount,
                 writes>>

\* A task closes the device once its own requests are done.
DevClose(w) ==
  /\ expunge = "no" /\ w \in opened /\ pc[w] = "idle"
  /\ opened' = opened \ {w}
  /\ expunge' = IF delexp /\ opened' = {} THEN "drain" ELSE "no"
  /\ UNCHANGED <<loaded, delexp, tx, semq, pc, slot, reads, fwq, fwCount,
                 writes>>

\* Exec asks a resident device to go.
DevExpunge ==
  /\ loaded /\ expunge = "no"
  /\ \/ opened # {} /\ delexp' = TRUE /\ UNCHANGED expunge
     \/ opened = {} /\ expunge' = "drain" /\ UNCHANGED delexp
  /\ UNCHANGED <<loaded, opened, tx, semq, pc, slot, reads, fwq, fwCount,
                 writes>>

\* One iteration of zznet_tx_drain.
DrainRead ==
  /\ expunge = "drain" /\ tx.inuse # 0 /\ reads < WaitReads
  /\ tx' = zznet_tx_reclaim(tx, ETH_TX_STATUS)
  /\ reads' = reads + 1
  /\ UNCHANGED <<loaded, delexp, opened, expunge, semq, pc, slot, fwq,
                 fwCount, writes>>

\* Frees the device although the card still owns slots.
DrainIgnored ==
  /\ expunge = "drain" /\ (tx.inuse = 0 \/ reads >= WaitReads)
  /\ loaded' = FALSE
  /\ expunge' = "no" /\ reads' = 0
  /\ UNCHANGED <<delexp, opened, tx, semq, pc, slot, fwq, fwCount, writes>>

\* The drain ended: the device is freed, or the expunge deferred.
DrainDone ==
  /\ expunge = "drain" /\ (tx.inuse = 0 \/ reads >= WaitReads)
  /\ IF tx.inuse = 0 THEN loaded' = FALSE /\ UNCHANGED delexp
                     ELSE delexp' = TRUE /\ UNCHANGED loaded
  /\ expunge' = "no" /\ reads' = 0
  /\ UNCHANGED <<opened, tx, semq, pc, slot, fwq, fwCount, writes>>

-----------------------------------------------------------------------------
(* write_frame_async and write_frame.                                      *)

Owner(w) == semq # <<>> /\ semq[1] = w /\ expunge = "no"

\* Return to the caller: release db_TxSem.
Return(w) ==
  /\ semq' = Tail(semq)
  /\ pc' = [pc EXCEPT ![w] = "idle"]
  /\ reads' = 0

\* CMD_WRITE: a frame that fits a slot waits for db_TxSem.
BeginWrite(w) ==
  /\ w \in opened /\ expunge = "no" /\ pc[w] = "idle" /\ writes < MaxWrites
  /\ writes' = writes + 1
  /\ semq' = Append(semq, w)
  /\ pc' = [pc EXCEPT ![w] = "wait"]
  /\ UNCHANGED <<driverVars, tx, slot, reads, fwq, fwCount>>

\* Reads the status for ever while the card retires nothing.
WaitReadForever(w) ==
  /\ Owner(w) /\ pc[w] = "wait"
  /\ zznet_tx_slot(tx) < 0 /\ reads < WaitReads
  /\ tx' = zznet_tx_reclaim(tx, ETH_TX_STATUS)
  /\ UNCHANGED <<driverVars, semq, pc, slot, reads, fwq, fwCount, writes>>

\* All four slots are the card's: read the status once more.
WaitRead(w) ==
  /\ Owner(w) /\ pc[w] = "wait"
  /\ zznet_tx_slot(tx) < 0 /\ reads < WaitReads
  /\ tx' = zznet_tx_reclaim(tx, ETH_TX_STATUS)
  /\ reads' = reads + 1
  /\ UNCHANGED <<driverVars, semq, pc, slot, fwq, fwCount, writes>>

\* No slot retired in time: S2ERR_NO_RESOURCES.
GiveUp(w) ==
  /\ Owner(w) /\ pc[w] = "wait"
  /\ zznet_tx_slot(tx) < 0 /\ reads >= WaitReads
  /\ Return(w)
  /\ UNCHANGED <<driverVars, tx, slot, fwq, fwCount, writes>>

\* A slot is free: start copying the frame into it.
TakeSlot(w) ==
  /\ Owner(w) /\ pc[w] = "wait"
  /\ zznet_tx_slot(tx) >= 0
  /\ slot' = zznet_tx_slot(tx)
  /\ pc' = [pc EXCEPT ![w] = "copy"]
  /\ UNCHANGED <<driverVars, tx, semq, reads, fwq, fwCount, writes>>

\* bm_CopyFromBuffer failed, or the frame is empty: nothing is submitted.
NoSubmit(w) ==
  /\ Owner(w) /\ pc[w] = "copy"
  /\ Return(w)
  /\ UNCHANGED <<driverVars, tx, slot, fwq, fwCount, writes>>

\* The ETH_TX write hands the slot to the card.
Kick(w) ==
  /\ Owner(w) /\ pc[w] = "copy"
  /\ \E len \in Lens :
       fwq' = Append(fwq, WordSlot(zznet_tx_word(slot, len)))
  /\ pc' = [pc EXCEPT ![w] = "kicked"]
  /\ UNCHANGED <<driverVars, tx, semq, slot, reads, fwCount, writes>>

\* The submission is recorded after the write.
Submitted(w) ==
  /\ Owner(w) /\ pc[w] = "kicked"
  /\ tx' = zznet_tx_submitted(tx)
  /\ Return(w)
  /\ UNCHANGED <<driverVars, slot, fwq, fwCount, writes>>

-----------------------------------------------------------------------------
Init ==
  /\ loaded = FALSE /\ delexp = FALSE /\ opened = {} /\ expunge = "no"
  /\ fwCount \in InitCounts
  /\ tx = zznet_tx_reset(ETH_TX_STATUS)
  /\ semq = <<>> /\ pc = [w \in Writers |-> "idle"] /\ slot = 0
  /\ reads = 0 /\ fwq = <<>> /\ writes = 0

SenderStep(w) ==
  \/ WaitRead(w) \/ GiveUp(w) \/ TakeSlot(w)
  \/ NoSubmit(w) \/ Kick(w) \/ Submitted(w)

Next ==
  \/ FwRetire \/ FwRestart
  \/ DevInit \/ DevExpunge \/ DrainRead \/ DrainDone
  \/ \E w \in Writers : \/ DevOpen(w) \/ DevClose(w) \/ BeginWrite(w)
                        \/ SenderStep(w)

Spec == Init /\ [][Next]_vars

\* A task inside write_frame_async keeps running (nothing in it waits for
\* another task except the FIFO semaphore), and a drain under Forbid too.
\* Neither the card nor the callers are assumed to do anything.
Fairness ==
  /\ WF_vars(DrainRead) /\ WF_vars(DrainDone)
  /\ \A w \in Writers : WF_vars(SenderStep(w))

FairSpec == Spec /\ Fairness

-----------------------------------------------------------------------------
\* db_Tx, db_TxSem and the card's queue have their types.
TypeOK ==
  /\ loaded \in BOOLEAN /\ delexp \in BOOLEAN
  /\ opened \subseteq Writers
  /\ expunge \in {"no", "drain"}
  /\ tx \in [done : Counts, next : Bytes, inuse : Bytes]
  /\ semq \in Seq(Writers)
  /\ pc \in [Writers -> {"idle", "wait", "copy", "kicked"}]
  /\ slot \in Slots
  /\ reads \in Nat
  /\ fwq \in Seq(Slots)
  /\ fwCount \in Counts
  /\ writes \in Nat

\* "A slot is reused only after ETH_TX_STATUS has counted its frame, so the
\* copy into it can never overwrite a frame the GEM is still reading"
\* (write_frame_async): while a sender fills a slot the card does not own it.
NoDmaOverwrite ==
  \A w \in Writers :
    pc[w] = "copy" => \A i \in 1..Len(fwq) : fwq[i] # slot

\* DevExpunge never frees the driver while the card owns a slot: a reloaded
\* driver would hand that slot out again.
NoOrphanDma == ~loaded => fwq = <<>>

\* A submission written to the card and not yet recorded.
Unrecorded == IF \E w \in Writers : pc[w] = "kicked" THEN 1 ELSE 0

\* What the driver believes is in use is exactly what the card retired
\* unseen plus what it still owns, through every wrap of the count.
TxAccounting ==
  /\ tx.inuse + Unrecorded <= ZZNET_TX_SLOTS
  /\ ((fwCount - tx.done) % ZZNET_TX_COUNTS) + Len(fwq)
       = tx.inuse + Unrecorded

\* The inductive invariant.  Slots are handed out round robin, so the card's
\* queue is the run of slots that ends just before the next one; db_TxSem
\* makes the sender holding a slot unique; a drain finds no sender left.
QueueInOrder ==
  \A i \in 1..Len(fwq) :
    fwq[i] = (tx.next + Unrecorded - Len(fwq) + i - 1) % 4

SlotHeld ==
  \A w \in Writers :
    pc[w] \in {"copy", "kicked"} =>
      /\ semq # <<>> /\ semq[1] = w
      /\ slot = tx.next % 4 /\ tx.inuse < ZZNET_TX_SLOTS

SemQueue ==
  /\ \A i, j \in 1..Len(semq) : semq[i] = semq[j] => i = j
  /\ \A i \in 1..Len(semq) : pc[semq[i]] # "idle"
  /\ \A w \in Writers : pc[w] # "idle" => w \in opened

Lifecycle ==
  /\ expunge = "drain" => opened = {}
  /\ ~loaded => opened = {} /\ expunge = "no" /\ tx.inuse = 0

IInv == TypeOK /\ TxAccounting /\ QueueInOrder /\ SlotHeld /\ SemQueue /\ Lifecycle

\* A sender always returns, even from a card that retires nothing.
WriteReturns == \A w \in Writers : (pc[w] # "idle") ~> (pc[w] = "idle")

\* The send path implements the slot-ownership specification.
Filling == {s \in {slot} : \E w \in Writers : pc[w] = "copy"}
Slot == INSTANCE TxSlots WITH filling <- Filling, dma <- fwq
SlotSpec == Slot!Spec
=============================================================================
