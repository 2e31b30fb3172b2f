---------------------------- MODULE NetTxProofs ----------------------------
(***************************************************************************)
(* The slot accounting of ZZ9000Net.device is right for any number of      *)
(* senders, any number of sends and every wrap of the 15-bit count and of  *)
(* the 8-bit slot counter.                                                 *)
(***************************************************************************)
EXTENDS NetTx, TLAPS

TxStates == [done : Counts, next : Bytes, inuse : Bytes]

-----------------------------------------------------------------------------
(* Arithmetic of the two counters.                                         *)

\* Masking ETH_TX_STATUS leaves the count (zznet_tx_reset, zznet_tx_reclaim).
LEMMA MaskStatus ==
  ASSUME NEW c \in Counts
  PROVE  (32768 + c) % ZZNET_TX_COUNTS = c
BY DEF Counts, ZZNET_TX_COUNTS

\* How far the count ran past the driver's baseline.
LEMMA SeenNat ==
  ASSUME NEW c \in Counts, NEW d \in Counts
  PROVE  (c - d) % ZZNET_TX_COUNTS \in Nat
BY DEF Counts, ZZNET_TX_COUNTS

\* A count that has not moved retires nothing (zznet_tx_reclaim).
LEMMA SeenNothing ==
  ASSUME NEW c \in Counts
  PROVE  (c - c) % ZZNET_TX_COUNTS = 0
BY DEF Counts, ZZNET_TX_COUNTS

\* The card retires k of n slots: the count moves by k through its wrap.
LEMMA CountMoves ==
  ASSUME NEW c \in Counts, NEW d \in Counts, NEW n \in Nat, NEW k \in Nat,
         k <= n, ((c - d) % ZZNET_TX_COUNTS) + n <= 4
  PROVE  /\ (c + k) % ZZNET_TX_COUNTS \in Counts
         /\ (((c + k) % ZZNET_TX_COUNTS) - d) % ZZNET_TX_COUNTS
              = ((c - d) % ZZNET_TX_COUNTS) + k
BY DEF Counts, ZZNET_TX_COUNTS

\* Slots taken within three submissions of each other differ.
LEMMA SlotsDiffer ==
  ASSUME NEW a \in Int, NEW b \in Int, 1 <= a - b, a - b <= 3
  PROVE  a % 4 # b % 4
OBVIOUS

\* The uint8_t wrap of next keeps the slot phase.
LEMMA PhaseKept ==
  ASSUME NEW a \in Int, NEW b \in Int
  PROVE  (((a + 1) % 256) + b) % 4 = (a + 1 + b) % 4
OBVIOUS

\* The slot field of the word written to ETH_TX names the slot that was taken.
LEMMA WordNamesSlot ==
  ASSUME NEW s \in Slots, NEW len \in Lens
  PROVE  WordSlot(zznet_tx_word(s, len)) = s
<1>1. len \in 1..1532
  BY LensAssumption
<1>2. s \in 0..3
  BY DEF Slots
<1>3. len % 2048 = len
  BY <1>1
<1>4. (32768 + s * 2048 + len) \div 2048 = 16 + s
  BY <1>1, <1>2
<1>. QED
  BY <1>2, <1>3, <1>4 DEF WordSlot, zznet_tx_word

\* zznet_tx_reclaim, for a status read while the accounting holds: what the
\* driver believes outstanding becomes exactly what the card still owns.
LEMMA ReclaimExact ==
  \A st \in TxStates, count \in Counts, n \in Nat :
    ((count - st.done) % ZZNET_TX_COUNTS) + n = st.inuse =>
      zznet_tx_reclaim(st, 32768 + count)
        = [done |-> count, next |-> st.next, inuse |-> n]
<1>1. SUFFICES ASSUME NEW st \in TxStates, NEW count \in Counts, NEW n \in Nat,
                      ((count - st.done) % ZZNET_TX_COUNTS) + n = st.inuse
               PROVE  zznet_tx_reclaim(st, 32768 + count)
                        = [done |-> count, next |-> st.next, inuse |-> n]
  OBVIOUS
<1>. DEFINE m == (count - st.done) % ZZNET_TX_COUNTS
<1>2. (32768 + count) % ZZNET_TX_COUNTS = count
  BY MaskStatus
<1>3. st.done \in Counts /\ st.inuse \in Nat
  BY DEF TxStates, Bytes
<1>4. m \in Nat
  BY <1>3, SeenNat
<1>5. m + n = st.inuse
  BY <1>1
<1>6. zznet_tx_reclaim(st, 32768 + count)
        = [done |-> count, next |-> st.next,
           inuse |-> IF m > st.inuse THEN 0 ELSE st.inuse - m]
  BY <1>2 DEF zznet_tx_reclaim
<1>. HIDE DEF m
<1>7. (IF m > st.inuse THEN 0 ELSE st.inuse - m) = n
  BY <1>3, <1>4, <1>5
<1>. QED
  BY <1>6, <1>7

-----------------------------------------------------------------------------
(* The invariant.                                                          *)

\* db_TxSem: whoever holds a slot is the head of the queue, so at most one
\* submission is unrecorded and it is the owner's.
LEMMA OneUnrecorded ==
  ASSUME IInv, NEW w \in Writers, Owner(w)
  PROVE  /\ pc[w] # "kicked" => Unrecorded = 0
         /\ pc[w] = "kicked" => Unrecorded = 1
         /\ \A v \in Writers : v # w => pc[v] \in {"idle", "wait"}
<1>1. \A v \in Writers : pc[v] \in {"copy", "kicked"} => v = w
  BY DEF IInv, SlotHeld, Owner
<1>2. \A v \in Writers : pc[v] \in {"idle", "wait", "copy", "kicked"}
  BY DEF IInv, TypeOK
<1>. QED
  BY <1>1, <1>2 DEF Unrecorded

\* While nobody has the device open, nothing is unrecorded.
LEMMA NoneOpen ==
  ASSUME IInv, opened = {}
  PROVE  /\ Unrecorded = 0 /\ semq = <<>>
         /\ \A w \in Writers : pc[w] = "idle"
<1>1. \A w \in Writers : pc[w] = "idle"
  BY DEF IInv, SemQueue
<1>2. Unrecorded = 0
  BY <1>1 DEF Unrecorded
<1>3. semq = <<>>
  <2>1. semq \in Seq(Writers) /\ \A i \in 1..Len(semq) : pc[semq[i]] # "idle"
    BY DEF IInv, TypeOK, SemQueue
  <2>2. \A i \in 1..Len(semq) : semq[i] \in Writers
    BY <2>1
  <2>. QED
    BY <1>1, <2>1, <2>2
<1>. QED
  BY <1>1, <1>2, <1>3

\* The device is loaded and not open.
LEMMA InitIInv == Init => IInv
<1>. SUFFICES ASSUME Init PROVE IInv
  OBVIOUS
<1>1. fwCount \in Counts
  BY InitCountsAssumption DEF Init
<1>2. tx = [done |-> fwCount, next |-> 0, inuse |-> 0]
  BY <1>1, MaskStatus DEF Init, zznet_tx_reset, ETH_TX_STATUS
<1>3. Unrecorded = 0
  BY DEF Init, Unrecorded
<1>4. TypeOK
  <2>1. slot \in Slots
    BY DEF Init, Slots
  <2>2. tx \in [done : Counts, next : Bytes, inuse : Bytes]
    BY <1>1, <1>2 DEF Bytes
  <2>3. pc \in [Writers -> {"idle", "wait", "copy", "kicked"}]
    BY DEF Init
  <2>4. semq \in Seq(Writers) /\ fwq \in Seq(Slots)
    BY DEF Init
  <2>. QED
    BY <1>1, <2>1, <2>2, <2>3, <2>4 DEF Init, TypeOK
<1>5. TxAccounting
  BY <1>1, <1>2, <1>3, SeenNothing DEF Init, TxAccounting, ZZNET_TX_SLOTS
<1>6. QueueInOrder
  BY DEF Init, QueueInOrder
<1>7. SlotHeld
  <2>1. \A w \in Writers : pc[w] = "idle"
    BY DEF Init
  <2>. QED
    BY <2>1 DEF SlotHeld
<1>8. SemQueue
  BY DEF Init, SemQueue
<1>9. Lifecycle
  BY <1>2 DEF Init, Lifecycle
<1>. QED
  BY <1>4, <1>5, <1>6, <1>7, <1>8, <1>9 DEF IInv

\* The card retires k slots, oldest first.
LEMMA CardStep ==
  ASSUME IInv, FwRetire \/ FwRestart
  PROVE  IInv'
<1>. DEFINE k == IF FwRetire THEN 1 ELSE Len(fwq)
            seen == (fwCount - tx.done) % ZZNET_TX_COUNTS
            seenNext == (fwCount' - tx.done) % ZZNET_TX_COUNTS
<1>1. fwq \in Seq(Slots) /\ fwq # <<>> /\ Len(fwq) \in Nat /\ Len(fwq) > 0
  BY DEF IInv, TypeOK, FwRetire, FwRestart
<1>2. k \in Nat /\ k <= Len(fwq) /\ fwCount' = (fwCount + k) % ZZNET_TX_COUNTS
  BY <1>1 DEF FwRetire, FwRestart
<1>3. /\ fwq' \in Seq(Slots) /\ Len(fwq') = Len(fwq) - k
      /\ \A i \in 1..Len(fwq') : fwq'[i] = fwq[i + k]
  <2>1. CASE FwRetire
    BY <1>1, <2>1 DEF FwRetire
  <2>2. CASE ~FwRetire /\ FwRestart
    BY <1>1, <2>2 DEF FwRestart
  <2>. QED
    BY <2>1, <2>2
<1>. HIDE DEF k
<1>4. UNCHANGED <<loaded, delexp, opened, expunge, tx, semq, pc, slot, reads,
                  writes>>
  BY DEF FwRetire, FwRestart
<1>5. Unrecorded' = Unrecorded /\ Unrecorded \in {0, 1}
  BY <1>4 DEF Unrecorded
<1>6. /\ fwCount \in Counts /\ tx.done \in Counts
      /\ tx.next \in Nat /\ tx.inuse \in Nat
  BY DEF IInv, TypeOK, Bytes
<1>7. seen + Len(fwq) = tx.inuse + Unrecorded /\ tx.inuse + Unrecorded <= 4
  BY DEF IInv, TxAccounting, ZZNET_TX_SLOTS
<1>8. seen \in Nat
  BY <1>6, SeenNat
<1>9. seenNext = seen + k /\ fwCount' \in Counts
  <2>1. seen + Len(fwq) <= 4
    BY <1>7
  <2>. QED
    BY <1>1, <1>2, <1>6, <2>1, CountMoves
<1>. HIDE DEF seen
<1>10. TxAccounting'
  <2>1. seenNext + Len(fwq') = tx.inuse + Unrecorded
    BY <1>1, <1>2, <1>3, <1>5, <1>6, <1>7, <1>8, <1>9
  <2>. QED
    BY <1>4, <1>5, <1>7, <2>1 DEF TxAccounting, ZZNET_TX_SLOTS
<1>11. TypeOK'
  BY <1>3, <1>4, <1>9 DEF IInv, TypeOK
<1>12. QueueInOrder'
  <2>1. \A i \in 1..Len(fwq) :
          fwq[i] = (tx.next + Unrecorded - Len(fwq) + i - 1) % 4
    BY DEF IInv, QueueInOrder
  <2>2. SUFFICES ASSUME NEW i \in 1..Len(fwq')
                 PROVE  fwq'[i] = (tx.next + Unrecorded - Len(fwq') + i - 1) % 4
    BY <1>4, <1>5 DEF QueueInOrder
  <2>3. i + k \in 1..Len(fwq)
    BY <1>1, <1>2, <1>3
  <2>4. fwq[i + k] = (tx.next + Unrecorded - Len(fwq) + (i + k) - 1) % 4
    BY <2>1, <2>3
  <2>5. tx.next + Unrecorded - Len(fwq) + (i + k) - 1
          = tx.next + Unrecorded - Len(fwq') + i - 1
    BY <1>1, <1>2, <1>3, <1>5, <1>6
  <2>. QED
    BY <1>3, <2>4, <2>5
<1>13. SlotHeld' /\ SemQueue' /\ Lifecycle'
  BY <1>4 DEF IInv, SlotHeld, SemQueue, Lifecycle
<1>. QED
  BY <1>10, <1>11, <1>12, <1>13 DEF IInv

\* Open, close and the first half of an expunge touch no slot.
LEMMA OpenCloseStep ==
  ASSUME IInv,
         \/ \E w \in Writers : DevOpen(w) \/ DevClose(w)
         \/ DevExpunge
  PROVE  IInv'
<1>1. UNCHANGED <<loaded, tx, semq, pc, slot, reads, fwq, fwCount, writes>>
  BY DEF DevOpen, DevClose, DevExpunge
<1>2. TypeOK'
  BY <1>1 DEF IInv, TypeOK, DevOpen, DevClose, DevExpunge
<1>3. TxAccounting' /\ QueueInOrder' /\ SlotHeld'
  BY <1>1 DEF IInv, TxAccounting, QueueInOrder, SlotHeld, Unrecorded
<1>4. SemQueue'
  BY <1>1 DEF IInv, SemQueue, DevOpen, DevClose, DevExpunge
<1>5. Lifecycle'
  BY <1>1 DEF IInv, Lifecycle, DevOpen, DevClose, DevExpunge
<1>. QED
  BY <1>2, <1>3, <1>4, <1>5 DEF IInv

\* A fresh driver finds no submission outstanding.
LEMMA DevInitStep ==
  ASSUME IInv, DevInit
  PROVE  IInv'
<1>1. ~loaded /\ opened = {} /\ expunge = "no" /\ tx.inuse = 0
  BY DEF IInv, Lifecycle, DevInit
<1>2. Unrecorded = 0 /\ semq = <<>> /\ \A w \in Writers : pc[w] = "idle"
  BY <1>1, NoneOpen
<1>3. fwCount \in Counts /\ tx.done \in Counts /\ fwq \in Seq(Slots)
  BY DEF IInv, TypeOK
<1>4. fwq = <<>>
  <2>1. ((fwCount - tx.done) % ZZNET_TX_COUNTS) + Len(fwq) = 0
    BY <1>1, <1>2 DEF IInv, TxAccounting
  <2>2. (fwCount - tx.done) % ZZNET_TX_COUNTS \in Nat
    BY <1>3, SeenNat
  <2>3. Len(fwq) = 0
    <3>. DEFINE seen == (fwCount - tx.done) % ZZNET_TX_COUNTS
    <3>. HIDE DEF seen
    <3>1. seen \in Nat /\ seen + Len(fwq) = 0
      BY <2>1, <2>2 DEF seen
    <3>. QED
      BY <1>3, <3>1
  <2>. QED
    BY <1>3, <2>3
<1>5. tx' = [done |-> fwCount, next |-> 0, inuse |-> 0]
  BY <1>3, MaskStatus DEF DevInit, zznet_tx_reset, ETH_TX_STATUS
<1>6. UNCHANGED <<opened, expunge, semq, pc, slot, reads, fwq, fwCount, writes>>
  BY DEF DevInit
<1>7. Unrecorded' = 0
  BY <1>2, <1>6 DEF Unrecorded
<1>8. TypeOK'
  <2>1. tx' \in [done : Counts, next : Bytes, inuse : Bytes]
    BY <1>3, <1>5 DEF Bytes
  <2>2. loaded' \in BOOLEAN /\ delexp' \in BOOLEAN
    BY DEF DevInit
  <2>. QED
    BY <1>6, <2>1, <2>2 DEF IInv, TypeOK
<1>9. TxAccounting'
  BY <1>3, <1>4, <1>5, <1>6, <1>7, SeenNothing
     DEF TxAccounting, ZZNET_TX_SLOTS
<1>10. QueueInOrder'
  BY <1>4, <1>6 DEF QueueInOrder
<1>11. SlotHeld' /\ SemQueue'
  BY <1>2, <1>6 DEF SlotHeld, SemQueue
<1>12. Lifecycle'
  BY <1>1, <1>6 DEF Lifecycle, DevInit
<1>. QED
  BY <1>8, <1>9, <1>10, <1>11, <1>12 DEF IInv

\* A status read, by a waiting sender or by the drain of DevExpunge.
LEMMA ReclaimStep ==
  ASSUME IInv, Unrecorded = 0,
         \A w \in Writers : pc[w] \notin {"copy", "kicked"},
         tx' = zznet_tx_reclaim(tx, ETH_TX_STATUS), reads' \in Nat, loaded,
         UNCHANGED <<loaded, delexp, opened, expunge, semq, pc, slot, fwq,
                     fwCount, writes>>
  PROVE  IInv'
<1>1. /\ tx \in TxStates /\ fwCount \in Counts /\ tx.next \in Bytes
      /\ tx.inuse \in Nat /\ fwq \in Seq(Slots)
  BY DEF IInv, TypeOK, TxStates, Bytes
<1>2. /\ ((fwCount - tx.done) % ZZNET_TX_COUNTS) + Len(fwq) = tx.inuse
      /\ tx.inuse <= 4
  <2>1. /\ ((fwCount - tx.done) % ZZNET_TX_COUNTS) + Len(fwq)
             = tx.inuse + Unrecorded
        /\ tx.inuse + Unrecorded <= 4
    BY DEF IInv, TxAccounting, ZZNET_TX_SLOTS
  <2>2. tx.inuse + Unrecorded = tx.inuse
    BY <1>1
  <2>. QED
    BY <2>1, <2>2
<1>3. tx' = [done |-> fwCount, next |-> tx.next, inuse |-> Len(fwq)]
  BY <1>1, <1>2, ReclaimExact DEF ETH_TX_STATUS
<1>4. Len(fwq) \in Nat /\ Len(fwq) <= 4
  <2>. DEFINE seen == (fwCount - tx.done) % ZZNET_TX_COUNTS
  <2>1. tx.done \in Counts
    BY <1>1 DEF TxStates
  <2>2. seen \in Nat
    BY <1>1, <2>1, SeenNat
  <2>3. seen + Len(fwq) = tx.inuse
    BY <1>2
  <2>. HIDE DEF seen
  <2>. QED
    BY <1>1, <1>2, <2>2, <2>3
<1>5. Unrecorded' = 0
  BY DEF Unrecorded
<1>6. TypeOK'
  <2>1. tx' \in [done : Counts, next : Bytes, inuse : Bytes]
    BY <1>1, <1>3, <1>4 DEF Bytes
  <2>. QED
    BY <2>1 DEF IInv, TypeOK
<1>7. TxAccounting'
  BY <1>1, <1>3, <1>4, <1>5, SeenNothing DEF TxAccounting, ZZNET_TX_SLOTS
<1>8. QueueInOrder'
  <2>1. tx'.next = tx.next /\ Unrecorded' = Unrecorded
    BY <1>3, <1>5
  <2>. QED
    BY <2>1 DEF IInv, QueueInOrder
<1>9. SlotHeld' /\ SemQueue'
  BY DEF IInv, SlotHeld, SemQueue
<1>10. Lifecycle'
  BY DEF IInv, Lifecycle
<1>. QED
  BY <1>6, <1>7, <1>8, <1>9, <1>10 DEF IInv

\* The drain of DevExpunge runs only when no sender is left.
LEMMA DrainStep ==
  ASSUME IInv, DrainRead \/ DrainDone
  PROVE  IInv'
<1>1. expunge = "drain" /\ opened = {} /\ loaded
  BY DEF IInv, Lifecycle, TypeOK, DrainRead, DrainDone
<1>2. Unrecorded = 0 /\ \A w \in Writers : pc[w] = "idle"
  BY <1>1, NoneOpen
<1>3. CASE DrainRead
  <2>1. reads' \in Nat
    BY <1>3 DEF IInv, TypeOK, DrainRead
  <2>. QED
    BY <1>1, <1>2, <1>3, <2>1, ReclaimStep DEF DrainRead
<1>4. CASE DrainDone
  <2>1. UNCHANGED <<opened, tx, semq, pc, slot, fwq, fwCount, writes>>
    BY <1>4 DEF DrainDone
  <2>2. TypeOK'
    BY <1>4, <2>1 DEF IInv, TypeOK, DrainDone
  <2>3. TxAccounting' /\ QueueInOrder' /\ SlotHeld' /\ SemQueue'
    BY <2>1 DEF IInv, TxAccounting, QueueInOrder, SlotHeld, SemQueue, Unrecorded
  <2>4. Lifecycle'
    BY <1>1, <1>4, <2>1 DEF Lifecycle, DrainDone
  <2>. QED
    BY <2>2, <2>3, <2>4 DEF IInv
<1>. QED
  BY <1>3, <1>4

-----------------------------------------------------------------------------
(* The senders.                                                            *)

\* A sender inside the send path has the device open.
LEMMA SenderOwner ==
  ASSUME IInv, NEW w \in Writers, pc[w] # "idle"
  PROVE  w \in opened /\ loaded /\ expunge = "no"
BY DEF IInv, TypeOK, SemQueue, Lifecycle

\* The owner of db_TxSem returns: the next waiter becomes the owner and
\* nobody holds a slot.
LEMMA ReturnStep ==
  ASSUME IInv, NEW w \in Writers, Owner(w), Return(w), UNCHANGED opened
  PROVE  /\ pc' \in [Writers -> {"idle", "wait", "copy", "kicked"}]
         /\ \A v \in Writers : pc'[v] \in {"idle", "wait"}
         /\ Unrecorded' = 0 /\ semq' \in Seq(Writers) /\ reads' \in Nat
         /\ SlotHeld' /\ SemQueue'
<1>1. semq \in Seq(Writers) /\ semq # <<>> /\ semq[1] = w
  BY DEF IInv, TypeOK, Owner
<1>2. /\ semq' \in Seq(Writers) /\ Len(semq') = Len(semq) - 1
      /\ \A i \in 1..Len(semq') : semq'[i] = semq[i + 1]
  BY <1>1 DEF Return
<1>3. pc' \in [Writers -> {"idle", "wait", "copy", "kicked"}]
  BY DEF IInv, TypeOK, Return
<1>4. /\ pc'[w] = "idle"
      /\ \A v \in Writers : v # w => pc'[v] = pc[v] /\ pc[v] \in {"idle", "wait"}
  BY OneUnrecorded DEF IInv, TypeOK, Return
<1>5. \A v \in Writers : pc'[v] \in {"idle", "wait"}
  BY <1>4
<1>6. Unrecorded' = 0
  BY <1>5 DEF Unrecorded
<1>7. SlotHeld'
  BY <1>5 DEF SlotHeld
<1>8. SemQueue'
  <2>1. \A i, j \in 1..Len(semq') : semq'[i] = semq'[j] => i = j
    BY <1>1, <1>2 DEF IInv, SemQueue
  <2>2. \A i \in 1..Len(semq') : pc'[semq'[i]] # "idle"
    <3>. SUFFICES ASSUME NEW i \in 1..Len(semq') PROVE pc'[semq'[i]] # "idle"
      OBVIOUS
    <3>1. /\ i + 1 \in 1..Len(semq) /\ 1 \in 1..Len(semq) /\ i + 1 # 1
          /\ semq'[i] = semq[i + 1]
      BY <1>1, <1>2
    <3>2. semq[i + 1] # w
      BY <1>1, <3>1 DEF IInv, SemQueue
    <3>3. semq[i + 1] \in Writers /\ pc[semq[i + 1]] # "idle"
      BY <1>1, <3>1 DEF IInv, SemQueue
    <3>. QED
      BY <1>4, <3>1, <3>2, <3>3
  <2>3. \A v \in Writers : pc'[v] # "idle" => v \in opened'
    BY <1>4 DEF IInv, SemQueue
  <2>. QED
    BY <2>1, <2>2, <2>3 DEF SemQueue
<1>9. reads' \in Nat
  BY DEF Return
<1>. QED
  BY <1>2, <1>3, <1>5, <1>6, <1>7, <1>8, <1>9

\* CMD_WRITE queues for db_TxSem.
LEMMA BeginWriteStep ==
  ASSUME IInv, NEW w \in Writers, BeginWrite(w)
  PROVE  IInv'
<1>1. /\ semq \in Seq(Writers) /\ pc[w] = "idle" /\ w \in opened
      /\ semq' = Append(semq, w)
      /\ UNCHANGED <<loaded, delexp, opened, expunge, tx, slot, reads, fwq,
                     fwCount>>
  BY DEF IInv, TypeOK, BeginWrite, driverVars
<1>2. /\ semq' \in Seq(Writers) /\ Len(semq') = Len(semq) + 1
      /\ semq'[Len(semq) + 1] = w
      /\ \A i \in 1..Len(semq) : semq'[i] = semq[i]
  BY <1>1
<1>3. /\ pc' \in [Writers -> {"idle", "wait", "copy", "kicked"}]
      /\ pc'[w] = "wait"
      /\ \A v \in Writers : v # w => pc'[v] = pc[v]
  BY DEF IInv, TypeOK, BeginWrite
<1>4. Unrecorded' = Unrecorded
  BY <1>1, <1>3 DEF Unrecorded
<1>5. TypeOK'
  BY <1>1, <1>2, <1>3 DEF IInv, TypeOK, BeginWrite
<1>6. TxAccounting' /\ QueueInOrder'
  BY <1>1, <1>4 DEF IInv, TxAccounting, QueueInOrder
<1>7. SlotHeld'
  <2>. SUFFICES ASSUME NEW v \in Writers, pc'[v] \in {"copy", "kicked"}
                PROVE  /\ semq' # <<>> /\ semq'[1] = v
                       /\ slot' = tx'.next % 4 /\ tx'.inuse < ZZNET_TX_SLOTS
    BY DEF SlotHeld
  <2>1. pc[v] \in {"copy", "kicked"}
    BY <1>3
  <2>2. semq # <<>> /\ semq[1] = v /\ slot = tx.next % 4
        /\ tx.inuse < ZZNET_TX_SLOTS
    BY <2>1 DEF IInv, SlotHeld
  <2>3. 1 \in 1..Len(semq) /\ semq' # <<>>
    BY <1>1, <1>2, <2>2
  <2>. QED
    BY <1>1, <1>2, <2>2, <2>3
<1>8. SemQueue'
  <2>1. \A i \in 1..Len(semq) : semq[i] # w /\ semq[i] \in Writers
                                /\ pc[semq[i]] # "idle"
    BY <1>1 DEF IInv, SemQueue
  <2>2. \A i, j \in 1..Len(semq') : semq'[i] = semq'[j] => i = j
    <3>1. \A i, j \in 1..Len(semq) : semq[i] = semq[j] => i = j
      BY DEF IInv, SemQueue
    <3>2. \A i \in 1..Len(semq') : i \in 1..Len(semq) \/ i = Len(semq) + 1
      BY <1>1, <1>2
    <3>. QED
      BY <1>2, <2>1, <3>1, <3>2
  <2>3. \A i \in 1..Len(semq') : pc'[semq'[i]] # "idle"
    <3>1. \A i \in 1..Len(semq') : i \in 1..Len(semq) \/ i = Len(semq) + 1
      BY <1>1, <1>2
    <3>. QED
      BY <1>2, <1>3, <2>1, <3>1
  <2>4. \A v \in Writers : pc'[v] # "idle" => v \in opened'
    BY <1>1, <1>3 DEF IInv, SemQueue
  <2>. QED
    BY <2>2, <2>3, <2>4 DEF SemQueue
<1>9. Lifecycle'
  BY <1>1 DEF IInv, Lifecycle
<1>. QED
  BY <1>5, <1>6, <1>7, <1>8, <1>9 DEF IInv

\* A waiting sender reads the retire register and takes what it shows.
LEMMA WaitReadStep ==
  ASSUME IInv, NEW w \in Writers, WaitRead(w)
  PROVE  IInv'
<1>1. Owner(w) /\ pc[w] = "wait" /\ loaded
  BY SenderOwner DEF WaitRead
<1>2. Unrecorded = 0 /\ \A v \in Writers : pc[v] \notin {"copy", "kicked"}
  BY <1>1, OneUnrecorded
<1>3. reads' \in Nat
  BY DEF IInv, TypeOK, WaitRead
<1>. QED
  BY <1>1, <1>2, <1>3, ReclaimStep DEF WaitRead, driverVars

\* Giving up, an empty frame and a failed copy leave the slots alone.
LEMMA NothingSentStep ==
  ASSUME IInv, NEW w \in Writers, GiveUp(w) \/ NoSubmit(w)
  PROVE  IInv'
<1>1. /\ Owner(w) /\ pc[w] \in {"wait", "copy"} /\ Return(w)
      /\ UNCHANGED <<loaded, delexp, opened, expunge, tx, slot, fwq, fwCount,
                     writes>>
  BY DEF GiveUp, NoSubmit, driverVars
<1>2. Unrecorded = 0
  BY <1>1, OneUnrecorded
<1>3. /\ pc' \in [Writers -> {"idle", "wait", "copy", "kicked"}]
      /\ Unrecorded' = 0 /\ semq' \in Seq(Writers) /\ reads' \in Nat
      /\ SlotHeld' /\ SemQueue'
  BY <1>1, ReturnStep
<1>4. TypeOK'
  BY <1>1, <1>3 DEF IInv, TypeOK
<1>5. TxAccounting' /\ QueueInOrder'
  BY <1>1, <1>2, <1>3 DEF IInv, TxAccounting, QueueInOrder
<1>6. Lifecycle'
  BY <1>1 DEF IInv, Lifecycle
<1>. QED
  BY <1>3, <1>4, <1>5, <1>6 DEF IInv

\* zznet_tx_slot hands out the slot the next submission will name.
LEMMA TakeSlotStep ==
  ASSUME IInv, NEW w \in Writers, TakeSlot(w)
  PROVE  IInv'
<1>1. /\ Owner(w) /\ pc[w] = "wait"
      /\ UNCHANGED <<loaded, delexp, opened, expunge, tx, semq, reads, fwq,
                     fwCount, writes>>
  BY DEF TakeSlot, driverVars
<1>2. Unrecorded = 0 /\ \A v \in Writers : v # w => pc[v] \in {"idle", "wait"}
  BY <1>1, OneUnrecorded
<1>3. tx.next \in Nat /\ tx.inuse \in Nat
  BY DEF IInv, TypeOK, Bytes
<1>4. tx.inuse < ZZNET_TX_SLOTS /\ slot' = tx.next % 4
  BY <1>3 DEF TakeSlot, zznet_tx_slot, ZZNET_TX_SLOTS
<1>5. slot' \in Slots
  BY <1>3, <1>4 DEF Slots
<1>6. /\ pc' \in [Writers -> {"idle", "wait", "copy", "kicked"}]
      /\ pc'[w] = "copy" /\ \A v \in Writers : v # w => pc'[v] = pc[v]
  BY DEF IInv, TypeOK, TakeSlot
<1>7. Unrecorded' = 0
  BY <1>2, <1>6 DEF Unrecorded
<1>8. TypeOK'
  BY <1>1, <1>5, <1>6 DEF IInv, TypeOK
<1>9. TxAccounting' /\ QueueInOrder'
  BY <1>1, <1>2, <1>7 DEF IInv, TxAccounting, QueueInOrder
<1>10. SlotHeld'
  BY <1>1, <1>2, <1>4, <1>6 DEF SlotHeld, Owner
<1>11. SemQueue' /\ Lifecycle'
  BY <1>1, <1>6 DEF IInv, SemQueue, Lifecycle, TypeOK
<1>. QED
  BY <1>8, <1>9, <1>10, <1>11 DEF IInv

\* The ETH_TX write appends exactly the slot that was filled.
LEMMA KickStep ==
  ASSUME IInv, NEW w \in Writers, Kick(w)
  PROVE  IInv'
<1>1. /\ Owner(w) /\ pc[w] = "copy"
      /\ UNCHANGED <<loaded, delexp, opened, expunge, tx, semq, slot, reads,
                     fwCount, writes>>
  BY DEF Kick, driverVars
<1>2. Unrecorded = 0 /\ \A v \in Writers : v # w => pc[v] \in {"idle", "wait"}
  BY <1>1, OneUnrecorded
<1>3. slot \in Slots /\ slot = tx.next % 4 /\ tx.inuse < 4
  BY <1>1 DEF IInv, TypeOK, SlotHeld, ZZNET_TX_SLOTS
<1>4. fwq' = Append(fwq, slot)
  BY <1>3, WordNamesSlot DEF Kick
<1>5. fwq \in Seq(Slots) /\ tx.inuse \in Nat /\ tx.next \in Nat
  BY DEF IInv, TypeOK, Bytes
<1>6. /\ fwq' \in Seq(Slots) /\ Len(fwq') = Len(fwq) + 1
      /\ fwq'[Len(fwq) + 1] = slot
      /\ \A i \in 1..Len(fwq) : fwq'[i] = fwq[i]
  BY <1>3, <1>4, <1>5
<1>7. /\ pc' \in [Writers -> {"idle", "wait", "copy", "kicked"}]
      /\ pc'[w] = "kicked" /\ \A v \in Writers : v # w => pc'[v] = pc[v]
  BY DEF IInv, TypeOK, Kick
<1>8. Unrecorded' = 1
  BY <1>7 DEF Unrecorded
<1>9. TypeOK'
  BY <1>1, <1>6, <1>7 DEF IInv, TypeOK
<1>10. TxAccounting'
  <2>. DEFINE seen == (fwCount - tx.done) % ZZNET_TX_COUNTS
  <2>1. seen + Len(fwq) = tx.inuse + Unrecorded
    BY DEF IInv, TxAccounting
  <2>2. seen \in Nat
    BY SeenNat DEF IInv, TypeOK
  <2>3. seen + Len(fwq') = tx.inuse + 1 /\ tx.inuse + 1 <= 4
    <3>. HIDE DEF seen
    <3>. QED BY <1>2, <1>3, <1>5, <1>6, <2>1, <2>2
  <2>. QED
    BY <1>1, <1>8, <2>3 DEF TxAccounting, ZZNET_TX_SLOTS
<1>11. QueueInOrder'
  <2>1. SUFFICES ASSUME NEW i \in 1..Len(fwq')
                 PROVE  fwq'[i] = (tx.next + 1 - Len(fwq') + i - 1) % 4
    BY <1>1, <1>8 DEF QueueInOrder
  <2>2. CASE i \in 1..Len(fwq)
    <3>1. fwq[i] = (tx.next + Unrecorded - Len(fwq) + i - 1) % 4
      BY <2>2 DEF IInv, QueueInOrder
    <3>2. tx.next + Unrecorded - Len(fwq) + i - 1
            = tx.next + 1 - Len(fwq') + i - 1
      BY <1>2, <1>5, <1>6
    <3>. QED
      BY <1>6, <2>2, <3>1, <3>2
  <2>3. CASE i = Len(fwq) + 1
    <3>1. tx.next + 1 - Len(fwq') + i - 1 = tx.next
      BY <1>5, <1>6, <2>3
    <3>. QED
      BY <1>3, <1>6, <2>3, <3>1
  <2>. QED
    BY <1>5, <1>6, <2>2, <2>3
<1>12. SlotHeld'
  BY <1>1, <1>2, <1>3, <1>7 DEF SlotHeld, Owner, ZZNET_TX_SLOTS
<1>13. SemQueue' /\ Lifecycle'
  BY <1>1, <1>7 DEF IInv, SemQueue, Lifecycle, TypeOK
<1>. QED
  BY <1>9, <1>10, <1>11, <1>12, <1>13 DEF IInv

\* zznet_tx_submitted: the uint8_t counters wrap in step with the slots.
LEMMA SubmittedStep ==
  ASSUME IInv, NEW w \in Writers, Submitted(w)
  PROVE  IInv'
<1>1. /\ Owner(w) /\ pc[w] = "kicked" /\ Return(w) /\ loaded
      /\ UNCHANGED <<loaded, delexp, opened, expunge, slot, fwq, fwCount,
                     writes>>
  BY SenderOwner DEF Submitted, driverVars
<1>2. Unrecorded = 1
  BY <1>1, OneUnrecorded
<1>3. /\ tx.done \in Counts /\ tx.next \in Nat /\ tx.inuse \in Nat
      /\ tx.inuse < 4 /\ fwq \in Seq(Slots)
  BY <1>1 DEF IInv, TypeOK, SlotHeld, Bytes, ZZNET_TX_SLOTS
<1>4. (tx.inuse + 1) % 256 = tx.inuse + 1
  BY <1>3
<1>5. tx' = [done |-> tx.done, next |-> (tx.next + 1) % 256,
             inuse |-> tx.inuse + 1]
  BY <1>4 DEF Submitted, zznet_tx_submitted
<1>6. /\ pc' \in [Writers -> {"idle", "wait", "copy", "kicked"}]
      /\ Unrecorded' = 0 /\ semq' \in Seq(Writers) /\ reads' \in Nat
      /\ SlotHeld' /\ SemQueue'
  BY <1>1, ReturnStep
<1>7. TypeOK'
  <2>1. (tx.next + 1) % 256 \in Bytes /\ tx.inuse + 1 \in Bytes
    BY <1>3 DEF Bytes
  <2>2. tx' \in [done : Counts, next : Bytes, inuse : Bytes]
    BY <1>3, <1>5, <2>1
  <2>. QED
    BY <1>1, <1>6, <2>2 DEF IInv, TypeOK
<1>8. TxAccounting'
  <2>1. tx'.done = tx.done /\ tx'.inuse + 0 = tx.inuse + 1
    BY <1>3, <1>5
  <2>. QED
    BY <1>1, <1>2, <1>6, <2>1 DEF IInv, TxAccounting
<1>9. QueueInOrder'
  <2>1. SUFFICES ASSUME NEW i \in 1..Len(fwq)
                 PROVE  fwq[i]
                          = (((tx.next + 1) % 256) + 0 - Len(fwq) + i - 1) % 4
    BY <1>1, <1>5, <1>6 DEF QueueInOrder
  <2>2. fwq[i] = (tx.next + 1 - Len(fwq) + i - 1) % 4
    BY <1>2 DEF IInv, QueueInOrder
  <2>. DEFINE b == i - 1 - Len(fwq)
  <2>3. b \in Int /\ tx.next \in Int
    BY <1>3
  <2>4. (((tx.next + 1) % 256) + b) % 4 = (tx.next + 1 + b) % 4
    <3>. HIDE DEF b
    <3>. QED BY <2>3, PhaseKept
  <2>5. /\ ((tx.next + 1) % 256) + 0 - Len(fwq) + i - 1
             = ((tx.next + 1) % 256) + b
        /\ tx.next + 1 - Len(fwq) + i - 1 = tx.next + 1 + b
    BY <1>3
  <2>. QED
    BY <2>2, <2>4, <2>5
<1>10. Lifecycle'
  BY <1>1 DEF IInv, Lifecycle
<1>. QED
  BY <1>6, <1>7, <1>8, <1>9, <1>10 DEF IInv

\* Every step keeps the invariant.
LEMMA StepIInv == IInv /\ [Next]_vars => IInv'
<1>. SUFFICES ASSUME IInv, [Next]_vars PROVE IInv'
  OBVIOUS
<1>1. CASE FwRetire \/ FwRestart
  BY <1>1, CardStep
<1>2. CASE DevInit
  BY <1>2, DevInitStep
<1>3. CASE DevExpunge \/ \E w \in Writers : DevOpen(w) \/ DevClose(w)
  BY <1>3, OpenCloseStep
<1>4. CASE DrainRead \/ DrainDone
  BY <1>4, DrainStep
<1>5. ASSUME NEW w \in Writers, BeginWrite(w) \/ SenderStep(w) PROVE IInv'
  BY <1>5, BeginWriteStep, WaitReadStep, NothingSentStep, TakeSlotStep,
     KickStep, SubmittedStep DEF SenderStep
<1>6. CASE UNCHANGED vars
  BY <1>6 DEF IInv, TypeOK, TxAccounting, QueueInOrder, SlotHeld, SemQueue,
              Lifecycle, Unrecorded, vars
<1>. QED
  BY <1>1, <1>2, <1>3, <1>4, <1>5, <1>6 DEF Next

\* The invariant holds of every behaviour.
LEMMA SpecIInv == Spec => []IInv
BY InitIInv, StepIInv, PTL DEF Spec

-----------------------------------------------------------------------------
(* What follows.                                                           *)

\* Every variable of the send path keeps its type.
THEOREM TxTypeOK == Spec => []TypeOK
<1>1. IInv => TypeOK
  BY DEF IInv
<1>. QED
  BY <1>1, SpecIInv, PTL

\* The driver's count of outstanding sends is exact (zznet_tx_reclaim).
THEOREM TxAccountingHolds == Spec => []TxAccounting
<1>1. IInv => TxAccounting
  BY DEF IInv
<1>. QED
  BY <1>1, SpecIInv, PTL

\* write_frame_async never fills a slot the card may still be reading.
THEOREM TxNoDmaOverwrite == Spec => []NoDmaOverwrite
<1>1. IInv => NoDmaOverwrite
  <2>. SUFFICES ASSUME IInv, NEW w \in Writers, pc[w] = "copy",
                       NEW i \in 1..Len(fwq)
                PROVE  fwq[i] # slot
    BY DEF NoDmaOverwrite
  <2>1. /\ Owner(w) \/ expunge = "drain"
        /\ slot = tx.next % 4 /\ tx.inuse < 4
        /\ tx.next \in Nat /\ tx.inuse \in Nat /\ fwq \in Seq(Slots)
    BY DEF IInv, TypeOK, SlotHeld, Bytes, ZZNET_TX_SLOTS, Owner
  <2>2. Unrecorded = 0
    <3>1. Owner(w)
      BY <2>1, SenderOwner
    <3>. QED
      BY <3>1, OneUnrecorded
  <2>3. Len(fwq) <= 3
    <3>. DEFINE seen == (fwCount - tx.done) % ZZNET_TX_COUNTS
    <3>1. seen + Len(fwq) = tx.inuse + Unrecorded
      BY DEF IInv, TxAccounting
    <3>2. seen \in Nat
      BY SeenNat DEF IInv, TypeOK
    <3>. HIDE DEF seen
    <3>. QED
      BY <2>1, <2>2, <3>1, <3>2
  <2>4. fwq[i] = (tx.next + 0 - Len(fwq) + i - 1) % 4
    BY <2>2 DEF IInv, QueueInOrder
  <2>. DEFINE b == tx.next + 0 - Len(fwq) + i - 1
  <2>5. b \in Int /\ tx.next \in Int /\ 1 <= tx.next - b /\ tx.next - b <= 3
    BY <2>1, <2>3
  <2>6. tx.next % 4 # b % 4
    <3>. HIDE DEF b
    <3>. QED BY <2>5, SlotsDiffer
  <2>. QED
    BY <2>1, <2>4, <2>6
<1>. QED
  BY <1>1, SpecIInv, PTL

\* An unloaded driver has left no frame in the card's hands (DevExpunge).
THEOREM TxNoOrphanDma == Spec => []NoOrphanDma
<1>1. IInv => NoOrphanDma
  <2>. SUFFICES ASSUME IInv, ~loaded PROVE fwq = <<>>
    BY DEF NoOrphanDma
  <2>1. opened = {} /\ tx.inuse = 0
    BY DEF IInv, Lifecycle
  <2>2. Unrecorded = 0
    BY <2>1, NoneOpen
  <2>. DEFINE seen == (fwCount - tx.done) % ZZNET_TX_COUNTS
  <2>3. seen + Len(fwq) = 0
    BY <2>1, <2>2 DEF IInv, TxAccounting
  <2>4. seen \in Nat /\ fwq \in Seq(Slots)
    BY SeenNat DEF IInv, TypeOK
  <2>. HIDE DEF seen
  <2>. QED
    BY <2>3, <2>4
<1>. QED
  BY <1>1, SpecIInv, PTL

\* The send path implements TxSlots: a slot is filled only while nobody owns
\* it and goes to the card once.
THEOREM TxRefinesSlots == Spec => SlotSpec
<1>1. Init => Slot!Init
  BY DEF Init, Slot!Init, Filling
<1>2. IInv /\ NoDmaOverwrite' /\ [Next]_vars => [Slot!Next]_<<Filling, fwq>>
  <2>. SUFFICES ASSUME IInv, NoDmaOverwrite', [Next]_vars
                PROVE  [Slot!Next]_<<Filling, fwq>>
    OBVIOUS
  <2>1. CASE FwRetire \/ FwRestart
    <3>1. UNCHANGED Filling
      BY <2>1 DEF FwRetire, FwRestart, Filling
    <3>. QED
      BY <2>1, <3>1
         DEF FwRetire, FwRestart, Slot!Next, Slot!Retire, Slot!Restart
  <2>2. CASE UNCHANGED <<pc, slot, fwq>>
    BY <2>2 DEF Filling
  <2>3. ASSUME NEW w \in Writers,
               BeginWrite(w) \/ GiveUp(w) \/ Submitted(w)
        PROVE  UNCHANGED <<Filling, fwq>>
    <3>1. UNCHANGED <<slot, fwq>>
      BY <2>3 DEF BeginWrite, GiveUp, Submitted
    <3>2. \A v \in Writers : pc'[v] = "copy" <=> pc[v] = "copy"
      BY <2>3 DEF IInv, TypeOK, BeginWrite, GiveUp, Submitted, Return
    <3>. QED
      BY <3>1, <3>2 DEF Filling
  <2>4. ASSUME NEW w \in Writers, TakeSlot(w) PROVE Slot!Next
    <3>1. Owner(w) /\ pc[w] = "wait" /\ UNCHANGED fwq
      BY <2>4 DEF TakeSlot
    <3>2. /\ \A v \in Writers : pc[v] # "copy"
          /\ pc'[w] = "copy"
      BY <2>4, <3>1, OneUnrecorded DEF IInv, TypeOK, TakeSlot
    <3>3. Filling = {} /\ Filling' = {slot'}
      BY <3>2 DEF Filling
    <3>4. slot' \in Slots
      BY <2>4, TakeSlotStep DEF IInv, TypeOK
    <3>5. \A i \in 1..Len(fwq) : fwq[i] # slot'
      BY <3>1, <3>2 DEF NoDmaOverwrite
    <3>6. Slot!Take(slot')
      BY <3>1, <3>3, <3>5 DEF Slot!Take, Slot!OnCard
    <3>. QED
      BY <3>4, <3>6 DEF Slot!Next
  <2>5. ASSUME NEW w \in Writers, NoSubmit(w) \/ Kick(w) PROVE Slot!Next
    <3>1. Owner(w) /\ pc[w] = "copy" /\ UNCHANGED slot
      BY <2>5 DEF NoSubmit, Kick
    <3>2. \A v \in Writers : pc'[v] # "copy"
      BY <2>5, <3>1, OneUnrecorded DEF IInv, TypeOK, NoSubmit, Kick, Return
    <3>3. Filling = {slot} /\ Filling' = {} /\ slot \in Slots
      BY <3>1, <3>2 DEF Filling, IInv, TypeOK
    <3>4. CASE NoSubmit(w)
      <4>1. Slot!Drop(slot)
        BY <3>3, <3>4 DEF NoSubmit, Slot!Drop
      <4>. QED
        BY <3>3, <4>1 DEF Slot!Next
    <3>5. CASE Kick(w)
      <4>1. fwq' = Append(fwq, slot)
        BY <3>3, <3>5, WordNamesSlot DEF Kick
      <4>2. Slot!Submit(slot)
        BY <3>3, <4>1 DEF Slot!Submit
      <4>. QED
        BY <3>3, <4>2 DEF Slot!Next
    <3>. QED
      BY <2>5, <3>4, <3>5
  <2>6. CASE \/ DevInit \/ DevExpunge \/ DrainRead \/ DrainDone
             \/ \E w \in Writers : DevOpen(w) \/ DevClose(w) \/ WaitRead(w)
    BY <2>2, <2>6 DEF DevInit, DevExpunge, DrainRead, DrainDone, DevOpen,
                      DevClose, WaitRead
  <2>7. CASE UNCHANGED vars
    BY <2>2, <2>7 DEF vars
  <2>. QED
    BY <2>1, <2>3, <2>4, <2>5, <2>6, <2>7 DEF Next, SenderStep
<1>3. Spec => []NoDmaOverwrite
  BY TxNoDmaOverwrite
<1>. QED
  BY <1>1, <1>2, <1>3, SpecIInv, PTL DEF Spec, SlotSpec, Slot!Spec
=============================================================================
