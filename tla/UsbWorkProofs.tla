--------------------------- MODULE UsbWorkProofs ---------------------------
(***************************************************************************)
(* The work queue of zzusbhw.device replies every request exactly once,    *)
(* with the right result, for any number of requests, units and slots and  *)
(* every wrap of WorkSequence.                                             *)
(***************************************************************************)
EXTENDS UsbWork, FiniteSetTheorems, WellFoundedInduction, TLAPS

-----------------------------------------------------------------------------
(* The inductive invariant.                                                *)

Lives == [state : {"queued", "in_flight"}, id : 0..(SeqMod - 1),
          abort : BOOLEAN, claimed : {FALSE}]

\* A slot is empty, or holds a request that is queued or running.
Holds(s) ==
  /\ slots[s].ior \in Iors /\ slots[s].life \in Lives
  /\ slots[s].life.state = "queued" => ~slots[s].life.abort
  /\ slots[s].life.state = "in_flight" <=> active = s
  /\ slots[s].life.state = "in_flight" =>
       slots[s].life.id = slots[s].seq /\ slots[s].seq # 0 /\ slots[s].delay = 0

SlotKind == \A s \in Slots : slots[s] = EmptySlot \/ Holds(s)

\* The queue is a strict order of the slots in use.
QueueOrder ==
  \A s \in Slots :
    /\ ahead[s] \subseteq Used \ {s}
    /\ \A t \in ahead[s] : ahead[t] \subseteq ahead[s]

\* What the poll task has in hand at each place of its loop.
InHand ==
  /\ wpc \in {"execute", "finish"} <=> active # 0
  /\ active # 0 => InUse(active)
  /\ wpc = "finish" =>
       \/ err[slots[active].ior] = "done"
       \/ err[slots[active].ior] = "nak" /\ slots[active].ior \in Waits
  /\ wpc \in {"account", "publish"} =>
       retry.slot \in Slots /\ retry.ior \in Waits /\ retry.seq # 0

\* A request is replied at most once; one that an abort or a flush removed is
\* not replied yet and says so.
Removed ==
  /\ \A i \in Iors :
       /\ replies[i] \in {0, 1}
       /\ cpc[i] = "own" => replies[i] = 1
       /\ cpc[i] = "reply" => replies[i] = 0 /\ err[i] = "aborted"
  /\ \A u \in Units : \A i \in owed[u] :
       /\ UnitOf[i] = u /\ replies[i] = 0 /\ err[i] = "aborted"
       /\ cpc[i] \in {"signal", "sent"}

IInv == /\ TypeOK /\ SlotKind /\ QueueOrder /\ InHand /\ Removed
        /\ HeldByDriver /\ BackoffOfRetried

-----------------------------------------------------------------------------
(* Choices from nonempty sets.                                             *)

\* A nonempty set of naturals has a least element.
LEMMA LeastNatural ==
  ASSUME NEW S \in SUBSET Nat, S # {}
  PROVE  \E m \in S : \A n \in S : m <= n
<1>1. PICK m \in S : \A n \in S : <<n, m>> \notin OpToRel(<, Nat)
  BY NatLessThanWellFounded, WFMin, Zenon
<1>2. \A n \in S : m <= n
  <2> SUFFICES ASSUME NEW n \in S
               PROVE  m <= n
    OBVIOUS
  <2>1. ~(n < m)
    BY <1>1, Zenon DEF OpToRel
  <2> QED  BY <2>1
<1> QED  BY <1>2

\* enqueue_work's scan of WorkSlots[] ends at a free slot if there is one.
LEMMA FirstIsFree ==
  ASSUME Free # {}
  PROVE  First(Free) \in Slots /\ ~InUse(First(Free))
<1>1. Free \in SUBSET Nat /\ Free \subseteq Slots
  BY SizesAssumption DEF Free, Slots
<1>2. First(Free) \in Free
  BY <1>1, LeastNatural DEF First
<1> QED  BY <1>1, <1>2 DEF Free

\* process_work_queue finds a ready slot when work_queue_pending says so.
LEMMA PickIsReady ==
  ASSUME TypeOK, QueueOrder, work_queue_pending
  PROVE  Pick \in Slots /\ Ready(Pick)
<1> DEFINE Rank(s) == Cardinality(ahead[s])
           Ranks == {Rank(s) : s \in {t \in Slots : Ready(t)}}
<1>1. IsFiniteSet(Slots)
  BY FS_Interval, SizesAssumption DEF Slots
<1>2. \A s \in Slots : IsFiniteSet(ahead[s]) /\ Rank(s) \in Nat
  BY <1>1, FS_Subset, FS_CardinalityType DEF TypeOK
<1>3. Ranks \in SUBSET Nat /\ Ranks # {}
  BY <1>2 DEF work_queue_pending
<1>4. PICK m \in Ranks : \A n \in Ranks : m <= n
  BY <1>3, LeastNatural
<1>5. PICK s \in Slots : Ready(s) /\ m = Rank(s)
  BY <1>4
<1>6. \A t \in ahead[s] : ~Ready(t)
  <2> SUFFICES ASSUME NEW t \in ahead[s], Ready(t)
               PROVE  FALSE
    OBVIOUS
  <2>1. t \in Slots
    BY DEF TypeOK
  <2>2. ahead[t] \subseteq ahead[s] /\ t \notin ahead[t]
    BY <2>1 DEF QueueOrder
  <2>3. Rank(t) < Rank(s)
    BY <1>2, <2>1, <2>2, FS_Subset
  <2>4. Rank(t) \in Ranks
    BY <2>1
  <2> QED  BY <1>2, <1>4, <1>5, <2>1, <2>3, <2>4
<1> QED  BY <1>5, <1>6 DEF Pick

-----------------------------------------------------------------------------
(* What steps do to the queue.                                             *)

\* Slots that are cleared leave the queue, the others keep their order.
LEMMA LeavingKeepsOrder ==
  ASSUME TypeOK, QueueOrder, NEW gone \in SUBSET Slots, ahead' = Leaving(gone),
         Used' = Used \ gone
  PROVE  QueueOrder' /\ ahead' \in [Slots -> SUBSET Slots]
<1>1. \A s \in Slots : ahead'[s] = IF s \in gone THEN {} ELSE ahead[s] \ gone
  BY DEF Leaving
<1>2. ahead' \in [Slots -> SUBSET Slots]
  BY DEF Leaving, TypeOK
<1>3. ASSUME NEW s \in Slots
      PROVE  ahead'[s] \subseteq Used' \ {s}
  <2>1. ahead[s] \subseteq Used \ {s}
    BY DEF QueueOrder
  <2> QED  BY <1>1, <2>1
<1>4. ASSUME NEW s \in Slots, NEW t \in ahead'[s]
      PROVE  ahead'[t] \subseteq ahead'[s]
  <2>1. s \notin gone /\ t \in ahead[s] /\ t \notin gone /\ t \in Slots
    BY <1>1 DEF TypeOK
  <2>2. ahead[t] \subseteq ahead[s]
    BY <2>1 DEF QueueOrder
  <2> QED  BY <1>1, <2>1, <2>2
<1> QED  BY <1>2, <1>3, <1>4 DEF QueueOrder

\* A slot that is enqueued or retried goes behind all others.
LEMMA BehindKeepsOrder ==
  ASSUME TypeOK, QueueOrder, NEW s \in Slots, ahead' = Behind(s), Used' = Used \cup {s}
  PROVE  QueueOrder' /\ ahead' \in [Slots -> SUBSET Slots]
<1>1. \A t \in Slots : ahead'[t] = IF t = s THEN Used \ {s} ELSE ahead[t] \ {s}
  BY DEF Behind
<1>2. ahead' \in [Slots -> SUBSET Slots]
  BY DEF Behind, TypeOK, Used
<1>3. ASSUME NEW t \in Slots
      PROVE  ahead'[t] \subseteq Used' \ {t}
  <2>1. ahead[t] \subseteq Used \ {t}
    BY DEF QueueOrder
  <2> QED  BY <1>1, <2>1
<1>4. ASSUME NEW t \in Slots, NEW v \in ahead'[t]
      PROVE  ahead'[v] \subseteq ahead'[t]
  <2>1. v # s /\ v \in Slots /\ ahead'[v] = ahead[v] \ {s}
    BY <1>1 DEF TypeOK, Used
  <2>2. ahead[v] \subseteq Used
    BY <2>1 DEF QueueOrder
  <2>3. CASE t = s
    BY <1>1, <2>1, <2>2, <2>3
  <2>4. CASE t # s
    <3>1. v \in ahead[t]
      BY <1>1, <2>4
    <3>2. ahead[v] \subseteq ahead[t]
      BY <3>1 DEF QueueOrder
    <3> QED  BY <1>1, <2>1, <2>4, <3>2
  <2> QED  BY <2>3, <2>4
<1> QED  BY <1>2, <1>3, <1>4 DEF QueueOrder

\* Only the backoff of queued requests changes.
OnlyDelays ==
  /\ slots' \in [Slots -> SlotRecords]
  /\ \A s \in Slots :
       \/ slots'[s] = slots[s]
       \/ /\ InUse(s) /\ slots[s].life.state = "queued"
          /\ slots'[s].ior = slots[s].ior /\ slots'[s].life = slots[s].life
          /\ slots'[s].seq = slots[s].seq

\* Such a step disturbs neither the slots' contents nor their queue.
LEMMA OnlyDelaysKeeps ==
  ASSUME IInv, OnlyDelays, UNCHANGED <<ahead, active, callerVars, owed>>
  PROVE  SlotKind' /\ QueueOrder' /\ Removed' /\ HeldByDriver'
<1> USE NoIorAssumption DEF IInv
<1>1. \A s \in Slots : slots'[s].ior = slots[s].ior /\ slots'[s].life = slots[s].life
  BY DEF OnlyDelays
<1>2. SlotKind'
  <2> SUFFICES ASSUME NEW s \in Slots
               PROVE  slots'[s] = EmptySlot \/ Holds(s)'
    BY DEF SlotKind
  <2>1. CASE slots'[s] = slots[s]
    BY <2>1 DEF SlotKind, Holds
  <2>2. CASE /\ InUse(s) /\ slots[s].life.state = "queued"
             /\ slots'[s].ior = slots[s].ior /\ slots'[s].life = slots[s].life
    <3>1. Holds(s)
      BY <2>2 DEF SlotKind, InUse, EmptySlot
    <3> QED  BY <2>2, <3>1 DEF Holds
  <2> QED  BY <2>1, <2>2 DEF OnlyDelays
<1>3. QueueOrder'
  BY <1>1 DEF QueueOrder, Used, InUse
<1>4. Removed'
  BY DEF Removed, callerVars
<1>5. HeldByDriver'
  BY <1>1 DEF HeldByDriver, SlotsOf, InUse, callerVars
<1> QED  BY <1>2, <1>3, <1>4, <1>5

\* work_queue_advance_delay shortens delays and starts none.
LEMMA AdvanceDelays ==
  ASSUME IInv, NEW e \in Nat, slots' = work_queue_advance_delay(e)
  PROVE  OnlyDelays /\ BackoffOfRetried'
<1> USE SizesAssumption, NoIorAssumption DEF IInv
<1>1. ASSUME NEW s \in Slots
      PROVE  /\ slots'[s] \in SlotRecords
             /\ slots'[s] = slots[s] \/
                  (/\ InUse(s) /\ slots[s].life.state = "queued"
                   /\ slots'[s].ior = slots[s].ior /\ slots'[s].life = slots[s].life
                   /\ slots'[s].seq = slots[s].seq)
             /\ slots'[s].delay # 0 => slots'[s].seq # 0 /\ slots'[s].ior \in Waits
  <2>1. slots[s] \in SlotRecords
    BY DEF TypeOK
  <2>2. CASE s \in Delayed
    <3>1. PICK d \in 0..Backoff :
            slots'[s] = [slots[s] EXCEPT !.delay = d]
      BY <2>1, <2>2 DEF work_queue_advance_delay, SlotRecords
    <3>2. slots'[s] \in SlotRecords /\ slots'[s].ior = slots[s].ior
          /\ slots'[s].life = slots[s].life /\ slots'[s].seq = slots[s].seq
      BY <2>1, <3>1 DEF SlotRecords
    <3> QED  BY <2>2, <3>2 DEF Delayed, BackoffOfRetried
  <2>3. CASE s \notin Delayed
    BY <2>1, <2>3 DEF work_queue_advance_delay, BackoffOfRetried
  <2> QED  BY <2>2, <2>3
<1>2. slots' \in [Slots -> SlotRecords]
  BY <1>1 DEF work_queue_advance_delay
<1> QED  BY <1>1, <1>2 DEF OnlyDelays, BackoffOfRetried

-----------------------------------------------------------------------------
(* One lemma per step of a caller.                                         *)

\* enqueue_work: the new request is in one slot only, last in the queue.
LEMMA EnqueueKeeps ==
  ASSUME NEW i \in Iors, IInv, Enqueue(i)
  PROVE  IInv'
<1> USE NoIorAssumption, SizesAssumption DEF IInv
<1>1. PICK s \in Slots : s = First(Free) /\ ~InUse(s)
  BY FirstIsFree DEF Enqueue
<1>2. slots' = [slots EXCEPT ![s] = [ior |-> i, seq |-> 0, delay |-> 0,
                 life |-> [state |-> "queued", id |-> 0, abort |-> FALSE, claimed |-> FALSE]]]
  BY <1>1 DEF Enqueue, zzusb_engine_queue, FreeLife
<1>3. \A t \in Slots : slots[t].ior # i
  BY DEF Enqueue, HeldByDriver, InUse
<1>4. \A u \in Units : i \notin owed[u]
  BY DEF Enqueue, Removed
<1>5. TypeOK'
  <2>1. slots'[s] \in SlotRecords
    BY <1>1, <1>2 DEF TypeOK, SlotRecords, LifeRecords
  <2>2. slots' \in [Slots -> SlotRecords]
    BY <1>1, <1>2, <2>1 DEF TypeOK
  <2> QED  BY <1>1, <2>2 DEF Enqueue, TypeOK, Behind, Used, timerVars
<1>6. SlotKind'
  <2>1. Holds(s)'
    <3>1. active # s
      BY <1>1 DEF InHand, InUse, Slots
    <3>2. slots'[s].life = [state |-> "queued", id |-> 0, abort |-> FALSE, claimed |-> FALSE]
      BY <1>1, <1>2 DEF TypeOK
    <3>3. slots'[s].life \in Lives
      BY <3>2 DEF Lives
    <3> QED  BY <1>1, <1>2, <3>1, <3>2, <3>3 DEF Enqueue, TypeOK, Holds
  <2>2. ASSUME NEW t \in Slots, t # s
        PROVE  slots'[t] = EmptySlot \/ Holds(t)'
    BY <1>1, <1>2, <2>2 DEF Enqueue, TypeOK, SlotKind, Holds
  <2> QED  BY <2>1, <2>2 DEF SlotKind
<1>7. QueueOrder'
  <2>1. Used' = Used \cup {s}
    BY <1>1, <1>2 DEF TypeOK, Used, InUse
  <2> QED  BY <1>1, <2>1, BehindKeepsOrder DEF Enqueue
<1>8. InHand'
  BY <1>1, <1>2, <1>3 DEF Enqueue, TypeOK, InHand, InUse
<1>9. Removed'
  BY <1>4 DEF Enqueue, TypeOK, Removed
<1>10. HeldByDriver'
  BY <1>1, <1>2, <1>3, <1>4 DEF Enqueue, TypeOK, HeldByDriver, SlotsOf, InUse
<1>11. BackoffOfRetried'
  BY <1>1, <1>2 DEF Enqueue, TypeOK, BackoffOfRetried
<1> QED  BY <1>5, <1>6, <1>7, <1>8, <1>9, <1>10, <1>11

\* begin_io without a free slot: the caller has its request back at once.
LEMMA RefuseKeeps ==
  ASSUME NEW i \in Iors, IInv, Refuse(i)
  PROVE  IInv'
<1> USE NoIorAssumption DEF IInv, Refuse, queueVars, timerVars
<1>1. \A t \in Slots : slots[t].ior # i
  BY DEF HeldByDriver, InUse
<1>2. TypeOK'
  BY DEF TypeOK
<1>3. SlotKind' /\ QueueOrder' /\ BackoffOfRetried'
  BY DEF SlotKind, Holds, QueueOrder, Used, InUse, BackoffOfRetried
<1>4. InHand'
  BY <1>1 DEF TypeOK, InHand, InUse
<1>5. Removed'
  BY DEF TypeOK, Removed
<1>6. HeldByDriver'
  BY <1>1 DEF TypeOK, HeldByDriver, SlotsOf, InUse
<1> QED  BY <1>2, <1>3, <1>4, <1>5, <1>6

\* The signal to the poll task touches nothing of the request.
LEMMA SignalWorkerKeeps ==
  ASSUME NEW i \in Iors, IInv, SignalWorker(i)
  PROVE  IInv'
<1> USE DEF IInv, SignalWorker, queueVars, timerVars
<1>1. TypeOK'
  BY DEF TypeOK
<1>2. SlotKind' /\ QueueOrder' /\ BackoffOfRetried' /\ InHand'
  BY DEF SlotKind, Holds, QueueOrder, Used, InUse, BackoffOfRetried, InHand
<1>3. Removed'
  BY DEF TypeOK, Removed
<1>4. HeldByDriver'
  BY DEF TypeOK, HeldByDriver, SlotsOf, InUse
<1> QED  BY <1>1, <1>2, <1>3, <1>4

\* zzusb_engine_abort of a request in a slot: a queued one is terminal and its
\* reply can be claimed, a running one is flagged.
LEMMA AbortLife ==
  ASSUME NEW l \in Lives, l.state = "queued" => ~l.abort
  PROVE  /\ l.state = "queued" => /\ zzusb_engine_abort(l).state = "terminal"
                                  /\ Claims(zzusb_engine_abort(l))
         /\ l.state = "in_flight" => zzusb_engine_abort(l) = [l EXCEPT !.abort = TRUE]
BY DEF Lives, zzusb_engine_abort, make_terminal, Claims

\* The state of a request in a slot.
LEMMA InUseHolds ==
  ASSUME IInv, NEW s \in Slots, InUse(s)
  PROVE  Holds(s)
BY DEF IInv, SlotKind, InUse, EmptySlot

\* One slot is cleared, the request in it is no longer the queue's.
LEMMA ClearKeeps ==
  ASSUME IInv, NEW s \in Slots, InUse(s), slots' = [slots EXCEPT ![s] = EmptySlot],
         ahead' = Leaving({s}), active' \in {active, 0}, active' # s
  PROVE  /\ slots' \in [Slots -> SlotRecords] /\ ahead' \in [Slots -> SUBSET Slots]
         /\ QueueOrder' /\ BackoffOfRetried'
         /\ active' = active \/ (active = s /\ active' = 0) => SlotKind'
<1> USE NoIorAssumption, SizesAssumption DEF IInv
<1>1. EmptySlot \in SlotRecords
  BY DEF EmptySlot, SlotRecords, FreeLife, LifeRecords
<1>2. slots' \in [Slots -> SlotRecords]
  BY <1>1 DEF TypeOK
<1>3. Used' = Used \ {s}
  BY DEF Used, InUse, TypeOK, EmptySlot
<1>4. QueueOrder' /\ ahead' \in [Slots -> SUBSET Slots]
  BY <1>3, LeavingKeepsOrder
<1>5. BackoffOfRetried'
  BY DEF BackoffOfRetried, TypeOK, EmptySlot
<1>6. ASSUME active' = active \/ (active = s /\ active' = 0)
      PROVE  SlotKind'
  <2> SUFFICES ASSUME NEW t \in Slots, t # s
               PROVE  slots'[t] = EmptySlot \/ Holds(t)'
    BY DEF SlotKind, TypeOK
  <2>1. slots'[t] = slots[t]
    BY DEF TypeOK
  <2>2. active' = t <=> active = t
    BY <1>6 DEF Slots
  <2> QED  BY <2>1, <2>2 DEF SlotKind, Holds
<1> QED  BY <1>2, <1>4, <1>5, <1>6

\* abort_work_ior of a queued request.
LEMMA AbortQueuedKeeps ==
  ASSUME NEW i \in Iors, IInv, AbortQueued(i)
  PROVE  IInv'
<1> USE NoIorAssumption DEF IInv
<1>1. PICK s \in Slots :
        /\ slots[s].ior = i
        /\ zzusb_engine_abort(slots[s].life).state = "terminal"
        /\ slots' = [slots EXCEPT ![s] = EmptySlot]
        /\ ahead' = Leaving({s})
        /\ cpc' = [cpc EXCEPT ![i] = IF Claims(zzusb_engine_abort(slots[s].life))
                                     THEN "reply" ELSE "signal"]
  BY DEF AbortQueued, SlotsOf
<1>2. InUse(s) /\ Holds(s)
  BY <1>1, InUseHolds DEF InUse
<1>3. slots[s].life.state = "queued" /\ Claims(zzusb_engine_abort(slots[s].life))
  BY <1>1, <1>2, AbortLife DEF Holds, Lives
<1>4. active # s /\ UNCHANGED <<workSeq, active, wpc, retry, sig, timer, passed, poll, replies, owed>>
  BY <1>2, <1>3 DEF Holds, AbortQueued, timerVars
<1>5. cpc' = [cpc EXCEPT ![i] = "reply"] /\ err' = [err EXCEPT ![i] = "aborted"]
  BY <1>1, <1>3 DEF AbortQueued
<1>6. replies[i] = 0 /\ cpc[i] = "sent" /\ \A u \in Units : i \notin owed[u]
  BY <1>1, <1>2 DEF HeldByDriver, AbortQueued
<1>7. \A t \in Slots : slots[t].ior = i => t = s
  BY <1>1, <1>2 DEF HeldByDriver, SlotsOf
<1>8. /\ slots' \in [Slots -> SlotRecords] /\ ahead' \in [Slots -> SUBSET Slots]
      /\ QueueOrder' /\ BackoffOfRetried' /\ SlotKind'
  BY <1>1, <1>2, <1>4, ClearKeeps
<1>9. TypeOK'
  BY <1>4, <1>5, <1>8 DEF TypeOK
<1>10. InHand'
  BY <1>1, <1>4, <1>5, <1>7 DEF TypeOK, InHand, InUse, Slots
<1>11. Removed'
  BY <1>4, <1>5, <1>6 DEF TypeOK, Removed
<1>12. HeldByDriver'
  BY <1>1, <1>4, <1>5, <1>7 DEF TypeOK, HeldByDriver, InUse, SlotsOf, EmptySlot
<1> QED  BY <1>8, <1>9, <1>10, <1>11, <1>12

\* What a flagged slot keeps.
LEMMA FlagHolds ==
  ASSUME IInv, NEW s \in Slots, InUse(s), slots[s].life.state = "in_flight",
         slots'[s] = [slots[s] EXCEPT !.life = [slots[s].life EXCEPT !.abort = TRUE]],
         active' = active
  PROVE  /\ Holds(s)' /\ slots'[s] \in SlotRecords
         /\ slots'[s].ior = slots[s].ior /\ slots'[s].seq = slots[s].seq
         /\ slots'[s].delay = slots[s].delay
<1> USE DEF IInv
<1>1. Holds(s) /\ slots[s] \in SlotRecords
  BY InUseHolds DEF TypeOK
<1>2. /\ slots'[s].ior = slots[s].ior /\ slots'[s].seq = slots[s].seq
      /\ slots'[s].delay = slots[s].delay
      /\ slots'[s].life = [slots[s].life EXCEPT !.abort = TRUE]
  BY <1>1 DEF SlotRecords
<1>3. slots'[s].life \in Lives /\ slots'[s].life.state = "in_flight"
      /\ slots'[s].life.id = slots[s].life.id
  BY <1>1, <1>2 DEF Lives, Holds
<1>4. slots'[s] \in SlotRecords
  BY <1>1 DEF SlotRecords, LifeRecords
<1> QED  BY <1>1, <1>2, <1>3, <1>4 DEF Holds

\* abort_work_ior of a running request.
LEMMA AbortRunningKeeps ==
  ASSUME NEW i \in Iors, IInv, AbortRunning(i)
  PROVE  IInv'
<1> USE NoIorAssumption DEF IInv
<1>1. PICK s \in Slots :
        /\ slots[s].ior = i
        /\ zzusb_engine_abort(slots[s].life).state # "terminal"
        /\ slots' = [slots EXCEPT ![s].life = zzusb_engine_abort(slots[s].life)]
  BY DEF AbortRunning, SlotsOf
<1>2. InUse(s) /\ Holds(s)
  BY <1>1, InUseHolds DEF InUse
<1>3. /\ slots[s].life.state = "in_flight"
      /\ zzusb_engine_abort(slots[s].life) = [slots[s].life EXCEPT !.abort = TRUE]
  BY <1>1, <1>2, AbortLife DEF Holds, Lives
<1>4. slots'[s] = [slots[s] EXCEPT !.life = [slots[s].life EXCEPT !.abort = TRUE]]
  BY <1>1, <1>3 DEF TypeOK
<1>5. \A t \in Slots : t # s => slots'[t] = slots[t]
  BY <1>1 DEF TypeOK
<1>6. /\ UNCHANGED <<ahead, workSeq, active, wpc, retry, timer, passed, poll, cpc, replies, err, owed>>
      /\ sig' = TRUE
  BY DEF AbortRunning, timerVars, callerVars
<1>7. /\ Holds(s)' /\ slots'[s] \in SlotRecords
      /\ slots'[s].ior = slots[s].ior /\ slots'[s].seq = slots[s].seq
      /\ slots'[s].delay = slots[s].delay
  BY <1>2, <1>3, <1>4, <1>6, FlagHolds
<1>8. \A t \in Slots : slots'[t].ior = slots[t].ior
  BY <1>5, <1>7
<1>9. TypeOK'
  <2>1. slots' \in [Slots -> SlotRecords]
    BY <1>1, <1>5, <1>7 DEF TypeOK
  <2> QED  BY <2>1, <1>6 DEF TypeOK
<1>10. SlotKind'
  <2> SUFFICES ASSUME NEW t \in Slots, t # s
               PROVE  slots'[t] = EmptySlot \/ Holds(t)'
    BY <1>7 DEF SlotKind
  <2> QED  BY <1>5, <1>6 DEF SlotKind, Holds
<1>11. QueueOrder' /\ HeldByDriver'
  BY <1>6, <1>8 DEF QueueOrder, Used, InUse, HeldByDriver, SlotsOf
<1>12. InHand' /\ Removed'
  BY <1>6, <1>8 DEF InHand, InUse, Removed, TypeOK, Slots
<1>13. BackoffOfRetried'
  BY <1>5, <1>7 DEF BackoffOfRetried
<1> QED  BY <1>9, <1>10, <1>11, <1>12, <1>13

\* abort_io replies a request it took from the queue.
LEMMA AbortReplyKeeps ==
  ASSUME NEW i \in Iors, IInv, AbortReply(i)
  PROVE  IInv'
<1> USE DEF IInv, AbortReply, queueVars, timerVars
<1>1. TypeOK'
  BY DEF TypeOK
<1>2. SlotKind' /\ QueueOrder' /\ BackoffOfRetried' /\ InHand'
  BY DEF SlotKind, Holds, QueueOrder, Used, InUse, BackoffOfRetried, InHand
<1>3. Removed'
  BY DEF TypeOK, Removed
<1>4. HeldByDriver'
  BY DEF TypeOK, HeldByDriver, SlotsOf, InUse
<1> QED  BY <1>1, <1>2, <1>3, <1>4

\* abort_io of a request that is not in the queue.
LEMMA AbortGoneKeeps ==
  ASSUME NEW i \in Iors, IInv, AbortGone(i)
  PROVE  IInv'
<1> USE NoIorAssumption DEF IInv, AbortGone, queueVars, timerVars
<1>1. \A t \in Slots : slots[t].ior # i
  BY DEF SlotsOf
<1>2. TypeOK'
  BY DEF TypeOK
<1>3. SlotKind' /\ QueueOrder' /\ BackoffOfRetried'
  BY DEF SlotKind, Holds, QueueOrder, Used, InUse, BackoffOfRetried
<1>4. InHand'
  BY <1>1 DEF TypeOK, InHand, InUse, Slots
<1>5. Removed'
  BY DEF TypeOK, Removed
<1>6. HeldByDriver'
  BY DEF TypeOK, HeldByDriver, SlotsOf, InUse
<1> QED  BY <1>2, <1>3, <1>4, <1>5, <1>6

\* The caller takes its request back.
LEMMA ReclaimKeeps ==
  ASSUME NEW i \in Iors, IInv, Reclaim(i)
  PROVE  IInv'
<1> USE NoIorAssumption DEF IInv, Reclaim, queueVars, timerVars
<1>1. \A t \in Slots : slots[t].ior # i
  BY DEF HeldByDriver, InUse
<1>2. TypeOK'
  BY DEF TypeOK
<1>3. SlotKind' /\ QueueOrder' /\ BackoffOfRetried'
  BY DEF SlotKind, Holds, QueueOrder, Used, InUse, BackoffOfRetried
<1>4. InHand'
  BY <1>1 DEF TypeOK, InHand, InUse, Slots
<1>5. Removed'
  BY DEF TypeOK, Removed
<1>6. HeldByDriver'
  BY <1>1 DEF TypeOK, HeldByDriver, SlotsOf, InUse
<1> QED  BY <1>2, <1>3, <1>4, <1>5, <1>6

-----------------------------------------------------------------------------
(* CMD_RESET and CMD_FLUSH.                                                *)

\* abort_unit_work removes the queued requests of the unit, which it owes a
\* reply from then on, and flags the running one.
LEMMA FlushSlots ==
  ASSUME IInv, NEW u \in Units, abort_unit_work(u)
  PROVE  \E gone \in SUBSET Slots :
           /\ \A s \in gone : Holds(s) /\ slots[s].life.state = "queued"
                              /\ UnitOf[slots[s].ior] = u
           /\ slots' \in [Slots -> SlotRecords]
           /\ \A s \in gone : slots'[s] = EmptySlot
           /\ \A s \in Slots \ gone :
                \/ slots'[s] = slots[s]
                \/ /\ InUse(s) /\ slots[s].life.state = "in_flight" /\ Unit(s) = u
                   /\ slots'[s] = [slots[s] EXCEPT !.life = [slots[s].life EXCEPT !.abort = TRUE]]
           /\ ahead' = Leaving(gone)
           /\ owed' = [owed EXCEPT ![u] = {slots[s].ior : s \in gone}]
           /\ err' = [i \in Iors |-> IF \E s \in gone : slots[s].ior = i
                                     THEN "aborted" ELSE err[i]]
<1> USE NoIorAssumption, SizesAssumption DEF IInv
<1> DEFINE mine == {s \in Slots : InUse(s) /\ Unit(s) = u}
           life == [s \in mine |-> zzusb_engine_abort(slots[s].life)]
           gone == {s \in mine : life[s].state = "terminal"}
<1>1. \A s \in mine : Holds(s) /\ InUse(s) /\ Unit(s) = u
  BY InUseHolds
<1>2. ASSUME NEW s \in mine
      PROVE  IF slots[s].life.state = "queued"
             THEN s \in gone /\ Claims(life[s])
             ELSE /\ s \notin gone /\ slots[s].life.state = "in_flight"
                  /\ life[s] = [slots[s].life EXCEPT !.abort = TRUE]
  <2>1. Holds(s) /\ slots[s].life \in Lives /\ life[s] = zzusb_engine_abort(slots[s].life)
    BY <1>1 DEF Holds
  <2>2. CASE slots[s].life.state = "queued"
    BY <2>1, <2>2, AbortLife DEF Holds
  <2>3. CASE slots[s].life.state = "in_flight"
    <3>1. life[s] = [slots[s].life EXCEPT !.abort = TRUE]
      BY <2>1, <2>3, AbortLife DEF Holds
    <3>2. life[s].state = "in_flight"
      BY <2>1, <2>3, <3>1 DEF Lives
    <3> QED  BY <2>3, <3>1, <3>2
  <2> QED  BY <2>1, <2>2, <2>3 DEF Lives
<1>3. gone \in SUBSET Slots /\ {t \in gone : Claims(life[t])} = gone
  BY <1>2
<1>4. /\ slots' = [s \in Slots |->
                     IF s \in gone THEN EmptySlot
                     ELSE IF s \in mine THEN [slots[s] EXCEPT !.life = life[s]] ELSE slots[s]]
      /\ ahead' = Leaving(gone)
      /\ owed' = [owed EXCEPT ![u] = {slots[s].ior : s \in {t \in gone : Claims(life[t])}}]
      /\ err' = [i \in Iors |-> IF \E s \in gone : slots[s].ior = i
                                THEN "aborted" ELSE err[i]]
      /\ active' = active
  BY DEF abort_unit_work
<1>5. \A s \in gone : Holds(s) /\ slots[s].life.state = "queued" /\ UnitOf[slots[s].ior] = u
  BY <1>1, <1>2 DEF Unit
<1>6. ASSUME NEW s \in Slots \ gone
      PROVE  \/ slots'[s] = slots[s]
             \/ /\ InUse(s) /\ slots[s].life.state = "in_flight" /\ Unit(s) = u
                /\ slots'[s] = [slots[s] EXCEPT !.life = [slots[s].life EXCEPT !.abort = TRUE]]
  BY <1>2, <1>4
<1>7. slots' \in [Slots -> SlotRecords]
  <2>1. EmptySlot \in SlotRecords
    BY DEF EmptySlot, SlotRecords, FreeLife, LifeRecords
  <2>2. ASSUME NEW s \in Slots
        PROVE  slots'[s] \in SlotRecords
    BY <1>4, <1>6, <2>1, FlagHolds DEF TypeOK
  <2> QED  BY <1>4, <2>2
<1>8. owed' = [owed EXCEPT ![u] = {slots[s].ior : s \in gone}]
  BY <1>3, <1>4
<1>9. \A s \in gone : slots'[s] = EmptySlot
  BY <1>3, <1>4
<1> HIDE DEF gone
<1> QED  BY <1>3, <1>4, <1>5, <1>6, <1>7, <1>8, <1>9

\* abort_unit_work keeps the invariant.
LEMMA FlushKeeps ==
  ASSUME IInv, NEW u \in Units, abort_unit_work(u)
  PROVE  IInv'
<1> USE NoIorAssumption, SizesAssumption DEF IInv
<1>1. PICK gone \in SUBSET Slots :
        /\ \A s \in gone : Holds(s) /\ slots[s].life.state = "queued"
                           /\ UnitOf[slots[s].ior] = u
        /\ slots' \in [Slots -> SlotRecords]
        /\ \A s \in gone : slots'[s] = EmptySlot
        /\ \A s \in Slots \ gone :
             \/ slots'[s] = slots[s]
             \/ /\ InUse(s) /\ slots[s].life.state = "in_flight" /\ Unit(s) = u
                /\ slots'[s] = [slots[s] EXCEPT !.life = [slots[s].life EXCEPT !.abort = TRUE]]
        /\ ahead' = Leaving(gone)
        /\ owed' = [owed EXCEPT ![u] = {slots[s].ior : s \in gone}]
        /\ err' = [i \in Iors |-> IF \E s \in gone : slots[s].ior = i
                                  THEN "aborted" ELSE err[i]]
  BY FlushSlots
<1>2. UNCHANGED <<workSeq, active, wpc, retry, sig, timer, passed, poll, cpc, replies>>
  BY DEF abort_unit_work, timerVars
<1>3. ASSUME NEW s \in Slots \ gone
      PROVE  /\ slots'[s].ior = slots[s].ior /\ slots'[s].seq = slots[s].seq
             /\ slots'[s].delay = slots[s].delay
             /\ slots'[s] = EmptySlot \/ Holds(s)'
  <2>1. CASE slots'[s] = slots[s]
    BY <1>2, <2>1 DEF SlotKind, Holds
  <2>2. CASE slots'[s] # slots[s]
    BY <1>1, <1>2, <2>2, FlagHolds
  <2> QED  BY <2>1, <2>2
<1>4. \A s \in gone : /\ InUse(s) /\ slots[s].ior \in Iors /\ active # s
                      /\ slots'[s].ior = NoIor /\ slots'[s].delay = 0
  BY <1>1 DEF InUse, Holds, EmptySlot
<1>5. Used' = Used \ gone
  BY <1>3, <1>4 DEF Used, InUse
<1>6. QueueOrder' /\ ahead' \in [Slots -> SUBSET Slots]
  BY <1>1, <1>5, LeavingKeepsOrder
<1>7. SlotKind'
  BY <1>1, <1>3 DEF SlotKind
<1>8. BackoffOfRetried'
  BY <1>3, <1>4 DEF BackoffOfRetried
<1>9. TypeOK'
  <2>1. owed' \in [Units -> SUBSET Iors]
    BY <1>1, <1>4 DEF TypeOK
  <2>2. err' \in [Iors -> {"none", "done", "nak", "aborted", "nomem"}]
    BY <1>1 DEF TypeOK
  <2> QED  BY <1>1, <1>2, <1>6, <2>1, <2>2 DEF TypeOK
<1>10. \A s, t \in Slots : InUse(s) /\ slots[s].ior = slots[t].ior => s = t
  BY DEF HeldByDriver, SlotsOf
<1>11. InHand'
  <2>1. ASSUME active # 0
        PROVE  /\ active \in Slots \ gone /\ InUse(active)' /\ slots'[active].ior = slots[active].ior
               /\ slots[active].ior \in Iors /\ err'[slots[active].ior] = err[slots[active].ior]
    <3>1. active \in Slots \ gone /\ InUse(active)
      BY <1>4, <2>1 DEF TypeOK, InHand
    <3>2. slots[active].ior \in Iors /\ ~(\E s \in gone : slots[s].ior = slots[active].ior)
      BY <1>4, <1>10, <3>1, InUseHolds DEF Holds
    <3> QED  BY <1>1, <1>2, <1>3, <3>1, <3>2 DEF InUse
  <2> QED  BY <1>2, <2>1 DEF InHand
<1>12. Removed'
  <2>1. \A i \in Iors : err'[i] = "aborted" \/ err'[i] = err[i]
    BY <1>1
  <2>2. ASSUME NEW v \in Units, NEW i \in owed'[v]
        PROVE  /\ UnitOf[i] = v /\ replies'[i] = 0 /\ err'[i] = "aborted"
               /\ cpc'[i] \in {"signal", "sent"} /\ i \in Iors
    <3>1. CASE v # u
      <4>1. i \in owed[v]
        BY <1>1, <3>1 DEF TypeOK
      <4> QED  BY <1>2, <2>1, <4>1 DEF Removed, TypeOK
    <3>2. CASE v = u
      <4>1. PICK s \in gone : slots[s].ior = i
        BY <1>1, <3>2 DEF TypeOK
      <4> QED  BY <1>1, <1>2, <1>4, <3>2, <4>1 DEF HeldByDriver
    <3> QED  BY <3>1, <3>2
  <2> QED  BY <1>2, <2>1, <2>2 DEF Removed
<1>13. HeldByDriver'
  <2> SUFFICES ASSUME NEW s \in Slots, InUse(s)'
               PROVE  /\ SlotsOf(slots[s].ior)' = {s}
                      /\ cpc'[slots'[s].ior] \in {"signal", "sent"}
                      /\ replies'[slots'[s].ior] = 0
                      /\ \A v \in Units : slots'[s].ior \notin owed'[v]
    BY DEF HeldByDriver
  <2>1. s \in Slots \ gone /\ slots'[s].ior = slots[s].ior /\ InUse(s)
    BY <1>3, <1>4 DEF InUse
  <2>2. SlotsOf(slots[s].ior)' = {s}
    BY <1>3, <1>4, <1>10, <2>1 DEF SlotsOf, InUse
  <2>3. ASSUME NEW v \in Units
        PROVE  slots'[s].ior \notin owed'[v]
    <3>1. slots[s].ior \notin owed[v]
      BY <2>1 DEF HeldByDriver
    <3>2. \A t \in gone : slots[t].ior # slots[s].ior
      BY <1>4, <1>10, <2>1
    <3> QED  BY <1>1, <2>1, <3>1, <3>2 DEF TypeOK
  <2> QED  BY <1>2, <2>1, <2>2, <2>3 DEF HeldByDriver
<1> QED  BY <1>6, <1>7, <1>8, <1>9, <1>11, <1>12, <1>13

\* Its replies.
LEMMA FlushReplyKeeps ==
  ASSUME IInv, NEW u \in Units, FlushReply(u)
  PROVE  IInv'
<1> USE DEF IInv, queueVars, timerVars
<1>1. PICK i \in owed[u] : /\ replies' = [replies EXCEPT ![i] = @ + 1]
                           /\ owed' = [owed EXCEPT ![u] = @ \ {i}]
  BY DEF FlushReply
<1>2. UNCHANGED <<slots, ahead, workSeq, active, wpc, retry, sig, timer, passed, poll, cpc, err>>
  BY DEF FlushReply
<1>3. i \in Iors /\ UnitOf[i] = u /\ replies[i] = 0 /\ cpc[i] \in {"signal", "sent"}
  BY <1>1 DEF TypeOK, Removed
<1>4. TypeOK'
  BY <1>1, <1>2, <1>3 DEF TypeOK
<1>5. SlotKind' /\ QueueOrder' /\ BackoffOfRetried' /\ InHand'
  BY <1>2 DEF SlotKind, Holds, QueueOrder, Used, InUse, BackoffOfRetried, InHand
<1>6. \A v \in Units : i \notin owed'[v]
  BY <1>1, <1>3 DEF TypeOK, Removed
<1>7. Removed'
  BY <1>1, <1>2, <1>3, <1>6 DEF TypeOK, Removed
<1>8. HeldByDriver'
  <2>1. \A s \in Slots : InUse(s) => slots[s].ior # i
    BY <1>1 DEF HeldByDriver
  <2> QED  BY <1>1, <1>2, <1>3, <2>1 DEF TypeOK, HeldByDriver, SlotsOf, InUse
<1> QED  BY <1>4, <1>5, <1>7, <1>8

-----------------------------------------------------------------------------
(* The poll task.                                                          *)

\* WorkSequence is never 0 where it names a request, through its wrap.
LEMMA SequenceNotZero ==
  ASSUME TypeOK
  PROVE  /\ NextSequence(workSeq) \in 1..(SeqMod - 1)
         /\ (NextSequence(workSeq) + 1) % SeqMod \in 0..(SeqMod - 1)
BY SizesAssumption DEF TypeOK, NextSequence

\* Dispatch and retry change the state and the id of a request in its slot.
Moved(l, st, q) == [l EXCEPT !.state = st, !.id = q]

\* They leave its other fields and its kind.
LEMMA LifeChange ==
  ASSUME NEW l \in Lives, NEW st \in {"queued", "in_flight"}, NEW q \in 0..(SeqMod - 1)
  PROVE  /\ Moved(l, st, q) \in Lives /\ Moved(l, st, q) \in LifeRecords
         /\ Moved(l, st, q).state = st /\ Moved(l, st, q).id = q
         /\ Moved(l, st, q).abort = l.abort
<1>1. PICK k : k = [l EXCEPT !.state = st]
  OBVIOUS
<1>2. k \in Lives /\ k.state = st /\ k.abort = l.abort
  BY <1>1 DEF Lives
<1>3. PICK m : m = [k EXCEPT !.id = q]
  OBVIOUS
<1>4. m \in Lives /\ m.state = st /\ m.id = q /\ m.abort = l.abort
  BY <1>2, <1>3 DEF Lives
<1>5. m \in LifeRecords
  BY <1>4 DEF Lives, LifeRecords
<1>6. m = Moved(l, st, q)
  BY <1>1, <1>3 DEF Moved
<1> QED  BY <1>4, <1>5, <1>6

\* zzusb_engine_dispatch and zzusb_engine_begin of a queued request succeed.
LEMMA BeginLife ==
  ASSUME NEW l \in Lives, l.state = "queued", NEW q \in 1..(SeqMod - 1)
  PROVE  zzusb_engine_begin(zzusb_engine_dispatch(l), q)
           = [l EXCEPT !.state = "in_flight", !.id = q]
<1> USE SizesAssumption DEF Lives
<1>1. PICK d : d = [l EXCEPT !.state = "dispatching"]
  OBVIOUS
<1>2. zzusb_engine_dispatch(l) = d /\ d.state = "dispatching"
  BY <1>1 DEF zzusb_engine_dispatch
<1>3. zzusb_engine_begin(d, q) = [d EXCEPT !.state = "in_flight", !.id = q]
  BY <1>2 DEF zzusb_engine_begin
<1>4. [d EXCEPT !.state = "in_flight", !.id = q] = [l EXCEPT !.state = "in_flight", !.id = q]
  BY <1>1
<1> QED  BY <1>2, <1>3, <1>4

\* process_work_queue dispatches a ready slot.
LEMMA SelectKeeps ==
  ASSUME IInv, Select
  PROVE  IInv'
<1> USE NoIorAssumption, SizesAssumption DEF IInv
<1>1. CASE ~work_queue_pending
  <2> USE DEF Select, timerVars, callerVars
  <2>1. TypeOK' /\ InHand' /\ Removed'
    BY <1>1 DEF TypeOK, InHand, InUse, Removed
  <2>2. SlotKind' /\ QueueOrder' /\ BackoffOfRetried' /\ HeldByDriver'
    BY <1>1 DEF SlotKind, Holds, QueueOrder, Used, InUse, BackoffOfRetried,
                HeldByDriver, SlotsOf
  <2> QED  BY <2>1, <2>2
<1>2. CASE work_queue_pending
  <2>1. PICK s \in Slots : s = Pick /\ Ready(s)
    BY <1>2, PickIsReady
  <2>2. PICK q \in 1..(SeqMod - 1) : q = NextSequence(workSeq)
    BY SequenceNotZero
  <2>3. /\ slots' = [slots EXCEPT
              ![s].life = zzusb_engine_begin(zzusb_engine_dispatch(slots[s].life), q),
              ![s].seq = q]
        /\ workSeq' = (q + 1) % SeqMod
        /\ active' = s /\ wpc' = "execute"
        /\ UNCHANGED <<ahead, retry, sig, timer, passed, poll, cpc, replies, err, owed>>
    BY <1>2, <2>1, <2>2 DEF Select, timerVars, callerVars
  <2>4. InUse(s) /\ Holds(s) /\ slots[s].life.state = "queued" /\ slots[s].delay = 0
        /\ slots[s] \in SlotRecords
    BY <2>1, InUseHolds DEF Ready, TypeOK
  <2>5. active = 0
    BY DEF Select, InHand
  <2>6. zzusb_engine_begin(zzusb_engine_dispatch(slots[s].life), q)
          = [slots[s].life EXCEPT !.state = "in_flight", !.id = q]
    BY <2>4, BeginLife DEF Holds
  <2>7. /\ slots'[s].life = [slots[s].life EXCEPT !.state = "in_flight", !.id = q]
        /\ slots'[s].seq = q /\ slots'[s].ior = slots[s].ior /\ slots'[s].delay = 0
    BY <2>3, <2>4, <2>6 DEF TypeOK, SlotRecords
  <2>8. /\ slots'[s].life \in Lives /\ slots'[s].life.state = "in_flight"
        /\ slots'[s].life.id = q /\ slots'[s].life \in LifeRecords
    <3>1. q \in 0..(SeqMod - 1)
      OBVIOUS
    <3>2. PICK l \in Lives : l = slots[s].life
      BY <2>4 DEF Holds
    <3>3. slots'[s].life = Moved(l, "in_flight", q)
      BY <2>7, <3>2 DEF Moved
    <3> QED  BY <3>1, <3>3, LifeChange
  <2>9. \A t \in Slots : t # s => slots'[t] = slots[t]
    BY <2>3 DEF TypeOK
  <2>10. \A t \in Slots : slots'[t].ior = slots[t].ior
    BY <2>7, <2>9
  <2>11. slots' \in [Slots -> SlotRecords]
    <3>1. slots'[s] \in SlotRecords
      <4>1. slots'[s] = [slots[s] EXCEPT !.life = slots'[s].life, !.seq = q]
        BY <2>3, <2>4, <2>6, <2>7 DEF TypeOK
      <4>2. q \in 0..(SeqMod - 1)
        OBVIOUS
      <4> QED  BY <2>4, <2>8, <4>1, <4>2 DEF SlotRecords
    <3> QED  BY <2>3, <2>9, <3>1 DEF TypeOK
  <2>12. TypeOK'
    BY <2>2, <2>3, <2>11, SequenceNotZero DEF TypeOK
  <2>13. SlotKind'
    <3>1. Holds(s)'
      BY <2>3, <2>4, <2>7, <2>8 DEF Holds
    <3>2. ASSUME NEW t \in Slots, t # s
          PROVE  slots'[t] = EmptySlot \/ Holds(t)'
      <4>1. active # t /\ active' # t /\ slots'[t] = slots[t]
        <5>1. active # t
          BY <2>5 DEF Slots
        <5> QED  BY <2>3, <2>9, <3>2, <5>1
      <4> QED  BY <4>1 DEF SlotKind, Holds
    <3> QED  BY <3>1, <3>2 DEF SlotKind
  <2>14. QueueOrder' /\ HeldByDriver' /\ Removed'
    <3>1. QueueOrder'
      BY <2>3, <2>10 DEF QueueOrder, Used, InUse
    <3>2. HeldByDriver'
      BY <2>3, <2>10 DEF HeldByDriver, InUse, SlotsOf
    <3>3. Removed'
      BY <2>3 DEF Removed
    <3> QED  BY <3>1, <3>2, <3>3
  <2>15. InHand'
    <3>1. active' # 0 /\ slots'[s].ior # NoIor
      BY <2>3, <2>4, <2>7 DEF InUse, Slots
    <3> QED  BY <2>3, <3>1 DEF InHand, InUse
  <2>16. BackoffOfRetried'
    BY <2>7, <2>9 DEF BackoffOfRetried
  <2> QED  BY <2>12, <2>13, <2>14, <2>15, <2>16
<1> QED  BY <1>1, <1>2

\* The request the poll task has in hand.
LEMMA ActiveHolds ==
  ASSUME IInv, wpc \in {"execute", "finish"}
  PROVE  /\ active \in Slots /\ InUse(active) /\ Holds(active)
         /\ slots[active].life.state = "in_flight" /\ slots[active].ior \in Iors
         /\ replies[slots[active].ior] = 0
         /\ cpc[slots[active].ior] \in {"signal", "sent"}
         /\ \A u \in Units : slots[active].ior \notin owed[u]
<1>1. active \in Slots /\ InUse(active)
  BY DEF IInv, InHand, TypeOK
<1>2. Holds(active)
  BY <1>1, InUseHolds
<1> QED  BY <1>1, <1>2 DEF IInv, Holds, HeldByDriver

\* execute_io returns.
LEMMA ExecuteReturnKeeps ==
  ASSUME IInv, ExecuteReturn
  PROVE  IInv'
<1> USE NoIorAssumption DEF IInv, queueVars, timerVars
<1>1. PICK i \in Iors : /\ i = slots[active].ior /\ replies[i] = 0
                        /\ cpc[i] \in {"signal", "sent"} /\ \A u \in Units : i \notin owed[u]
  BY ActiveHolds DEF ExecuteReturn
<1>2. PICK r \in {"done", "nak"} : err' = [err EXCEPT ![i] = r] /\ (r = "nak" => i \in Waits)
  BY <1>1 DEF ExecuteReturn
<1>3. /\ UNCHANGED <<slots, ahead, workSeq, active, retry, sig, timer, passed, poll, cpc, replies, owed>>
      /\ wpc = "execute" /\ wpc' = "finish"
  BY DEF ExecuteReturn
<1>4. TypeOK'
  BY <1>2, <1>3 DEF TypeOK
<1>5. SlotKind' /\ QueueOrder' /\ BackoffOfRetried' /\ HeldByDriver'
  BY <1>3 DEF SlotKind, Holds, QueueOrder, Used, InUse, BackoffOfRetried, HeldByDriver, SlotsOf
<1>6. InHand'
  BY <1>1, <1>2, <1>3 DEF TypeOK, InHand, InUse
<1>7. Removed'
  BY <1>1, <1>2, <1>3 DEF TypeOK, Removed
<1> QED  BY <1>4, <1>5, <1>6, <1>7

\* An idle bulk-IN goes back into the queue.
LEMMA FinishRetryKeeps ==
  ASSUME IInv, FinishRetry
  PROVE  IInv'
<1> USE NoIorAssumption, SizesAssumption DEF IInv
<1>1. PICK s \in Slots : s = active
  BY ActiveHolds DEF FinishRetry
<1>2. /\ InUse(s) /\ Holds(s) /\ slots[s] \in SlotRecords /\ slots[s].ior \in Iors
      /\ slots[s].life.state = "in_flight" /\ ~slots[s].life.abort
      /\ replies[slots[s].ior] = 0 /\ cpc[slots[s].ior] \in {"signal", "sent"}
      /\ \A u \in Units : slots[s].ior \notin owed[u]
  BY <1>1, ActiveHolds DEF FinishRetry, CanRetry, TypeOK
<1>3. PICK i \in Iors : i = slots[s].ior
  BY <1>2
<1>4. /\ slots' = [slots EXCEPT ![s].life = [slots[s].life EXCEPT !.state = "queued", !.id = 0]]
      /\ ahead' = Behind(s)
      /\ err' = [err EXCEPT ![i] = "none"]
      /\ retry' = [slot |-> s, ior |-> i, seq |-> slots[s].seq]
      /\ active' = 0 /\ wpc' = "account"
      /\ UNCHANGED <<workSeq, sig, timer, passed, poll, cpc, replies, owed>>
  BY <1>1, <1>3 DEF FinishRetry, zzusb_engine_retry, timerVars
<1>5. i \in Waits
  BY <1>1, <1>3 DEF InHand, FinishRetry, bulk_in_waits_for_data
<1>6. /\ slots'[s].life = [slots[s].life EXCEPT !.state = "queued", !.id = 0]
      /\ slots'[s].seq = slots[s].seq /\ slots'[s].ior = slots[s].ior
      /\ slots'[s].delay = slots[s].delay
  BY <1>2, <1>4 DEF TypeOK, SlotRecords
<1>7. /\ slots'[s].life \in Lives /\ slots'[s].life.state = "queued" /\ ~slots'[s].life.abort
      /\ slots'[s].life \in LifeRecords
  <2>1. 0 \in 0..(SeqMod - 1)
    OBVIOUS
  <2>2. PICK l \in Lives : l = slots[s].life /\ ~l.abort
    BY <1>2 DEF Holds
  <2>3. slots'[s].life = Moved(l, "queued", 0)
    BY <1>6, <2>2 DEF Moved
  <2> QED  BY <2>1, <2>2, <2>3, LifeChange
<1>8. \A t \in Slots : t # s => slots'[t] = slots[t]
  BY <1>4 DEF TypeOK
<1>9. \A t \in Slots : slots'[t].ior = slots[t].ior
  BY <1>6, <1>8
<1>10. slots' \in [Slots -> SlotRecords]
  <2>1. slots'[s] \in SlotRecords
    <3>1. slots'[s] = [slots[s] EXCEPT !.life = slots'[s].life]
      BY <1>2, <1>4, <1>6 DEF TypeOK
    <3> QED  BY <1>2, <1>7, <3>1 DEF SlotRecords
  <2> QED  BY <1>4, <1>8, <2>1 DEF TypeOK
<1>11. Used' = Used \cup {s}
  BY <1>2, <1>9 DEF Used, InUse
<1>12. QueueOrder' /\ ahead' \in [Slots -> SUBSET Slots]
  BY <1>4, <1>11, BehindKeepsOrder
<1>13. TypeOK'
  BY <1>4, <1>10, <1>12 DEF TypeOK
<1>14. SlotKind'
  <2>1. Holds(s)'
    BY <1>2, <1>4, <1>6, <1>7 DEF Holds, Slots
  <2>2. ASSUME NEW t \in Slots, t # s
        PROVE  slots'[t] = EmptySlot \/ Holds(t)'
    BY <1>1, <1>4, <1>8, <2>2 DEF SlotKind, Holds, Slots
  <2> QED  BY <2>1, <2>2 DEF SlotKind
<1>15. InHand'
  BY <1>2, <1>4, <1>5 DEF InHand, Holds
<1>16. Removed'
  BY <1>2, <1>3, <1>4 DEF Removed, TypeOK
<1>17. HeldByDriver'
  BY <1>4, <1>9 DEF HeldByDriver, SlotsOf, InUse
<1>18. BackoffOfRetried'
  BY <1>6, <1>8 DEF BackoffOfRetried
<1> QED  BY <1>12, <1>13, <1>14, <1>15, <1>16, <1>17, <1>18

\* A completed request in its slot is terminal and its reply not claimed.
LEMMA CompleteLife ==
  ASSUME IInv, NEW s \in Slots, Holds(s), slots[s].life.state = "in_flight"
  PROVE  Claims(zzusb_engine_complete(slots[s].life, slots[s].seq))
BY DEF Holds, Lives, zzusb_engine_complete, make_terminal, Claims

\* Every other request is replied and leaves its slot.
LEMMA FinishReplyKeeps ==
  ASSUME IInv, FinishReply
  PROVE  IInv'
<1> USE NoIorAssumption, SizesAssumption DEF IInv
<1>1. PICK s \in Slots : s = active
  BY ActiveHolds DEF FinishReply
<1>2. PICK i \in Iors : i = slots[s].ior
  BY <1>1, ActiveHolds DEF FinishReply
<1>3. /\ InUse(s) /\ Holds(s) /\ slots[s].life.state = "in_flight"
      /\ replies[i] = 0 /\ cpc[i] \in {"signal", "sent"}
      /\ \A u \in Units : i \notin owed[u]
  BY <1>1, <1>2, ActiveHolds DEF FinishReply
<1>4. Claims(zzusb_engine_complete(slots[s].life, slots[s].seq))
  BY <1>3, CompleteLife
<1>5. /\ err' = [err EXCEPT ![i] = IF slots[s].life.abort THEN "aborted" ELSE @]
      /\ replies' = [replies EXCEPT ![i] = @ + 1]
      /\ slots' = [slots EXCEPT ![s] = EmptySlot]
      /\ ahead' = Leaving({s})
      /\ active' = 0 /\ wpc' = "polls"
      /\ UNCHANGED <<workSeq, retry, sig, timer, passed, poll, cpc, owed>>
  BY <1>1, <1>2, <1>4 DEF FinishReply, timerVars
<1>6. /\ slots' \in [Slots -> SlotRecords] /\ ahead' \in [Slots -> SUBSET Slots]
      /\ QueueOrder' /\ BackoffOfRetried' /\ SlotKind'
  <2>1. active = s /\ active' = 0 /\ active' # s /\ active' \in {active, 0}
    BY <1>1, <1>5 DEF Slots
  <2> QED  BY <1>3, <1>5, <2>1, ClearKeeps
<1>7. TypeOK'
  <2>1. err' \in [Iors -> {"none", "done", "nak", "aborted", "nomem"}]
    BY <1>5 DEF TypeOK
  <2>2. replies' \in [Iors -> Nat]
    BY <1>5 DEF TypeOK
  <2> QED  BY <1>5, <1>6, <2>1, <2>2 DEF TypeOK
<1>8. InHand'
  BY <1>5 DEF InHand
<1>9. Removed'
  BY <1>3, <1>5 DEF TypeOK, Removed
<1>10. \A t \in Slots : slots[t].ior = i => t = s
  BY <1>2, <1>3 DEF HeldByDriver, SlotsOf
<1>11. HeldByDriver'
  BY <1>2, <1>5, <1>10 DEF TypeOK, HeldByDriver, InUse, SlotsOf, EmptySlot
<1> QED  BY <1>6, <1>7, <1>8, <1>9, <1>11

\* The poll task between two requests: backoffs and timers change, requests
\* do not.
LEMMA BetweenKeeps ==
  ASSUME IInv, active = 0, OnlyDelays, BackoffOfRetried',
         UNCHANGED <<ahead, workSeq, active, cpc, replies, err, owed>>,
         sig' \in BOOLEAN, timer' \in Nat, passed' \in 0..timer', poll' \in Nat,
         wpc' \in {"loop", "publish", "polls", "arm", "wait", "sleep"},
         wpc' = "publish" => wpc = "account" /\ retry' = retry
  PROVE  IInv'
<1>1. SlotKind' /\ QueueOrder' /\ Removed' /\ HeldByDriver'
  BY OnlyDelaysKeeps DEF callerVars
<1>2. TypeOK'
  BY DEF IInv, TypeOK, OnlyDelays
<1>3. InHand'
  BY DEF IInv, InHand
<1> QED  BY <1>1, <1>2, <1>3 DEF IInv

\* No backoff changes.
LEMMA SameDelays ==
  ASSUME IInv, UNCHANGED slots
  PROVE  OnlyDelays /\ BackoffOfRetried'
BY DEF IInv, TypeOK, OnlyDelays, BackoffOfRetried

\* The poll task has no request in hand outside of process_work_queue.
LEMMA NothingActive ==
  ASSUME IInv, wpc \notin {"execute", "finish"}
  PROVE  active = 0
BY DEF IInv, InHand

\* The elapsed time of a pending timer is charged to every backoff.
LEMMA ChargeKeeps ==
  ASSUME IInv, ChargeElapsed
  PROVE  /\ OnlyDelays /\ BackoffOfRetried'
         /\ timer' \in Nat /\ passed' \in 0..timer'
<1>1. passed \in Nat /\ timer \in Nat /\ passed <= timer
  BY DEF IInv, TypeOK
<1> QED  BY <1>1, AdvanceDelays DEF ChargeElapsed

\* hotplug_poll_task closes the accounting interval.
LEMMA AccountKeeps ==
  ASSUME IInv, Account
  PROVE  IInv'
<1>1. /\ ChargeElapsed /\ wpc = "account" /\ wpc' = "publish"
      /\ UNCHANGED <<ahead, workSeq, active, retry, sig, poll, cpc, replies, err, owed>>
  BY DEF Account, callerVars
<1>2. active = 0 /\ sig \in BOOLEAN /\ poll \in Nat
  BY <1>1, NothingActive DEF IInv, TypeOK
<1> QED  BY <1>1, <1>2, ChargeKeeps, BetweenKeeps

\* The new backoff is for the request that was retried.
LEMMA PublishKeeps ==
  ASSUME IInv, Publish
  PROVE  IInv'
<1> USE NoIorAssumption, SizesAssumption, WaitsAssumption
<1>1. PICK s \in Slots : /\ s = retry.slot /\ retry.ior \in Waits /\ retry.seq # 0
  BY DEF Publish, IInv, InHand
<1>2. PICK d \in 0..Backoff :
        /\ slots' = [slots EXCEPT ![s].delay = d]
        /\ d # slots[s].delay => /\ slots[s].ior = retry.ior /\ slots[s].seq = retry.seq
                                 /\ slots[s].life.state = "queued"
  <2>1. slots[s].delay \in 0..Backoff
    BY DEF IInv, TypeOK, SlotRecords
  <2>2. Backoff \in 0..Backoff
    OBVIOUS
  <2> QED  BY <1>1, <2>1, <2>2 DEF Publish
<1>3. slots[s] \in SlotRecords /\ slots \in [Slots -> SlotRecords]
  BY DEF IInv, TypeOK
<1>4. /\ slots'[s] \in SlotRecords /\ slots'[s].ior = slots[s].ior
      /\ slots'[s].life = slots[s].life /\ slots'[s].seq = slots[s].seq
      /\ slots'[s].delay = d
  BY <1>2, <1>3 DEF SlotRecords
<1>5. \A t \in Slots : t # s => slots'[t] = slots[t]
  BY <1>2, <1>3
<1>6. slots' \in [Slots -> SlotRecords]
  BY <1>2, <1>3, <1>4
<1>7. slots'[s] = slots[s] \/ (InUse(s) /\ slots[s].life.state = "queued")
  <2>1. CASE d = slots[s].delay
    BY <1>2, <1>3, <2>1 DEF SlotRecords
  <2>2. CASE d # slots[s].delay
    BY <1>1, <1>2, <2>2 DEF InUse
  <2> QED  BY <2>1, <2>2
<1>8. OnlyDelays
  BY <1>4, <1>5, <1>6, <1>7 DEF OnlyDelays
<1>9. BackoffOfRetried'
  BY <1>1, <1>2, <1>4, <1>5 DEF IInv, BackoffOfRetried
<1>10. active = 0
  BY NothingActive DEF Publish
<1>11. /\ wpc' = "polls"
       /\ UNCHANGED <<ahead, workSeq, active, sig, timer, passed, poll, cpc, replies, err, owed>>
  BY DEF Publish, timerVars, callerVars
<1>12. sig \in BOOLEAN /\ timer \in Nat /\ passed \in 0..timer /\ poll \in Nat
  BY DEF IInv, TypeOK
<1> QED  BY <1>8, <1>9, <1>10, <1>11, <1>12, BetweenKeeps

\* work_queue_min_delay is the backoff of some slot, or 0.
LEMMA MinDelay ==
  ASSUME IInv
  PROVE  work_queue_min_delay \in Nat
<1> DEFINE ds == {slots[s].delay : s \in Delayed}
<1>1. CASE Delayed = {}
  BY <1>1 DEF work_queue_min_delay
<1>2. CASE Delayed # {}
  <2>1. ds \in SUBSET Nat /\ ds # {}
    <3>1. \A s \in Slots : slots[s].delay \in Nat
      BY SizesAssumption DEF IInv, TypeOK, SlotRecords
    <3> QED  BY <1>2, <3>1 DEF Delayed
  <2>2. \E d \in ds : \A e \in ds : d <= e
    BY <2>1, LeastNatural
  <2>3. (CHOOSE d \in ds : \A e \in ds : d <= e) \in ds
    BY <2>2
  <2> QED  BY <1>2, <2>1, <2>3 DEF work_queue_min_delay
<1> QED  BY <1>1, <1>2

\* The choice of the next deadline.
LEMMA PollDelayKeeps ==
  ASSUME IInv, PollDelay
  PROVE  IInv'
<1>1. /\ wpc = "polls" /\ wpc' \in {"loop", "arm"}
      /\ UNCHANGED <<slots, ahead, workSeq, active, retry, sig, timer, passed,
                     cpc, replies, err, owed>>
  BY DEF PollDelay, queueVars, callerVars
<1>2. poll' \in Nat
  BY MinDelay, SizesAssumption DEF PollDelay, IInv, TypeOK
<1>3. active = 0
  BY <1>1, NothingActive
<1>4. sig \in BOOLEAN /\ timer \in Nat /\ passed \in 0..timer
  BY DEF IInv, TypeOK
<1> QED  BY <1>1, <1>2, <1>3, <1>4, SameDelays, BetweenKeeps

\* A timer that ended while the task was busy.
LEMMA ArmExpiredKeeps ==
  ASSUME IInv, ArmExpired
  PROVE  IInv'
<1>1. /\ ChargeElapsed /\ wpc = "arm" /\ wpc' = "loop" /\ poll' = 0
      /\ UNCHANGED <<ahead, workSeq, active, retry, sig, cpc, replies, err, owed>>
  BY DEF ArmExpired, callerVars
<1>2. active = 0 /\ sig \in BOOLEAN
  BY <1>1, NothingActive DEF IInv, TypeOK
<1> QED  BY <1>1, <1>2, ChargeKeeps, BetweenKeeps

\* A timer that is armed, kept or shortened.
LEMMA ArmKeeps ==
  ASSUME IInv, Arm
  PROVE  IInv'
<1>1. /\ wpc = "arm" /\ wpc' \in {"wait", "sleep"} /\ poll' = 0
      /\ UNCHANGED <<ahead, workSeq, active, retry, sig, cpc, replies, err, owed>>
  BY DEF Arm, callerVars
<1>2. /\ active = 0 /\ sig \in BOOLEAN /\ timer \in Nat /\ passed \in 0..timer
      /\ passed \in Nat /\ poll \in Nat
  BY <1>1, NothingActive DEF IInv, TypeOK
<1>3. CASE timer # 0 /\ poll # 0 /\ poll < timer - passed
  <2>1. slots' = work_queue_advance_delay(passed) /\ timer' = poll /\ passed' = 0
    BY <1>3 DEF Arm
  <2>2. OnlyDelays /\ BackoffOfRetried'
    BY <1>2, <2>1, AdvanceDelays
  <2> QED  BY <1>1, <1>2, <2>1, <2>2, BetweenKeeps
<1>4. CASE ~(timer # 0 /\ poll # 0 /\ poll < timer - passed)
  <2>1. timer' = (IF timer = 0 THEN poll ELSE timer) /\ UNCHANGED <<slots, passed>>
    BY <1>4 DEF Arm
  <2>2. timer' \in Nat /\ passed' \in 0..timer'
    BY <1>2, <2>1
  <2> QED  BY <1>1, <1>2, <2>1, <2>2, SameDelays, BetweenKeeps
<1> QED  BY <1>3, <1>4

\* The wait ends with the signal or the timer.
LEMMA WakeKeeps ==
  ASSUME IInv, Wake
  PROVE  IInv'
<1>1. /\ ChargeElapsed /\ wpc = "wait" /\ wpc' = "loop" /\ sig' = FALSE
      /\ UNCHANGED <<ahead, workSeq, active, retry, poll, cpc, replies, err, owed>>
  BY DEF Wake, callerVars
<1>2. active = 0 /\ poll \in Nat
  BY <1>1, NothingActive DEF IInv, TypeOK
<1> QED  BY <1>1, <1>2, ChargeKeeps, BetweenKeeps

\* The wait without a timer ends with the signal.
LEMMA WakeSignalKeeps ==
  ASSUME IInv, WakeSignal
  PROVE  IInv'
<1>1. /\ wpc = "sleep" /\ wpc' = "loop" /\ sig' = FALSE
      /\ UNCHANGED <<slots, ahead, workSeq, active, retry, timer, passed, poll,
                     cpc, replies, err, owed>>
  BY DEF WakeSignal, callerVars, queueVars, timerVars
<1>2. active = 0 /\ timer \in Nat /\ passed \in 0..timer /\ poll \in Nat
  BY <1>1, NothingActive DEF IInv, TypeOK
<1> QED  BY <1>1, <1>2, SameDelays, BetweenKeeps

\* Time passes, or nothing happens.
LEMMA TickKeeps ==
  ASSUME IInv, Tick \/ UNCHANGED vars
  PROVE  IInv'
<1>1. UNCHANGED <<slots, ahead, workSeq, active, wpc, retry, sig, timer, poll,
                  cpc, replies, err, owed>>
  BY DEF Tick, vars, queueVars, callerVars
<1>2. passed' \in 0..timer
  BY DEF Tick, vars, IInv, TypeOK
<1>3. TypeOK'
  BY <1>1, <1>2 DEF IInv, TypeOK
<1>4. SlotKind' /\ QueueOrder' /\ InHand' /\ Removed'
  BY <1>1 DEF IInv, SlotKind, Holds, QueueOrder, Used, InUse, InHand, Removed
<1>5. HeldByDriver' /\ BackoffOfRetried'
  BY <1>1 DEF IInv, HeldByDriver, InUse, SlotsOf, BackoffOfRetried
<1> QED  BY <1>3, <1>4, <1>5 DEF IInv

-----------------------------------------------------------------------------
(* The theorems.                                                           *)

\* CoreInit's empty queue and a caller that owns all of its requests.
LEMMA InitIInv ==
  ASSUME Init
  PROVE  IInv
<1> USE NoIorAssumption, SizesAssumption DEF Init
<1>1. EmptySlot \in SlotRecords
  BY DEF EmptySlot, SlotRecords, FreeLife, LifeRecords
<1>2. TypeOK
  <2>1. slots \in [Slots -> SlotRecords] /\ ahead \in [Slots -> SUBSET Slots]
    BY <1>1
  <2>2. workSeq \in 0..(SeqMod - 1) /\ passed \in 0..timer
    OBVIOUS
  <2>3. owed \in [Units -> SUBSET Iors]
    OBVIOUS
  <2> QED  BY <2>1, <2>2, <2>3 DEF TypeOK
<1>3. SlotKind /\ QueueOrder /\ InHand /\ Removed
  BY DEF SlotKind, QueueOrder, InHand, Removed
<1>4. HeldByDriver /\ BackoffOfRetried
  BY DEF HeldByDriver, InUse, BackoffOfRetried, EmptySlot
<1> QED  BY <1>2, <1>3, <1>4 DEF IInv

\* Every step of the callers, the flushing tasks and the poll task keeps it.
LEMMA NextIInv ==
  ASSUME IInv, [Next]_vars
  PROVE  IInv'
<1>1. ASSUME NEW i \in Iors,
             \/ Enqueue(i) \/ Refuse(i) \/ AbortQueued(i) \/ AbortRunning(i)
             \/ AbortGone(i) \/ Reclaim(i) \/ CallerStep(i)
      PROVE  IInv'
  BY <1>1, EnqueueKeeps, RefuseKeeps, AbortQueuedKeeps, AbortRunningKeeps,
     AbortGoneKeeps, ReclaimKeeps, SignalWorkerKeeps, AbortReplyKeeps DEF CallerStep
<1>2. ASSUME NEW u \in Units, abort_unit_work(u) \/ FlushReply(u)
      PROVE  IInv'
  BY <1>2, FlushKeeps, FlushReplyKeeps
<1>3. ASSUME WorkerStep
      PROVE  IInv'
  BY <1>3, SelectKeeps, ExecuteReturnKeeps, FinishRetryKeeps, FinishReplyKeeps,
     AccountKeeps, PublishKeeps, PollDelayKeeps, ArmExpiredKeeps, ArmKeeps,
     WakeKeeps, WakeSignalKeeps DEF WorkerStep
<1>4. ASSUME Tick \/ UNCHANGED vars
      PROVE  IInv'
  BY <1>4, TickKeeps
<1> QED  BY <1>1, <1>2, <1>3, <1>4 DEF Next

\* The inductive invariant holds throughout.
LEMMA Inductive == Spec => []IInv
<1>1. Init => IInv
  BY InitIInv
<1>2. IInv /\ [Next]_vars => IInv'
  BY NextIInv
<1> QED  BY <1>1, <1>2, PTL DEF Spec

\* Slots, queue and timers keep their types for any number of requests, slots
\* and units.
THEOREM TypeCorrect == Spec => []TypeOK
<1>1. IInv => TypeOK
  BY DEF IInv
<1> QED  BY <1>1, Inductive, PTL

\* process_work_queue, abort_work_ior and abort_unit_work: a request in a slot
\* is in that slot only, is not replied and is owed no reply.
THEOREM QueueHoldsItsRequests == Spec => []HeldByDriver
<1>1. IInv => HeldByDriver
  BY DEF IInv
<1> QED  BY <1>1, Inductive, PTL

\* hotplug_poll_task: a backoff is never inherited by the next request in the
\* slot, through every wrap of WorkSequence.
THEOREM BackoffStaysWithRequest == Spec => []BackoffOfRetried
<1>1. IInv => BackoffOfRetried
  BY DEF IInv
<1> QED  BY <1>1, Inductive, PTL

-----------------------------------------------------------------------------
(* The queue implements UsbRequests: every step moves no request, one      *)
(* request, or (a flush) some pending requests to "aborting".              *)

\* What UsbRequests sees of a request.
Result(i) == IF Status(i) = "done" THEN err[i] ELSE "none"
RequestVars == <<[i \in Iors |-> Status(i)],
                 [i \in Iors |-> IF Status(i) = "done" THEN err[i] ELSE "none"]>>

\* Where a request is, before and after a step.
LEMMA StatusCases ==
  ASSUME IInv, IInv', NEW i \in Iors
  PROVE  /\ cpc[i] = "own" => Status(i) = "caller"
         /\ cpc[i] # "own" /\ replies[i] = 1 => Status(i) = "done"
         /\ cpc[i] # "own" /\ replies[i] = 0 /\ Aborting(i) => Status(i) = "aborting"
         /\ cpc[i] # "own" /\ replies[i] = 0 /\ ~Aborting(i) => Status(i) = "pending"
         /\ cpc'[i] = "own" => Status(i)' = "caller"
         /\ cpc'[i] # "own" /\ replies'[i] = 1 => Status(i)' = "done"
         /\ cpc'[i] # "own" /\ replies'[i] = 0 /\ Aborting(i)' => Status(i)' = "aborting"
         /\ cpc'[i] # "own" /\ replies'[i] = 0 /\ ~Aborting(i)' => Status(i)' = "pending"
         /\ replies[i] \in {0, 1} /\ replies'[i] \in {0, 1}
<1>1. replies[i] \in {0, 1} /\ replies'[i] \in {0, 1}
  BY DEF IInv, Removed
<1> QED  BY <1>1 DEF Status

\* A step that leaves a request's slot, its reply and its abort alone.
Untouched(i) ==
  /\ cpc'[i] = "own" <=> cpc[i] = "own"
  /\ cpc'[i] = "reply" <=> cpc[i] = "reply"
  /\ replies'[i] = replies[i]
  /\ \A u \in Units : i \in owed'[u] <=> i \in owed[u]
  /\ \A s \in Slots : slots[s].ior = i \/ slots'[s].ior = i =>
       slots'[s].ior = slots[s].ior /\ slots'[s].life.abort = slots[s].life.abort

\* Such a step does not move the request.
LEMMA UntouchedStatus ==
  ASSUME IInv, IInv', NEW i \in Iors, Untouched(i)
  PROVE  Status(i)' = Status(i)
<1>1. Aborting(i)' <=> Aborting(i)
  BY DEF Aborting, SlotsOf, Untouched
<1>2. CASE cpc[i] = "own"
  BY <1>2, StatusCases DEF Untouched
<1>3. CASE cpc[i] # "own" /\ replies[i] = 1
  BY <1>3, StatusCases DEF Untouched
<1>4. CASE cpc[i] # "own" /\ replies[i] = 0 /\ Aborting(i)
  BY <1>1, <1>4, StatusCases DEF Untouched
<1>5. CASE cpc[i] # "own" /\ replies[i] = 0 /\ ~Aborting(i)
  BY <1>1, <1>5, StatusCases DEF Untouched
<1> QED  BY <1>2, <1>3, <1>4, <1>5, StatusCases

\* A step that moves no request and no result that a caller can see.
LEMMA StutterStep ==
  ASSUME IInv, IInv',
         \A i \in Iors : Untouched(i) /\ (Status(i) = "done" => err'[i] = err[i])
  PROVE  UNCHANGED RequestVars
<1>1. \A i \in Iors : Status(i)' = Status(i)
  BY UntouchedStatus
<1> QED  BY <1>1 DEF RequestVars


\* Every move of one request that UsbRequests allows.
LEMMA OneMove ==
  ASSUME IInv, IInv', NEW i \in Iors,
         \A j \in Iors \ {i} : Untouched(j) /\ err'[j] = err[j],
         \/ Status(i) = "caller" /\ Status(i)' = "pending"
         \/ Status(i) = "caller" /\ Status(i)' = "done" /\ err'[i] = "nomem"
         \/ Status(i) = "pending" /\ Status(i)' = "aborting"
         \/ Status(i) = "pending" /\ Status(i)' = "done" /\ err'[i] = "done"
         \/ Status(i) = "aborting" /\ Status(i)' = "done" /\ err'[i] = "aborted"
         \/ Status(i) = "done" /\ Status(i)' = "done" /\ err'[i] = "aborted"
         \/ Status(i) = "done" /\ Status(i)' = "caller"
  PROVE  Request!Next
<1>1. \A j \in Iors \ {i} : Status(j)' = Status(j) /\ Result(j)' = Result(j)
  BY UntouchedStatus DEF Result
<1>2. CASE Status(i) = "caller" /\ Status(i)' = "pending"
  <2>1. Request!Submit(i)
    BY <1>1, <1>2 DEF Request!Submit, Result
  <2> QED  BY <2>1 DEF Request!Next
<1>3. CASE Status(i) = "caller" /\ Status(i)' = "done" /\ err'[i] = "nomem"
  <2>1. Request!Submit(i)
    BY <1>1, <1>3 DEF Request!Submit, Result
  <2> QED  BY <2>1 DEF Request!Next
<1>4. CASE Status(i) = "pending" /\ Status(i)' = "aborting"
  <2>1. Request!Abort({i})
    BY <1>1, <1>4 DEF Request!Abort, Result
  <2> QED  BY <2>1 DEF Request!Next
<1>5. CASE Status(i) = "pending" /\ Status(i)' = "done" /\ err'[i] = "done"
  <2>1. Request!Complete(i)
    BY <1>1, <1>5 DEF Request!Complete, Result
  <2> QED  BY <2>1 DEF Request!Next
<1>6. CASE Status(i) = "aborting" /\ Status(i)' = "done" /\ err'[i] = "aborted"
  <2>1. Request!Complete(i)
    BY <1>1, <1>6 DEF Request!Complete, Result
  <2> QED  BY <2>1 DEF Request!Next
<1>7. CASE Status(i) = "done" /\ Status(i)' = "done" /\ err'[i] = "aborted"
  <2>1. Request!LateAbort(i)
    BY <1>1, <1>7 DEF Request!LateAbort, Result
  <2> QED  BY <2>1 DEF Request!Next
<1>8. CASE Status(i) = "done" /\ Status(i)' = "caller"
  <2>1. Request!Reclaim(i)
    BY <1>1, <1>8 DEF Request!Reclaim, Result
  <2> QED  BY <2>1 DEF Request!Next
<1> QED  BY <1>2, <1>3, <1>4, <1>5, <1>6, <1>7, <1>8

\* The slots change, the requests in them do not.
SameRequests == \A s \in Slots : /\ slots'[s].ior = slots[s].ior
                                 /\ slots'[s].life.abort = slots[s].life.abort

\* Steps of the poll task between two requests move none.
LEMMA SameRequestsStutter ==
  ASSUME IInv, IInv', SameRequests, UNCHANGED <<cpc, replies, owed>>,
         \A i \in Iors : Status(i) = "done" => err'[i] = err[i]
  PROVE  UNCHANGED RequestVars
<1>1. \A i \in Iors : Untouched(i)
  BY DEF Untouched, SameRequests
<1> QED  BY <1>1, StutterStep

\* enqueue_work: the request is pending.
LEMMA EnqueueMoves ==
  ASSUME NEW i \in Iors, IInv, IInv', Enqueue(i)
  PROVE  Request!Next
<1>1. PICK s \in Slots : s = First(Free) /\ ~InUse(s)
  BY FirstIsFree DEF Enqueue
<1>2. /\ slots' = [slots EXCEPT ![s] = [ior |-> i, seq |-> 0, delay |-> 0,
                 life |-> [state |-> "queued", id |-> 0, abort |-> FALSE, claimed |-> FALSE]]]
      /\ cpc' = [cpc EXCEPT ![i] = "signal"] /\ cpc[i] = "own"
      /\ replies' = [replies EXCEPT ![i] = 0]
      /\ err' = [err EXCEPT ![i] = "none"] /\ owed' = owed
  BY <1>1 DEF Enqueue, zzusb_engine_queue, FreeLife
<1>3. TypeOK /\ slots[s].ior = NoIor
  BY <1>1 DEF IInv, InUse
<1>4. \A t \in Slots : slots[t].ior # i
  BY <1>2, NoIorAssumption DEF IInv, HeldByDriver, InUse
<1>5. \A u \in Units : i \notin owed[u]
  BY <1>2 DEF IInv, Removed
<1>6. \A t \in Slots : slots'[t].ior = i => ~slots'[t].life.abort
  BY <1>2, <1>3, <1>4 DEF TypeOK
<1>7. cpc'[i] = "signal" /\ replies'[i] = 0
  BY <1>2, <1>3 DEF TypeOK
<1>8. ~Aborting(i)'
  BY <1>2, <1>5, <1>6, <1>7 DEF Aborting, SlotsOf
<1>9. Status(i) = "caller" /\ Status(i)' = "pending"
  BY <1>2, <1>7, <1>8, StatusCases
<1>10. \A j \in Iors \ {i} : Untouched(j) /\ err'[j] = err[j]
  BY <1>2, <1>3, NoIorAssumption DEF TypeOK, Untouched
<1> QED  BY <1>9, <1>10, OneMove

\* begin_io without a slot: the request is done, out of memory.
LEMMA RefuseMoves ==
  ASSUME NEW i \in Iors, IInv, IInv', Refuse(i)
  PROVE  Request!Next
<1>1. /\ UNCHANGED <<slots, owed>> /\ cpc[i] = "own"
      /\ cpc' = [cpc EXCEPT ![i] = "sent"] /\ replies' = [replies EXCEPT ![i] = 1]
      /\ err' = [err EXCEPT ![i] = "nomem"]
  BY DEF Refuse, queueVars
<1>2. cpc'[i] = "sent" /\ replies'[i] = 1 /\ err'[i] = "nomem"
  BY <1>1 DEF IInv, TypeOK
<1>3. Status(i) = "caller" /\ Status(i)' = "done"
  BY <1>1, <1>2, StatusCases
<1>4. \A j \in Iors \ {i} : Untouched(j) /\ err'[j] = err[j]
  BY <1>1 DEF IInv, TypeOK, Untouched
<1> QED  BY <1>2, <1>3, <1>4, OneMove

\* The signal moves nothing.
LEMMA SignalWorkerMoves ==
  ASSUME NEW i \in Iors, IInv, IInv', SignalWorker(i)
  PROVE  UNCHANGED RequestVars
<1>1. /\ UNCHANGED <<slots, owed, replies, err>> /\ cpc[i] = "signal"
      /\ cpc' = [cpc EXCEPT ![i] = "sent"]
  BY DEF SignalWorker, queueVars
<1>2. \A j \in Iors : Untouched(j) /\ err'[j] = err[j]
  BY <1>1 DEF IInv, TypeOK, Untouched
<1> QED  BY <1>2, StutterStep

\* abort_work_ior removes a pending request, which is aborting from then on.
LEMMA AbortQueuedMoves ==
  ASSUME NEW i \in Iors, IInv, IInv', AbortQueued(i)
  PROVE  Request!Next
<1>1. PICK s \in Slots :
        /\ slots[s].ior = i
        /\ zzusb_engine_abort(slots[s].life).state = "terminal"
        /\ slots' = [slots EXCEPT ![s] = EmptySlot]
        /\ cpc' = [cpc EXCEPT ![i] = IF Claims(zzusb_engine_abort(slots[s].life))
                                     THEN "reply" ELSE "signal"]
  BY DEF AbortQueued, SlotsOf
<1>2. InUse(s) /\ Holds(s)
  BY <1>1, InUseHolds, NoIorAssumption DEF InUse
<1>3. /\ slots[s].life.state = "queued" /\ ~slots[s].life.abort
      /\ Claims(zzusb_engine_abort(slots[s].life))
  BY <1>1, <1>2, AbortLife DEF Holds, Lives
<1>4. /\ cpc' = [cpc EXCEPT ![i] = "reply"] /\ cpc[i] = "sent"
      /\ err' = [err EXCEPT ![i] = "aborted"] /\ UNCHANGED <<replies, owed>>
  BY <1>1, <1>3 DEF AbortQueued
<1>5. replies[i] = 0 /\ \A u \in Units : i \notin owed[u]
  BY <1>1, <1>2 DEF IInv, HeldByDriver
<1>6. \A t \in Slots : slots[t].ior = i => t = s
  BY <1>1, <1>2 DEF IInv, HeldByDriver, SlotsOf
<1>7. ~Aborting(i)
  BY <1>3, <1>4, <1>5, <1>6 DEF Aborting, SlotsOf
<1>8. cpc'[i] = "reply" /\ replies'[i] = 0 /\ Aborting(i)'
  BY <1>4, <1>5 DEF IInv, TypeOK, Aborting
<1>9. Status(i) = "pending" /\ Status(i)' = "aborting"
  BY <1>4, <1>5, <1>7, <1>8, StatusCases
<1>10. \A j \in Iors \ {i} : Untouched(j) /\ err'[j] = err[j]
  BY <1>1, <1>4, NoIorAssumption DEF IInv, TypeOK, Untouched, EmptySlot
<1> QED  BY <1>9, <1>10, OneMove

\* The abort flag of a flagged slot.
LEMMA FlagSets ==
  ASSUME IInv, NEW s \in Slots, InUse(s),
         slots'[s] = [slots[s] EXCEPT !.life = [slots[s].life EXCEPT !.abort = TRUE]]
  PROVE  slots'[s].ior = slots[s].ior /\ slots'[s].life.abort
<1>1. Holds(s) /\ slots[s] \in SlotRecords
  BY InUseHolds DEF IInv, TypeOK
<1>2. /\ slots'[s].ior = slots[s].ior
      /\ slots'[s].life = [slots[s].life EXCEPT !.abort = TRUE]
  BY <1>1 DEF SlotRecords
<1> QED  BY <1>1, <1>2 DEF Holds, Lives

\* abort_work_ior flags a running request; a second abort changes nothing.
LEMMA AbortRunningMoves ==
  ASSUME NEW i \in Iors, IInv, IInv', AbortRunning(i)
  PROVE  [Request!Next]_RequestVars
<1>1. PICK s \in Slots :
        /\ slots[s].ior = i
        /\ zzusb_engine_abort(slots[s].life).state # "terminal"
        /\ slots' = [slots EXCEPT ![s].life = zzusb_engine_abort(slots[s].life)]
  BY DEF AbortRunning, SlotsOf
<1>2. InUse(s) /\ Holds(s)
  BY <1>1, InUseHolds, NoIorAssumption DEF InUse
<1>3. /\ slots[s].life.state = "in_flight"
      /\ zzusb_engine_abort(slots[s].life) = [slots[s].life EXCEPT !.abort = TRUE]
  BY <1>1, <1>2, AbortLife DEF Holds, Lives
<1>4. slots'[s] = [slots[s] EXCEPT !.life = [slots[s].life EXCEPT !.abort = TRUE]]
  BY <1>1, <1>3 DEF IInv, TypeOK
<1>5. \A t \in Slots : t # s => slots'[t] = slots[t]
  BY <1>1 DEF IInv, TypeOK
<1>6. slots'[s].ior = i /\ slots'[s].life.abort
  BY <1>1, <1>2, <1>4, FlagSets
<1>7. UNCHANGED <<cpc, replies, err, owed>> /\ cpc[i] = "sent"
  BY DEF AbortRunning, callerVars
<1>8. \A j \in Iors \ {i} : Untouched(j) /\ err'[j] = err[j]
  BY <1>1, <1>5, <1>6, <1>7 DEF Untouched
<1>9. replies[i] = 0 /\ Aborting(i)'
  BY <1>1, <1>2, <1>6 DEF IInv, HeldByDriver, Aborting, SlotsOf
<1>10. Status(i)' = "aborting"
  BY <1>7, <1>9, StatusCases
<1>11. CASE Aborting(i)
  <2>1. Status(i) = "aborting"
    BY <1>7, <1>9, <1>11, StatusCases
  <2>2. \A j \in Iors : Status(j)' = Status(j)
    BY <1>8, <1>10, <2>1, UntouchedStatus
  <2> QED  BY <1>7, <2>2 DEF RequestVars
<1>12. CASE ~Aborting(i)
  <2>1. Status(i) = "pending"
    BY <1>7, <1>9, <1>12, StatusCases
  <2> QED  BY <1>8, <1>10, <2>1, OneMove
<1> QED  BY <1>11, <1>12

\* abort_io replies a request that it removed: it is done, and aborted.
LEMMA AbortReplyMoves ==
  ASSUME NEW i \in Iors, IInv, IInv', AbortReply(i)
  PROVE  Request!Next
<1>1. /\ UNCHANGED <<slots, owed, err>> /\ cpc[i] = "reply"
      /\ cpc' = [cpc EXCEPT ![i] = "sent"] /\ replies' = [replies EXCEPT ![i] = @ + 1]
  BY DEF AbortReply, queueVars
<1>2. replies[i] = 0 /\ err[i] = "aborted"
  BY <1>1 DEF IInv, Removed
<1>3. cpc'[i] = "sent" /\ replies'[i] = 1
  BY <1>1, <1>2 DEF IInv, TypeOK
<1>4. Status(i) = "aborting" /\ Status(i)' = "done"
  BY <1>1, <1>2, <1>3, StatusCases DEF Aborting
<1>5. \A j \in Iors \ {i} : Untouched(j) /\ err'[j] = err[j]
  BY <1>1 DEF IInv, TypeOK, Untouched
<1> QED  BY <1>1, <1>2, <1>4, <1>5, OneMove

\* abort_io of a request that is nowhere changes at most a finished result.
LEMMA AbortGoneMoves ==
  ASSUME NEW i \in Iors, IInv, IInv', AbortGone(i)
  PROVE  [Request!Next]_RequestVars
<1>1. /\ UNCHANGED <<slots, owed, cpc, replies>> /\ cpc[i] = "sent"
      /\ err' = [err EXCEPT ![i] = "aborted"]
  BY DEF AbortGone, queueVars
<1>2. \A j \in Iors : Untouched(j)
  BY <1>1 DEF Untouched
<1>3. err'[i] = "aborted" /\ \A j \in Iors \ {i} : err'[j] = err[j]
  BY <1>1 DEF IInv, TypeOK
<1>4. Status(i)' = Status(i)
  BY <1>2, UntouchedStatus
<1>5. CASE Status(i) = "done"
  BY <1>2, <1>3, <1>4, <1>5, OneMove
<1>6. CASE Status(i) # "done"
  BY <1>2, <1>3, <1>6, StutterStep
<1> QED  BY <1>5, <1>6

\* The caller takes the reply.
LEMMA ReclaimMoves ==
  ASSUME NEW i \in Iors, IInv, IInv', Reclaim(i)
  PROVE  Request!Next
<1>1. /\ UNCHANGED <<slots, owed, replies>> /\ cpc[i] = "sent" /\ replies[i] > 0
      /\ cpc' = [cpc EXCEPT ![i] = "own"] /\ err' = [err EXCEPT ![i] = "none"]
  BY DEF Reclaim, queueVars
<1>2. replies[i] = 1 /\ cpc'[i] = "own"
  BY <1>1 DEF IInv, TypeOK, Removed
<1>3. Status(i) = "done" /\ Status(i)' = "caller"
  BY <1>1, <1>2, StatusCases
<1>4. \A j \in Iors \ {i} : Untouched(j) /\ err'[j] = err[j]
  BY <1>1 DEF IInv, TypeOK, Untouched
<1> QED  BY <1>3, <1>4, OneMove

\* abort_unit_work: some pending requests of the unit are aborting from then on.
LEMMA FlushMoves ==
  ASSUME IInv, IInv', NEW u \in Units, abort_unit_work(u)
  PROVE  [Request!Next]_RequestVars
<1> USE NoIorAssumption
<1>1. PICK gone \in SUBSET Slots :
        /\ \A s \in gone : Holds(s) /\ slots[s].life.state = "queued"
                           /\ UnitOf[slots[s].ior] = u
        /\ slots' \in [Slots -> SlotRecords]
        /\ \A s \in gone : slots'[s] = EmptySlot
        /\ \A s \in Slots \ gone :
             \/ slots'[s] = slots[s]
             \/ /\ InUse(s) /\ slots[s].life.state = "in_flight" /\ Unit(s) = u
                /\ slots'[s] = [slots[s] EXCEPT !.life = [slots[s].life EXCEPT !.abort = TRUE]]
        /\ ahead' = Leaving(gone)
        /\ owed' = [owed EXCEPT ![u] = {slots[s].ior : s \in gone}]
        /\ err' = [i \in Iors |-> IF \E s \in gone : slots[s].ior = i
                                  THEN "aborted" ELSE err[i]]
  BY FlushSlots
<1>2. UNCHANGED <<cpc, replies>> /\ owed[u] = {} /\ owed \in [Units -> SUBSET Iors]
  BY DEF abort_unit_work, IInv, TypeOK
<1>3. ASSUME NEW s \in Slots, InUse(s)
      PROVE  /\ slots[s].ior \in Iors /\ replies[slots[s].ior] = 0
             /\ cpc[slots[s].ior] \in {"signal", "sent"}
             /\ \A v \in Units : slots[s].ior \notin owed[v]
             /\ \A t \in Slots : slots[t].ior = slots[s].ior => t = s
  BY <1>3, InUseHolds DEF IInv, HeldByDriver, SlotsOf, Holds
<1>4. \A s \in gone : InUse(s) /\ slots'[s].ior = NoIor /\ ~slots[s].life.abort
  BY <1>1 DEF InUse, Holds, EmptySlot
<1>5. \A s \in Slots \ gone : /\ slots'[s].ior = slots[s].ior
                              /\ slots'[s] = slots[s] \/ (InUse(s) /\ slots'[s].life.abort)
  BY <1>1, FlagSets
<1>6. ASSUME NEW i \in Iors
      PROVE  \/ Status(i)' = Status(i) /\ (Status(i) = "done" => err'[i] = err[i])
             \/ Status(i) = "pending" /\ Status(i)' = "aborting"
  <2>1. CASE \E s \in gone : slots[s].ior = i
    <3>1. PICK s \in gone : slots[s].ior = i
      BY <2>1
    <3>2. /\ replies[i] = 0 /\ cpc[i] \in {"signal", "sent"}
          /\ \A v \in Units : i \notin owed[v]
          /\ \A t \in Slots : slots[t].ior = i => t = s
      BY <1>3, <1>4, <3>1
    <3>3. ~Aborting(i)
      BY <1>4, <3>1, <3>2 DEF Aborting, SlotsOf
    <3>4. i \in owed'[u]
      BY <1>1, <1>2, <3>1
    <3>5. Aborting(i)'
      BY <3>4 DEF Aborting
    <3> QED  BY <1>2, <3>2, <3>3, <3>5, StatusCases
  <2>2. CASE \E s \in Slots \ gone : slots[s].ior = i /\ slots'[s] # slots[s]
    <3>1. PICK s \in Slots \ gone : slots[s].ior = i /\ slots'[s] # slots[s]
      BY <2>2
    <3>2. InUse(s) /\ slots'[s].ior = i /\ slots'[s].life.abort
      BY <1>5, <3>1
    <3>3. replies[i] = 0 /\ cpc[i] \in {"signal", "sent"}
      BY <1>3, <3>1, <3>2
    <3>4. Aborting(i)'
      BY <3>2 DEF Aborting, SlotsOf
    <3> QED  BY <1>2, <3>3, <3>4, StatusCases
  <2>3. CASE /\ ~\E s \in gone : slots[s].ior = i
             /\ ~\E s \in Slots \ gone : slots[s].ior = i /\ slots'[s] # slots[s]
    <3>1. err'[i] = err[i]
      BY <1>1, <2>3
    <3>2. \A v \in Units : i \in owed'[v] <=> i \in owed[v]
      BY <1>1, <1>2, <2>3
    <3>3. ASSUME NEW s \in Slots, slots[s].ior = i \/ slots'[s].ior = i
          PROVE  slots'[s] = slots[s]
      BY <1>4, <1>5, <2>3, <3>3
    <3>4. Untouched(i)
      BY <1>2, <3>2, <3>3 DEF Untouched
    <3> QED  BY <3>1, <3>4, UntouchedStatus
  <2> QED  BY <2>1, <2>2, <2>3
<1>7. PICK set \in SUBSET Iors :
        set = {i \in Iors : Status(i) = "pending" /\ Status(i)' = "aborting"}
  OBVIOUS
<1>8. CASE set = {}
  <2>1. \A i \in Iors : Status(i)' = Status(i) /\ (Status(i) = "done" => err'[i] = err[i])
    BY <1>6, <1>7, <1>8
  <2> QED  BY <2>1 DEF RequestVars
<1>9. CASE set # {}
  <2>1. \A i \in Iors : /\ Status(i)' = IF i \in set THEN "aborting" ELSE Status(i)
                        /\ Result(i)' = Result(i)
    BY <1>6, <1>7 DEF Result
  <2>2. Request!Abort(set)
    BY <1>7, <1>9, <2>1 DEF Request!Abort, Result
  <2> QED  BY <2>2 DEF Request!Next
<1> QED  BY <1>8, <1>9

\* Its replies: aborted.
LEMMA FlushReplyMoves ==
  ASSUME IInv, IInv', NEW u \in Units, FlushReply(u)
  PROVE  Request!Next
<1>1. PICK i \in owed[u] : /\ replies' = [replies EXCEPT ![i] = @ + 1]
                           /\ owed' = [owed EXCEPT ![u] = @ \ {i}]
  BY DEF FlushReply
<1>2. UNCHANGED <<slots, cpc, err>>
  BY DEF FlushReply, queueVars
<1>3. /\ i \in Iors /\ UnitOf[i] = u /\ replies[i] = 0 /\ err[i] = "aborted"
      /\ cpc[i] \in {"signal", "sent"}
  BY <1>1 DEF IInv, TypeOK, Removed
<1>4. replies'[i] = 1
  BY <1>1, <1>3 DEF IInv, TypeOK
<1>5. Aborting(i)
  BY <1>1 DEF Aborting
<1>6. Status(i) = "aborting" /\ Status(i)' = "done"
  BY <1>2, <1>3, <1>4, <1>5, StatusCases
<1>7. \A j \in Iors \ {i} : Untouched(j) /\ err'[j] = err[j]
  BY <1>1, <1>2 DEF IInv, TypeOK, Untouched
<1> QED  BY <1>2, <1>3, <1>6, <1>7, OneMove

\* process_work_queue takes a request in hand: its caller sees nothing.
LEMMA SelectMoves ==
  ASSUME IInv, IInv', Select
  PROVE  UNCHANGED RequestVars
<1>1. UNCHANGED <<cpc, replies, err, owed>>
  BY DEF Select, callerVars
<1>2. CASE ~work_queue_pending
  BY <1>1, <1>2, SameRequestsStutter DEF Select, SameRequests
<1>3. CASE work_queue_pending
  <2>1. PICK s \in Slots : s = Pick /\ Ready(s)
    BY <1>3, PickIsReady DEF IInv
  <2>2. PICK q \in 1..(SeqMod - 1) : q = NextSequence(workSeq)
    BY SequenceNotZero DEF IInv
  <2>3. slots' = [slots EXCEPT
              ![s].life = zzusb_engine_begin(zzusb_engine_dispatch(slots[s].life), q),
              ![s].seq = q]
    BY <1>3, <2>1, <2>2 DEF Select
  <2>4. PICK l \in Lives : l = slots[s].life /\ l.state = "queued"
    BY <2>1, InUseHolds DEF Ready, Holds
  <2>5. zzusb_engine_begin(zzusb_engine_dispatch(slots[s].life), q) = Moved(l, "in_flight", q)
    BY <2>4, BeginLife DEF Moved
  <2>6. slots'[s].ior = slots[s].ior /\ slots'[s].life = Moved(l, "in_flight", q)
    BY <2>3, <2>5 DEF IInv, TypeOK, SlotRecords
  <2>7. q \in 0..(SeqMod - 1)
    BY SizesAssumption
  <2>8. slots'[s].life.abort = slots[s].life.abort
    BY <2>4, <2>6, <2>7, LifeChange
  <2>9. \A t \in Slots : t # s => slots'[t] = slots[t]
    BY <2>3 DEF IInv, TypeOK
  <2>10. SameRequests
    BY <2>6, <2>8, <2>9 DEF SameRequests
  <2> QED  BY <1>1, <2>10, SameRequestsStutter
<1> QED  BY <1>2, <1>3

\* execute_io sets the io_Error of a request that is not done yet.
LEMMA ExecuteReturnMoves ==
  ASSUME IInv, IInv', ExecuteReturn
  PROVE  UNCHANGED RequestVars
<1>1. PICK i \in Iors : /\ i = slots[active].ior /\ replies[i] = 0
                        /\ cpc[i] \in {"signal", "sent"}
  BY ActiveHolds DEF ExecuteReturn
<1>2. PICK r : err' = [err EXCEPT ![i] = r]
  BY <1>1 DEF ExecuteReturn
<1>3. UNCHANGED <<slots, cpc, replies, owed>>
  BY DEF ExecuteReturn, queueVars
<1>4. Status(i) # "done"
  BY <1>1, StatusCases
<1>5. \A j \in Iors : Status(j) = "done" => err'[j] = err[j]
  BY <1>2, <1>4 DEF IInv, TypeOK
<1>6. SameRequests
  BY <1>3 DEF SameRequests
<1> QED  BY <1>3, <1>5, <1>6, SameRequestsStutter

\* A retry is not seen by the caller.
LEMMA FinishRetryMoves ==
  ASSUME IInv, IInv', FinishRetry
  PROVE  UNCHANGED RequestVars
<1>1. PICK s \in Slots : s = active
  BY ActiveHolds DEF FinishRetry
<1>2. PICK i \in Iors : i = slots[s].ior /\ replies[i] = 0 /\ cpc[i] \in {"signal", "sent"}
  BY <1>1, ActiveHolds DEF FinishRetry
<1>3. PICK l \in Lives : l = slots[s].life
  BY <1>1, ActiveHolds DEF FinishRetry, Holds
<1>4. /\ slots' = [slots EXCEPT ![s].life = Moved(l, "queued", 0)]
      /\ err' = [err EXCEPT ![i] = "none"] /\ UNCHANGED <<cpc, replies, owed>>
  BY <1>1, <1>2, <1>3 DEF FinishRetry, zzusb_engine_retry, Moved
<1>5. slots'[s].ior = slots[s].ior /\ slots'[s].life = Moved(l, "queued", 0)
  BY <1>4 DEF IInv, TypeOK, SlotRecords
<1>6. 0 \in 0..(SeqMod - 1)
  BY SizesAssumption
<1>7. slots'[s].life.abort = slots[s].life.abort
  BY <1>3, <1>5, <1>6, LifeChange
<1>8. SameRequests
  BY <1>4, <1>5, <1>7 DEF SameRequests, IInv, TypeOK
<1>9. Status(i) # "done"
  BY <1>2, StatusCases
<1>10. \A j \in Iors : Status(j) = "done" => err'[j] = err[j]
  BY <1>4, <1>9 DEF IInv, TypeOK
<1> QED  BY <1>4, <1>8, <1>10, SameRequestsStutter

\* process_work_queue replies: done, or aborted if AbortIO or a flush came
\* first.
LEMMA FinishReplyMoves ==
  ASSUME IInv, IInv', FinishReply
  PROVE  Request!Next
<1>1. PICK s \in Slots : s = active
  BY ActiveHolds DEF FinishReply
<1>2. PICK i \in Iors : i = slots[s].ior
  BY <1>1, ActiveHolds DEF FinishReply
<1>3. /\ InUse(s) /\ Holds(s) /\ slots[s].life.state = "in_flight"
      /\ replies[i] = 0 /\ cpc[i] \in {"signal", "sent"}
      /\ \A u \in Units : i \notin owed[u]
  BY <1>1, <1>2, ActiveHolds DEF FinishReply
<1>4. Claims(zzusb_engine_complete(slots[s].life, slots[s].seq))
  BY <1>3, CompleteLife
<1>5. /\ err' = [err EXCEPT ![i] = IF slots[s].life.abort THEN "aborted" ELSE @]
      /\ replies' = [replies EXCEPT ![i] = @ + 1]
      /\ slots' = [slots EXCEPT ![s] = EmptySlot]
      /\ UNCHANGED <<cpc, owed>>
  BY <1>1, <1>2, <1>4 DEF FinishReply
<1>6. \A t \in Slots : slots[t].ior = i => t = s
  BY <1>2, <1>3 DEF IInv, HeldByDriver, SlotsOf
<1>7. Aborting(i) <=> slots[s].life.abort
  BY <1>2, <1>3, <1>6 DEF Aborting, SlotsOf
<1>8. replies'[i] = 1 /\ Status(i)' = "done"
  <2>1. replies'[i] = 1
    BY <1>3, <1>5 DEF IInv, TypeOK
  <2> QED  BY <1>3, <1>5, <2>1, StatusCases
<1>9. \A j \in Iors \ {i} : Untouched(j) /\ err'[j] = err[j]
  BY <1>2, <1>5, NoIorAssumption DEF IInv, TypeOK, Untouched, EmptySlot
<1>10. CASE slots[s].life.abort
  <2>1. Status(i) = "aborting"
    BY <1>3, <1>7, <1>10, StatusCases
  <2>2. err'[i] = "aborted"
    BY <1>5, <1>10 DEF IInv, TypeOK
  <2> QED  BY <1>8, <1>9, <2>1, <2>2, OneMove
<1>11. CASE ~slots[s].life.abort
  <2>1. Status(i) = "pending"
    BY <1>3, <1>7, <1>11, StatusCases
  <2>2. err[i] # "nak"
    BY <1>1, <1>2, <1>3, <1>11 DEF FinishReply, bulk_in_waits_for_data, CanRetry
  <2>3. err[i] = "done"
    BY <1>1, <1>2, <2>2 DEF IInv, InHand, FinishReply
  <2>4. err'[i] = "done"
    BY <1>5, <1>11, <2>3 DEF IInv, TypeOK
  <2> QED  BY <1>8, <1>9, <2>1, <2>4, OneMove
<1> QED  BY <1>10, <1>11

\* Backoffs, timers, waits and the clock are not seen by the callers.
LEMMA BetweenMoves ==
  ASSUME IInv, IInv',
         \/ Account \/ Publish \/ PollDelay \/ ArmExpired \/ Arm \/ Wake
         \/ WakeSignal \/ Tick \/ UNCHANGED vars
  PROVE  UNCHANGED RequestVars
<1>1. UNCHANGED <<cpc, replies, err, owed>>
  BY DEF Account, Publish, PollDelay, ArmExpired, Arm, Wake, WakeSignal, Tick, vars, callerVars
<1>2. passed \in Nat /\ slots \in [Slots -> SlotRecords]
  BY DEF IInv, TypeOK
<1>3. SameRequests
  <2>1. CASE Publish
    <3>0. PICK s \in Slots : \E d : slots' = [slots EXCEPT ![s].delay = d]
      BY <2>1 DEF Publish, IInv, InHand
    <3>1. PICK d : slots' = [slots EXCEPT ![s].delay = d]
      BY <3>0
    <3>2. slots'[s].ior = slots[s].ior /\ slots'[s].life = slots[s].life
      BY <1>2, <3>1 DEF SlotRecords
    <3> QED  BY <1>2, <3>1, <3>2 DEF SameRequests
  <2>2. CASE Account \/ ArmExpired \/ Wake
    BY <2>2, ChargeKeeps DEF Account, ArmExpired, Wake, OnlyDelays, SameRequests
  <2>3. CASE Arm
    <3>1. slots' = work_queue_advance_delay(passed) \/ UNCHANGED slots
      BY <2>3 DEF Arm
    <3> QED  BY <1>2, <3>1, AdvanceDelays DEF OnlyDelays, SameRequests
  <2>4. CASE PollDelay \/ WakeSignal \/ Tick \/ UNCHANGED vars
    BY <2>4 DEF PollDelay, WakeSignal, Tick, vars, queueVars, SameRequests
  <2> QED  BY <2>1, <2>2, <2>3, <2>4
<1> QED  BY <1>1, <1>3, SameRequestsStutter

\* "exact-once request retirement" (README.md) for any number of requests,
\* slots and units: every step of the queue is a step of UsbRequests or none.
THEOREM RetiredExactlyOnce == Spec => RequestSpec
<1>1. Init => Request!Init
  BY DEF Init, Request!Init, Status
<1>2. IInv /\ IInv' /\ [Next]_vars => [Request!Next]_RequestVars
  <2> SUFFICES ASSUME IInv, IInv', [Next]_vars
               PROVE  [Request!Next]_RequestVars
    OBVIOUS
  <2>1. ASSUME NEW i \in Iors,
               \/ Enqueue(i) \/ Refuse(i) \/ AbortQueued(i) \/ AbortRunning(i)
               \/ AbortGone(i) \/ Reclaim(i) \/ CallerStep(i)
        PROVE  [Request!Next]_RequestVars
    BY <2>1, EnqueueMoves, RefuseMoves, AbortQueuedMoves, AbortRunningMoves,
       AbortGoneMoves, ReclaimMoves, SignalWorkerMoves, AbortReplyMoves DEF CallerStep
  <2>2. ASSUME NEW u \in Units, abort_unit_work(u) \/ FlushReply(u)
        PROVE  [Request!Next]_RequestVars
    BY <2>2, FlushMoves, FlushReplyMoves
  <2>3. ASSUME WorkerStep \/ Tick \/ UNCHANGED vars
        PROVE  [Request!Next]_RequestVars
    BY <2>3, SelectMoves, ExecuteReturnMoves, FinishRetryMoves, FinishReplyMoves,
       BetweenMoves DEF WorkerStep
  <2> QED  BY <2>1, <2>2, <2>3 DEF Next
<1> QED  BY <1>1, <1>2, Inductive, PTL DEF Spec, RequestSpec, Request!Spec, RequestVars
=============================================================================
