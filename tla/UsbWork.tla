------------------------------ MODULE UsbWork ------------------------------
(***************************************************************************)
(* The work queue of zzusbhw.device: WorkSlots[], the request lifecycle of *)
(* zzusb_engine.c, the poll task that executes requests one by one, idle   *)
(* bulk-IN retries with their backoff and the worker timer, AbortIO and    *)
(* CMD_RESET / CMD_FLUSH.  A Forbid/Permit section is one step.  What a    *)
(* transfer does on the wire is the choice of its io_Error; enqueue_seq    *)
(* is kept as the order of the slots, not as 32-bit numbers.               *)
(***************************************************************************)
EXTENDS Integers

CONSTANTS Iors,      \* requests with a command that uses the worker
          Units,     \* the controller units
          UnitOf,    \* io_Unit of each request
          Waits,     \* bulk-IN requests without UHFF_NAKTIMEOUT
          MayAbort,  \* requests whose caller may call AbortIO
          NumSlots,  \* ZZ_WORK_SLOTS
          SeqMod,    \* values of WorkSequence (2^32 in the code)
          Backoff,   \* ZZUSB_IDLE_BULK_RETRY_US, in ticks
          PollMax    \* what is left of the 100 ms root hub poll, in ticks

Slots == 1..NumSlots
NoIor == "NULL"
NoRetry == [slot |-> 1, ior |-> NoIor, seq |-> 0]

ASSUME UnitOfAssumption == UnitOf \in [Iors -> Units]
ASSUME WaitsAssumption  == Waits \subseteq Iors /\ MayAbort \subseteq Iors
ASSUME SizesAssumption  ==
  /\ NumSlots \in Nat \ {0} /\ SeqMod \in Nat \ {0, 1}
  /\ Backoff \in Nat \ {0} /\ PollMax \in Nat \ {0}
ASSUME NoIorAssumption  == NoIor \notin Iors

VARIABLES
  slots,    \* WorkSlots[]
  ahead,    \* the slots in use with a smaller enqueue_seq, for each slot
  workSeq,  \* WorkSequence
  active,   \* ActiveWorkSlot, 0 for NULL
  wpc,      \* where the poll task is in its loop
  retry,    \* new_retry, new_retry_ior, new_retry_sequence
  sig,     \* zz_PollSignal is set in the poll task
  timer,    \* worker_timer.delay_us, 0 while no timer is pending
  passed,   \* time since timer_started_us
  poll,    \* poll_delay_us, 0 when nothing is pending
  cpc,      \* where the caller of each request is
  replies,  \* replies of the current submission of each request
  err,      \* io_Error of each request
  owed      \* requests CMD_RESET or CMD_FLUSH of a unit removed and must reply

queueVars  == <<slots, ahead>>
timerVars  == <<timer, passed, poll>>
callerVars == <<cpc, replies, err>>
vars == <<slots, ahead, workSeq, active, wpc, retry, sig, timer, passed, poll,
          cpc, replies, err, owed>>

-----------------------------------------------------------------------------
(* zzusb_engine.c: the lifecycle of a request.                             *)

FreeLife == [state |-> "free", id |-> 0, abort |-> FALSE, claimed |-> FALSE]

make_terminal(l) ==
  IF l.state \in {"free", "terminal"} THEN l ELSE [l EXCEPT !.state = "terminal"]

zzusb_engine_queue(l) ==
  IF l.state = "free" THEN [l EXCEPT !.state = "queued"] ELSE l

zzusb_engine_dispatch(l) ==
  IF l.state = "queued" THEN [l EXCEPT !.state = "dispatching"] ELSE l

zzusb_engine_begin(l, id) ==
  IF l.state = "dispatching" /\ id # 0
  THEN [l EXCEPT !.state = "in_flight", !.id = id] ELSE l

\* zzusb_engine_retry succeeds.
CanRetry(l) == l.state = "in_flight" /\ ~l.abort

zzusb_engine_retry(l) == [l EXCEPT !.state = "queued", !.id = 0]

\* An aborted request that is queued is terminal, any other only flagged.
zzusb_engine_abort(l) ==
  IF l.state \in {"free", "terminal"} \/ l.abort THEN l
  ELSE LET flagged == [l EXCEPT !.abort = TRUE]
       IN  IF l.state = "queued" THEN make_terminal(flagged) ELSE flagged

\* A completion with another id is late and changes nothing.
zzusb_engine_complete(l, id) ==
  IF l.state \in {"in_flight", "retiring"} /\ id = l.id
  THEN make_terminal(l) ELSE l

\* zzusb_engine_claim_reply succeeds.
Claims(l) == l.state = "terminal" /\ ~l.claimed

-----------------------------------------------------------------------------
(* The slots.                                                              *)

\* A cleared slot; enqueue_work resets the sequence and delay it still holds.
EmptySlot == [ior |-> NoIor, life |-> FreeLife, seq |-> 0, delay |-> 0]

InUse(s) == slots[s].ior # NoIor

\* The slots enqueue_work may take.
Free == {s \in Slots : ~InUse(s)}
SlotsOf(i) == {s \in Slots : slots[s].ior = i}
First(set) == CHOOSE s \in set : \A t \in set : s <= t

Ready(s) == InUse(s) /\ slots[s].life.state = "queued" /\ slots[s].delay = 0
work_queue_pending == \E s \in Slots : Ready(s)

Delayed == {s \in Slots : /\ InUse(s) /\ slots[s].life.state = "queued"
                          /\ slots[s].delay # 0}
work_queue_min_delay == IF Delayed = {} THEN 0
                        ELSE LET ds == {slots[s].delay : s \in Delayed}
                             IN  CHOOSE d \in ds : \A e \in ds : d <= e

work_queue_advance_delay(elapsed) ==
  [s \in Slots |->
     IF s \in Delayed
     THEN [slots[s] EXCEPT !.delay = IF @ > elapsed THEN @ - elapsed ELSE 0]
     ELSE slots[s]]

Used == {s \in Slots : InUse(s)}

\* Slots leave the queue, or one moves behind all others.
Leaving(gone) == [s \in Slots |-> IF s \in gone THEN {} ELSE ahead[s] \ gone]
Behind(s) == [t \in Slots |-> IF t = s THEN Used \ {s} ELSE ahead[t] \ {s}]

-----------------------------------------------------------------------------
(* Callers: BeginIO, AbortIO and the reply port.                           *)

\* begin_io with a free slot: enqueue_work up to Permit.
Enqueue(i) ==
  /\ cpc[i] = "own" /\ Free # {}
  /\ LET s == First(Free)
     IN  /\ slots' = [slots EXCEPT ![s] =
               [ior |-> i, life |-> zzusb_engine_queue(FreeLife),
                seq |-> 0, delay |-> 0]]
         /\ ahead' = Behind(s)
  /\ cpc' = [cpc EXCEPT ![i] = "signal"]
  /\ replies' = [replies EXCEPT ![i] = 0]
  /\ err' = [err EXCEPT ![i] = "none"]
  /\ UNCHANGED <<workSeq, active, wpc, retry, sig, timerVars, owed>>

\* begin_io without one: UHIOERR_OUTOFMEMORY.
Refuse(i) ==
  /\ cpc[i] = "own" /\ Free = {}
  /\ cpc' = [cpc EXCEPT ![i] = "sent"]
  /\ replies' = [replies EXCEPT ![i] = 1]
  /\ err' = [err EXCEPT ![i] = "nomem"]
  /\ UNCHANGED <<queueVars, workSeq, active, wpc, retry, sig, timerVars, owed>>

\* Leaves the poll task asleep.
NoSignal(i) ==
  /\ cpc[i] = "signal"
  /\ cpc' = [cpc EXCEPT ![i] = "sent"]
  /\ UNCHANGED <<queueVars, workSeq, active, wpc, retry, sig, timerVars, replies, err,
                 owed>>

\* enqueue_work after Permit: wake the poll task.
SignalWorker(i) ==
  /\ cpc[i] = "signal"
  /\ sig' = TRUE
  /\ cpc' = [cpc EXCEPT ![i] = "sent"]
  /\ UNCHANGED <<queueVars, workSeq, active, wpc, retry, timerVars, replies, err,
                 owed>>

\* abort_work_ior found the request queued: it leaves its slot.
AbortQueued(i) ==
  /\ i \in MayAbort /\ cpc[i] = "sent"
  /\ \E s \in SlotsOf(i) :
       LET life == zzusb_engine_abort(slots[s].life)
       IN  /\ life.state = "terminal"
           /\ slots' = [slots EXCEPT ![s] = EmptySlot]
           /\ ahead' = Leaving({s})
           /\ cpc' = [cpc EXCEPT ![i] = IF Claims(life) THEN "reply" ELSE "signal"]
  /\ err' = [err EXCEPT ![i] = "aborted"]
  /\ UNCHANGED <<workSeq, active, wpc, retry, sig, timerVars, replies,
                 owed>>

\* Replies at once although the transfer still runs.
AbortRunningReplies(i) ==
  /\ i \in MayAbort /\ cpc[i] = "sent"
  /\ \E s \in SlotsOf(i) :
       LET life == zzusb_engine_abort(slots[s].life)
       IN  life.state # "terminal" /\ slots' = [slots EXCEPT ![s].life = life]
  /\ cpc' = [cpc EXCEPT ![i] = "reply"]
  /\ UNCHANGED <<ahead, workSeq, active, wpc, retry, sig, timerVars, replies, err,
                 owed>>

\* abort_work_ior found it running: it is told, and the poll task signalled.
AbortRunning(i) ==
  /\ i \in MayAbort /\ cpc[i] = "sent"
  /\ \E s \in SlotsOf(i) :
       LET life == zzusb_engine_abort(slots[s].life)
       IN  life.state # "terminal" /\ slots' = [slots EXCEPT ![s].life = life]
  /\ sig' = TRUE
  /\ UNCHANGED <<ahead, workSeq, active, wpc, retry, timerVars, callerVars, owed>>

\* abort_work_ior after Permit signals, abort_io replies.
AbortReply(i) ==
  /\ cpc[i] = "reply"
  /\ sig' = TRUE
  /\ replies' = [replies EXCEPT ![i] = @ + 1]
  /\ cpc' = [cpc EXCEPT ![i] = "sent"]
  /\ UNCHANGED <<queueVars, workSeq, active, wpc, retry, timerVars, err,
                 owed>>

\* abort_io finds the request nowhere: it only sets io_Error.
AbortGone(i) ==
  /\ i \in MayAbort /\ cpc[i] = "sent" /\ SlotsOf(i) = {}
  /\ err' = [err EXCEPT ![i] = "aborted"]
  /\ UNCHANGED <<queueVars, workSeq, active, wpc, retry, sig, timerVars,
                 cpc, replies, owed>>

\* The caller takes the reply from its port and owns the request again.
Reclaim(i) ==
  /\ cpc[i] = "sent" /\ replies[i] > 0
  /\ cpc' = [cpc EXCEPT ![i] = "own"]
  /\ err' = [err EXCEPT ![i] = "none"]
  /\ UNCHANGED <<queueVars, workSeq, active, wpc, retry, sig, timerVars,
                 replies, owed>>

-----------------------------------------------------------------------------
(* CMD_RESET and CMD_FLUSH, on the task that called BeginIO.               *)

Unit(s) == UnitOf[slots[s].ior]

\* abort_unit_work up to Permit.
abort_unit_work(u) ==
  /\ owed[u] = {}
  /\ LET mine == {s \in Slots : InUse(s) /\ Unit(s) = u}
         life == [s \in mine |-> zzusb_engine_abort(slots[s].life)]
         gone == {s \in mine : life[s].state = "terminal"}
     IN  /\ slots' = [s \in Slots |->
                        IF s \in gone THEN EmptySlot
                        ELSE IF s \in mine THEN [slots[s] EXCEPT !.life = life[s]]
                        ELSE slots[s]]
         /\ ahead' = Leaving(gone)
         /\ owed' = [owed EXCEPT ![u] =
                       {slots[s].ior : s \in {t \in gone : Claims(life[t])}}]
         /\ err' = [i \in Iors |->
                      IF \E s \in gone : slots[s].ior = i THEN "aborted" ELSE err[i]]
  /\ UNCHANGED <<workSeq, active, wpc, retry, sig, timerVars, cpc, replies>>

\* Its replies, after Permit, one after another.
FlushReply(u) ==
  /\ \E i \in owed[u] :
       /\ replies' = [replies EXCEPT ![i] = @ + 1]
       /\ owed' = [owed EXCEPT ![u] = @ \ {i}]
  /\ UNCHANGED <<queueVars, workSeq, active, wpc, retry, sig, timerVars, cpc, err>>

-----------------------------------------------------------------------------
(* The poll task.                                                          *)

\* The ready slot with the smallest enqueue_seq.
Pick == CHOOSE s \in Slots : Ready(s) /\ \A t \in ahead[s] : ~Ready(t)

\* slot->sequence = WorkSequence++, again if that was 0.
NextSequence(n) == IF n = 0 THEN 1 ELSE n

\* process_work_queue up to the first Permit.
Select ==
  /\ wpc = "loop"
  /\ IF ~work_queue_pending
     THEN wpc' = "polls" /\ UNCHANGED <<slots, workSeq, active>>
     ELSE LET s == Pick
              seq == NextSequence(workSeq)
          IN  /\ slots' = [slots EXCEPT
                    ![s].life = zzusb_engine_begin(zzusb_engine_dispatch(@), seq),
                    ![s].seq = seq]
              /\ workSeq' = (seq + 1) % SeqMod
              /\ active' = s
              /\ wpc' = "execute"
  /\ UNCHANGED <<ahead, retry, sig, timerVars, callerVars, owed>>

\* execute_io returns with io_Error set; IOF_QUICK keeps it from replying.
\* "done" is success and every error but the NAK of an idle bulk-IN.
ExecuteReturn ==
  /\ wpc = "execute"
  /\ LET i == slots[active].ior
     IN  \E r \in {"done"} \cup {x \in {"nak"} : i \in Waits} :
           err' = [err EXCEPT ![i] = r]
  /\ wpc' = "finish"
  /\ UNCHANGED <<queueVars, workSeq, active, retry, sig, timerVars, cpc, replies,
                 owed>>

bulk_in_waits_for_data(i) == err[i] = "nak"

\* process_work_queue: an idle bulk-IN goes behind all queued work.
FinishRetry ==
  /\ wpc = "finish"
  /\ LET s == active
         i == slots[s].ior
     IN  /\ bulk_in_waits_for_data(i) /\ CanRetry(slots[s].life)
         /\ slots' = [slots EXCEPT ![s].life = zzusb_engine_retry(@)]
         /\ ahead' = Behind(s)
         /\ err' = [err EXCEPT ![i] = "none"]
         /\ retry' = [slot |-> s, ior |-> i, seq |-> slots[s].seq]
  /\ active' = 0
  /\ wpc' = "account"
  /\ UNCHANGED <<workSeq, sig, timerVars, cpc, replies, owed>>

\* Replies with the result of the transfer whether or not it was aborted.
FinishReplyUnchecked ==
  /\ wpc = "finish"
  /\ LET s == active
         i == slots[s].ior
         life == zzusb_engine_complete(slots[s].life, slots[s].seq)
     IN  /\ ~(bulk_in_waits_for_data(i) /\ CanRetry(slots[s].life))
         /\ err' = err
         /\ replies' = [replies EXCEPT ![i] = IF Claims(life) THEN @ + 1 ELSE @]
         /\ slots' = [slots EXCEPT ![s] = EmptySlot]
         /\ ahead' = Leaving({s})
  /\ active' = 0
  /\ wpc' = "polls"
  /\ UNCHANGED <<workSeq, retry, sig, timerVars, cpc, owed>>

\* process_work_queue: everything else is replied and leaves its slot.
FinishReply ==
  /\ wpc = "finish"
  /\ LET s == active
         i == slots[s].ior
         life == zzusb_engine_complete(slots[s].life, slots[s].seq)
     IN  /\ ~(bulk_in_waits_for_data(i) /\ CanRetry(slots[s].life))
         /\ err' = [err EXCEPT ![i] = IF slots[s].life.abort THEN "aborted" ELSE @]
         /\ replies' = [replies EXCEPT ![i] = IF Claims(life) THEN @ + 1 ELSE @]
         /\ slots' = [slots EXCEPT ![s] = EmptySlot]
         /\ ahead' = Leaving({s})
  /\ active' = 0
  /\ wpc' = "polls"
  /\ UNCHANGED <<workSeq, retry, sig, timerVars, cpc, owed>>

\* A pending timer's elapsed time, all of it once the timer request is done:
\* zzusb_worker_timer_expire, zzusb_worker_timer_account_elapsed.
ChargeElapsed ==
  /\ slots' = work_queue_advance_delay(passed)
  /\ timer' = timer - passed
  /\ passed' = 0

\* hotplug_poll_task: close the accounting interval before the new backoff.
Account ==
  /\ wpc = "account"
  /\ ChargeElapsed
  /\ wpc' = "publish"
  /\ UNCHANGED <<ahead, workSeq, active, retry, sig, poll, callerVars, owed>>

\* Gives the backoff to whatever is in the slot now.
PublishUnchecked ==
  /\ wpc = "publish"
  /\ slots' = [slots EXCEPT ![retry.slot].delay =
                 IF slots[retry.slot].life.state = "queued" THEN Backoff ELSE @]
  /\ retry' = NoRetry /\ wpc' = "polls"
  /\ UNCHANGED <<ahead, workSeq, active, sig, timerVars, callerVars, owed>>

\* The backoff is for the request that was retried, if it is still there.
Publish ==
  /\ wpc = "publish"
  /\ LET s == retry.slot
         same == /\ slots[s].ior = retry.ior /\ slots[s].seq = retry.seq
                 /\ slots[s].life.state = "queued" /\ slots[s].delay = 0
     IN  slots' = [slots EXCEPT ![s].delay = IF same THEN Backoff ELSE @]
  /\ retry' = NoRetry /\ wpc' = "polls"
  /\ UNCHANGED <<ahead, workSeq, active, sig, timerVars, callerVars, owed>>

\* The earliest deadline: a backoff, or a poll of the other queues.  Work that
\* arrived meanwhile comes first.
PollDelay ==
  /\ wpc = "polls"
  /\ IF work_queue_pending
     THEN wpc' = "loop" /\ UNCHANGED poll
     ELSE /\ \E other \in BOOLEAN :
               LET d == work_queue_min_delay
               IN  poll' = IF d # 0 /\ d < PollMax THEN d
                           ELSE IF d # 0 \/ other THEN PollMax ELSE 0
          /\ wpc' = "arm"
  /\ UNCHANGED <<queueVars, workSeq, active, retry, sig, timer, passed,
                 callerVars, owed>>

\* The timer request finished while the task was busy: start over.
ArmExpired ==
  /\ wpc = "arm" /\ timer # 0 /\ poll # 0 /\ passed = timer
  /\ ChargeElapsed
  /\ poll' = 0 /\ wpc' = "loop"
  /\ UNCHANGED <<ahead, workSeq, active, retry, sig, callerVars, owed>>

\* Keep a pending timer unless the new deadline is earlier; else arm one.
Arm ==
  /\ wpc = "arm"
  /\ ~(timer # 0 /\ poll # 0 /\ passed = timer)
  /\ IF timer # 0 /\ poll # 0 /\ poll < timer - passed
     THEN /\ slots' = work_queue_advance_delay(passed)
          /\ timer' = poll /\ passed' = 0
     ELSE /\ timer' = IF timer = 0 THEN poll ELSE timer
          /\ UNCHANGED <<slots, passed>>
  /\ poll' = 0 /\ wpc' = IF timer' # 0 THEN "wait" ELSE "sleep"
  /\ UNCHANGED <<ahead, workSeq, active, retry, sig, callerVars, owed>>

\* Wait(mask | timer_mask) returned.
Wake ==
  /\ wpc = "wait" /\ (sig \/ passed = timer)
  /\ sig' = FALSE
  /\ ChargeElapsed
  /\ wpc' = "loop"
  /\ UNCHANGED <<ahead, workSeq, active, retry, poll, callerVars, owed>>

\* Wait(mask) returned.
WakeSignal ==
  /\ wpc = "sleep" /\ sig
  /\ sig' = FALSE
  /\ wpc' = "loop"
  /\ UNCHANGED <<queueVars, workSeq, active, retry, timerVars, callerVars, owed>>

\* Time passes while a timer request is out; the steps that take any are the
\* transfer and the wait.
Tick ==
  /\ passed < timer /\ wpc \in {"execute", "wait"}
  /\ passed' = passed + 1
  /\ UNCHANGED <<queueVars, workSeq, active, wpc, retry, sig, timer, poll,
                 callerVars, owed>>

-----------------------------------------------------------------------------
Init ==
  /\ slots = [s \in Slots |-> EmptySlot] /\ ahead = [s \in Slots |-> {}]
  /\ workSeq = 1 /\ active = 0
  /\ wpc = "loop" /\ retry = NoRetry
  /\ sig = FALSE /\ timer = 0 /\ passed = 0 /\ poll = 0
  /\ cpc = [i \in Iors |-> "own"]
  /\ replies = [i \in Iors |-> 1] /\ err = [i \in Iors |-> "none"]
  /\ owed = [u \in Units |-> {}]

CallerStep(i) == SignalWorker(i) \/ AbortReply(i)
WorkerStep ==
  \/ Select \/ ExecuteReturn \/ FinishRetry \/ FinishReply \/ Account \/ Publish
  \/ PollDelay \/ ArmExpired \/ Arm \/ Wake \/ WakeSignal

Next ==
  \/ \E i \in Iors : \/ Enqueue(i) \/ Refuse(i) \/ AbortQueued(i) \/ AbortRunning(i)
                     \/ AbortGone(i) \/ Reclaim(i) \/ CallerStep(i)
  \/ \E u \in Units : abort_unit_work(u) \/ FlushReply(u)
  \/ WorkerStep \/ Tick

Spec == Init /\ [][Next]_vars

\* The tasks inside the driver run on and a transfer ends (the mailbox wait is
\* bounded).  No caller is assumed to send, abort or take anything.
Fairness ==
  /\ WF_vars(WorkerStep)
  /\ \A i \in Iors : WF_vars(CallerStep(i))
  /\ \A u \in Units : WF_vars(FlushReply(u))

FairSpec == Spec /\ Fairness

-----------------------------------------------------------------------------
LifeRecords == [state : {"free", "queued", "dispatching", "in_flight", "retiring", "terminal"},
                id : 0..(SeqMod - 1), abort : BOOLEAN, claimed : BOOLEAN]
SlotRecords == [ior : Iors \cup {NoIor}, life : LifeRecords,
                seq : 0..(SeqMod - 1), delay : 0..Backoff]

\* Slots, queue and timers have their types.
TypeOK ==
  /\ slots \in [Slots -> SlotRecords]
  /\ ahead \in [Slots -> SUBSET Slots]
  /\ workSeq \in 0..(SeqMod - 1)
  /\ active \in Slots \cup {0}
  /\ wpc \in {"loop", "execute", "finish", "account", "publish", "polls",
              "arm", "wait", "sleep"}
  /\ sig \in BOOLEAN
  /\ timer \in Nat /\ passed \in 0..timer /\ poll \in Nat
  /\ cpc \in [Iors -> {"own", "signal", "reply", "sent"}]
  /\ replies \in [Iors -> Nat]
  /\ err \in [Iors -> {"none", "done", "nak", "aborted", "nomem"}]
  /\ owed \in [Units -> SUBSET Iors]

\* "Forbid() also prevents the receiver from reusing this IOR before the slot
\* is cleared below" (process_work_queue): a request in a slot is the driver's,
\* in one slot only, not replied and owed no reply by an abort.
HeldByDriver ==
  \A s \in Slots : InUse(s) =>
    LET i == slots[s].ior
    IN  /\ SlotsOf(i) = {s}
        /\ cpc[i] \in {"signal", "sent"} /\ replies[i] = 0
        /\ \A u \in Units : i \notin owed[u]

\* A backoff is that of the request in the slot, which was retried: a new
\* request in the slot of one that was aborted during the retry starts at once.
BackoffOfRetried == \A s \in Slots : slots[s].delay # 0 =>
                      slots[s].seq # 0 /\ slots[s].ior \in Waits

\* The request is aborted: removed from its slot or told to end.
Aborting(i) ==
  \/ cpc[i] = "reply" \/ \E u \in Units : i \in owed[u]
  \/ \E s \in SlotsOf(i) : slots[s].life.abort

\* A request is replied, and so is an idle bulk-IN once it is aborted: no
\* lost wakeup, no starvation behind retries or newer requests.
RepliesCome ==
  \A i \in Iors :
    (replies[i] = 0 /\ (i \in Waits => Aborting(i))) ~> (replies[i] # 0)

\* "exact-once request retirement" (README.md): the queue implements the
\* promise of UsbRequests.
Status(i) == CASE cpc[i] = "own"   -> "caller"
               [] cpc[i] # "own" /\ replies[i] > 1 -> "twice"
               [] cpc[i] # "own" /\ replies[i] = 1 -> "done"
               [] cpc[i] # "own" /\ replies[i] = 0 ->
                    IF Aborting(i) THEN "aborting" ELSE "pending"
Request == INSTANCE UsbRequests WITH
  st  <- [i \in Iors |-> Status(i)],
  res <- [i \in Iors |-> IF Status(i) = "done" THEN err[i] ELSE "none"]
RequestSpec == Request!Spec
=============================================================================
