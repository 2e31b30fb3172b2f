----------------------------- MODULE UsbMailbox -----------------------------
(***************************************************************************)
(* The mailboxes of zzusbhw.device's USB proxy and who may write to them:  *)
(* the primary mailbox with its request ids, the maintenance (sideband)    *)
(* mailbox of realtime ISO, quarantine and recovery, and the two locks,    *)
(* PrimaryMailboxLock and zz_Lock.  The worker is the poll task; the       *)
(* flusher is a caller of CMD_RESET / CMD_FLUSH.  A command waiting for    *)
(* its answer lets realtime ISO run and drops zz_Lock for that.            *)
(* The session is v2.  Request ids are kept as whose command it is, so     *)
(* they stay distinct where a negotiation restarts the count at 1;         *)
(* payloads and epochs are left out.                                       *)
(***************************************************************************)
EXTENDS Naturals

CONSTANTS NumCmds,    \* most slots a flush stops, chunks or reaps of a request
          MaxServe,   \* times one wait stops to serve realtime ISO
          Work,       \* requests the work queue may hold
          Polls       \* commands of the root hub and interrupt polls

ASSUME SizesAssumption == NumCmds \in Nat \ {0} /\ MaxServe \in Nat
ASSUME WorkAssumption  == /\ Work \subseteq {"xfer", "reset", "iso queue"}
                          /\ Polls \subseteq {"port", "int", "periodic stop"}

Worker  == "worker"
Flusher == "flusher"
Tasks == {Worker, Flusher}
None  == "none"
RtOf(t) == IF t = Worker THEN "rt worker" ELSE "rt flusher"
Ids == Tasks \cup {"rt worker", "rt flusher", "query"}

VARIABLES
  prim,     \* primary mailbox: its status, and the request id in it
  run,      \* primary commands the firmware will still answer
  side,     \* status of the maintenance mailbox
  q,        \* state->quarantined
  mq,       \* state->maintenance_quarantined
  v2,       \* state->mode is ZZUSB_PROTOCOL_V2
  zz,       \* owner of zz_Lock
  mbox,     \* owner of PrimaryMailboxLock
  fg,       \* who set ForegroundMailboxBase
  rt,       \* the unit's realtime ISO stream
  cleanup,  \* SimpleIsoCleanup.pending
  active,   \* ActiveWorkSlot is set
  aborted,  \* and its abort_requested
  pc, job,  \* where each task is, and the command it is about
  cont,     \* where it goes on with zz_Lock
  after,    \* where it goes on after serving realtime ISO
  kind,     \* its realtime ISO command
  ret,      \* status of its last primary command
  left,     \* times its wait may still serve realtime ISO
  todo      \* slots, chunks or reaps its request may still come to

wireVars  == <<prim, run, side>>
protoVars == <<q, mq, v2>>
lockVars  == <<zz, mbox>>
workVars  == <<cleanup, active, aborted>>
callVars  == <<job, cont, after, kind, ret, left, todo>>
vars == <<wireVars, protoVars, lockVars, fg, rt, workVars, pc, callVars>>

Set(f, t, v) == [f EXCEPT ![t] = v]

\* Commands execute_io sends, under PrimaryMailboxLock from the start.
Outer == {"xfer", "reset", "check", "iso queue", "iso reap", "iso stop", "stop"}

\* What the firmware reports, in classes.
Statuses == {"ok", "busy", "err", "stale"}

\* stop_status_retired: OK, NAK, OFFLINE ("ok") and STALE.  TIMEOUT, CANCELLED
\* and the other errors are "err": nothing here tells them apart.
stop_status_retired(r) == r \in {"ok", "stale"}

-----------------------------------------------------------------------------
(* Semaphores.                                                             *)

\* PrimaryMailboxLock nests; it comes before zz_Lock.
ObtainMailbox(t) ==
  /\ pc[t] = "mbox" /\ mbox \in {None, t}
  /\ mbox' = t
  /\ pc' = Set(pc, t, "zz")
  /\ UNCHANGED <<wireVars, protoVars, zz, fg, rt, workVars, callVars>>

ObtainZZ(t) ==
  /\ pc[t] = "zz" /\ zz = None
  /\ zz' = t
  /\ pc' = Set(pc, t, cont[t]) /\ cont' = Set(cont, t, None)
  /\ UNCHANGED <<wireVars, protoVars, mbox, fg, rt, workVars,
                 job, after, kind, ret, left, todo>>

\* To wait for zz_Lock and go on at p.
GoZZ(t, p) == pc' = Set(pc, t, "zz") /\ cont' = Set(cont, t, p)

-----------------------------------------------------------------------------
(* send_usb_cmd: a command on the primary mailbox.                         *)

\* The call is over: ForegroundMailboxBase and the inner lock are given back.
Return(t, r) ==
  /\ ret' = Set(ret, t, r) /\ left' = Set(left, t, 0)
  /\ pc' = Set(pc, t, "done")
  /\ fg' = IF fg = t THEN None ELSE fg
  /\ mbox' = IF mbox = t /\ job[t] \notin Outer THEN None ELSE mbox

Post(id) == prim' = [st |-> "pending", by |-> id] /\ run' = run \cup {id}

\* send_usb_cmd_scoped up to the doorbell; setFg in send_usb_cmd_with_rt_wait.
Send(t, setFg) ==
  IF q THEN Return(t, "err") /\ UNCHANGED <<prim, run>>
  ELSE /\ Post(t)
       /\ fg' = IF setFg THEN t ELSE fg
       /\ pc' = Set(pc, t, "wait") /\ left' = Set(left, t, MaxServe)
       /\ ret' = Set(ret, t, "ok")
       /\ UNCHANGED mbox

SendPlain(t) ==
  /\ pc[t] = "send"
  /\ Send(t, FALSE)
  /\ UNCHANGED <<side, protoVars, zz, rt, workVars, job, cont, after, kind, todo>>

\* send_usb_cmd_with_rt_wait.
send_usb_cmd_with_rt_wait(t) ==
  /\ pc[t] = "rtwait"
  /\ IF rt # None /\ aborted THEN Return(t, "err") /\ UNCHANGED <<prim, run>>
                             ELSE Send(t, rt # None)
  /\ UNCHANGED <<side, protoVars, zz, rt, workVars, job, cont, after, kind, todo>>

\* send_usb_cmd_with_rt_service: with a stream, zz_Lock is dropped, the stream
\* served, and the locks are taken in order.
ServiceFirst(t) ==
  /\ pc[t] = "begin" /\ rt # None
  /\ zz' = None
  /\ GoZZ(t, "rtpoll") /\ after' = Set(after, t, "mbox")
  /\ UNCHANGED <<wireVars, protoVars, mbox, fg, rt, workVars,
                 job, kind, ret, left, todo>>

\* Without one the command is sent at once, under the locks already held.
send_usb_cmd_with_rt_service(t) ==
  /\ pc[t] = "begin" /\ rt = None
  /\ Send(t, FALSE)
  /\ UNCHANGED <<side, protoVars, zz, rt, workVars, job, cont, after, kind, todo>>

\* send_usb_cmd_wire sees an answer: the firmware's status, unless the id is
\* another (STALE), the length is wrong (HOSTERROR) or the epoch is another
\* (STALE).  Each of these three quarantines.
Answered(t, p) ==
  /\ pc[t] = p /\ prim.st = "done"
  /\ IF prim.by # t THEN Return(t, "stale") /\ q' = TRUE
     ELSE \/ \E r \in Statuses : Return(t, r) /\ q' = q
          \/ \E r \in {"stale", "err"} : Return(t, r) /\ q' = TRUE
  /\ UNCHANGED <<wireVars, mq, v2, zz, rt, workVars, job, cont, after, kind, todo>>

WaitAnswered(t) == Answered(t, "wait")

\* The limit is reached: whatever the firmware still does with the mailbox,
\* it is quarantined.
WaitTimeout(t) ==
  /\ pc[t] = "wait" /\ prim.st = "pending"
  /\ q' = TRUE
  /\ Return(t, "err")
  /\ UNCHANGED <<wireVars, mq, v2, zz, rt, workVars, job, cont, after, kind, todo>>

\* active_work_aborted: wait on, but only for the mailbox.
WaitAborted(t) ==
  /\ pc[t] = "wait" /\ prim.st = "pending" /\ aborted
  /\ pc' = Set(pc, t, "drain")
  /\ UNCHANGED <<wireVars, protoVars, lockVars, fg, rt, workVars, callVars>>

DrainEnds(t) ==
  /\ pc[t] = "drain"
  /\ q' = (q \/ prim.st = "pending")
  /\ Return(t, "err")
  /\ UNCHANGED <<wireVars, mq, v2, zz, rt, workVars, job, cont, after, kind, todo>>

\* service_rt_iso_during_work, from any wait on the primary mailbox while
\* somebody has set ForegroundMailboxBase.
WaitServe(t) ==
  /\ pc[t] \in {"wait", "drain", "qwait"} /\ prim.st = "pending"
  /\ fg # None /\ rt # None /\ left[t] > 0
  /\ zz' = None
  /\ left' = Set(left, t, left[t] - 1)
  /\ GoZZ(t, "rtpoll") /\ after' = Set(after, t, pc[t])
  /\ UNCHANGED <<wireVars, protoVars, mbox, fg, rt, workVars, job, kind, ret, todo>>

-----------------------------------------------------------------------------
(* Realtime ISO: poll_rt_iso and the maintenance commands it sends.        *)

\* poll_rt_iso drops zz_Lock and its caller goes on; stop_rt_iso_for_unit
\* returns with it.
RtDone(t) ==
  /\ after' = Set(after, t, None)
  /\ CASE after[t] \in {"unlock", "recover"} ->
            pc' = Set(pc, t, after[t]) /\ UNCHANGED <<zz, cont>>
       [] after[t] = "work" ->
            zz' = None /\ pc' = Set(pc, t, "work") /\ UNCHANGED cont
       [] after[t] = "mbox" ->
            /\ zz' = None
            /\ pc' = Set(pc, t, "mbox") /\ cont' = Set(cont, t, "rtwait")
       [] OTHER -> zz' = None /\ GoZZ(t, after[t])

\* stop_rt_iso_for_unit of a flush or a reset.
stop_rt_iso_for_unit(t) ==
  /\ pc[t] = "rtstop"
  /\ IF rt = None THEN RtDone(t) /\ UNCHANGED rt
     ELSE /\ rt' = "stopping" /\ pc' = Set(pc, t, "rtpoll")
          /\ UNCHANGED <<zz, cont, after>>
  /\ UNCHANGED <<wireVars, protoVars, mbox, fg, workVars, job, kind, ret, left, todo>>

\* poll_rt_iso with nothing to do.
RtIdle(t) ==
  /\ pc[t] = "rtpoll" /\ rt = None
  /\ RtDone(t)
  /\ UNCHANGED <<wireVars, protoVars, mbox, fg, rt, workVars, job, kind, ret, left, todo>>

\* What poll_rt_iso sends: queue and reap, or STOP.
RtKind == IF rt = "stopping" THEN "stop" ELSE "io"

\* Command k ended with r.  A failed queue or reap stops the stream; a stop
\* that is not retired is repeated by the next poll.
RtResult(t, k, r) ==
  /\ kind' = Set(kind, t, "io")
  /\ IF k = "io" /\ r \notin {"ok", "busy"}
     THEN rt' = "stopping" /\ pc' = Set(pc, t, "rtpoll") /\ UNCHANGED <<zz, cont, after>>
     ELSE /\ rt' = IF k = "stop" /\ stop_status_retired(r) THEN None ELSE rt
          /\ RtDone(t)

\* send_usb_cmd_maintenance: sideband while a foreground command has the
\* primary mailbox, primary otherwise.  Neither over a quarantine.
RtRefused(t) ==
  /\ pc[t] = "rtpoll" /\ rt # None
  /\ IF fg # None THEN q \/ mq \/ ~v2 ELSE q
  /\ RtResult(t, RtKind, "err")
  /\ UNCHANGED <<wireVars, protoVars, mbox, fg, workVars, job, ret, left, todo>>

RtSend(t) ==
  /\ pc[t] = "rtpoll" /\ rt # None
  /\ kind' = Set(kind, t, RtKind)
  /\ \/ /\ fg # None /\ ~q /\ ~mq /\ v2
        /\ side' = "pending" /\ pc' = Set(pc, t, "rtside")
        /\ UNCHANGED <<prim, run>>
     \/ /\ fg = None /\ ~q
        /\ Post(RtOf(t)) /\ pc' = Set(pc, t, "rtprim")
        /\ UNCHANGED side
  /\ UNCHANGED <<protoVars, lockVars, fg, rt, workVars,
                 job, cont, after, ret, left, todo>>

\* send_usb_cmd_sideband ends: an answer, an answer that is none, or the limit.
RtSideEnds(t) ==
  /\ pc[t] = "rtside"
  /\ \/ /\ side = "idle"
        /\ \/ \E r \in Statuses :
                RtResult(t, kind[t], r) /\ UNCHANGED <<q, mq>>
           \/ \E r \in {"stale", "err"} :
                RtResult(t, kind[t], r) /\ q' = TRUE /\ mq' = TRUE
     \/ /\ side = "pending"
        /\ RtResult(t, kind[t], "err") /\ q' = TRUE /\ mq' = TRUE
  /\ UNCHANGED <<wireVars, v2, mbox, fg, workVars, job, ret, left, todo>>

\* The same on the primary mailbox, without honour of an abort.
RtPrimEnds(t) ==
  /\ pc[t] = "rtprim"
  /\ LET own == prim.st = "done" /\ prim.by = RtOf(t)
     IN  \/ \E r \in Statuses : own /\ RtResult(t, kind[t], r) /\ q' = q
         \/ \E r \in {"stale", "err"} : own /\ RtResult(t, kind[t], r) /\ q' = TRUE
         \/ prim.st = "done" /\ ~own /\ RtResult(t, kind[t], "stale") /\ q' = TRUE
         \/ prim.st = "pending" /\ RtResult(t, kind[t], "err") /\ q' = TRUE
  /\ UNCHANGED <<wireVars, mq, v2, mbox, fg, workVars, job, ret, left, todo>>

\* start_rt_iso_handler and stop_rt_iso_handler, at any time and lock-free.
RtStart ==
  /\ rt = None /\ v2 /\ ~q
  /\ rt' = "running"
  /\ UNCHANGED <<wireVars, protoVars, lockVars, fg, workVars, pc, callVars>>

RtStop ==
  /\ rt = "running"
  /\ rt' = "stopping"
  /\ UNCHANGED <<wireVars, protoVars, lockVars, fg, workVars, pc, callVars>>

-----------------------------------------------------------------------------
(* recover_quarantined_proxy, with zz_Lock, in the worker.                 *)

\* Where the worker goes on after recovery.
Recovered ==
  CASE job[Worker] = "sweep"  -> "cleanup"
    [] job[Worker] = "sweep2" -> "cleanup2"
    [] job[Worker] = "reset"  -> "send"
    [] OTHER                  -> "release"

\* Recovery that goes on with the maintenance mailbox still pending.
RecoverUnseen ==
  /\ pc[Worker] = "recover"
  /\ mq' = (mq /\ side = "pending")
  /\ IF q /\ prim.st # "pending"
     THEN /\ q' = FALSE /\ v2' = FALSE /\ side' = "pending"
          /\ pc' = Set(pc, Worker, "qside")
     ELSE pc' = Set(pc, Worker, Recovered) /\ UNCHANGED <<q, v2, side>>
  /\ UNCHANGED <<prim, run, lockVars, fg, rt, workVars, callVars>>

\* Recovery that waits for the maintenance quarantine to go by itself.
RecoverLater ==
  /\ pc[Worker] = "recover"
  /\ IF q /\ ~mq /\ prim.st # "pending"
     THEN /\ q' = FALSE /\ v2' = FALSE /\ side' = "pending"
          /\ pc' = Set(pc, Worker, "qside")
     ELSE pc' = Set(pc, Worker, Recovered) /\ UNCHANGED <<q, v2, side>>
  /\ UNCHANGED <<prim, run, mq, lockVars, fg, rt, workVars, callVars>>

\* With both mailboxes terminal the protocol state is cleared and
\* negotiate_usb_proxy sends QUERY_CAPS, on the sideband first.
recover_quarantined_proxy ==
  /\ pc[Worker] = "recover"
  /\ mq' = (mq /\ side = "pending")
  /\ IF q /\ ~mq' /\ prim.st # "pending"
     THEN /\ q' = FALSE /\ v2' = FALSE /\ side' = "pending"
          /\ pc' = Set(pc, Worker, "qside")
     ELSE pc' = Set(pc, Worker, Recovered) /\ UNCHANGED <<q, v2, side>>
  /\ UNCHANGED <<prim, run, lockVars, fg, rt, workVars, callVars>>

Negotiated(ok) ==
  /\ v2' = ok /\ q' = ~ok
  /\ pc' = Set(pc, Worker, Recovered)

\* The sideband answers: v2, or capabilities too few for it.
QuerySideOk ==
  /\ pc[Worker] = "qside" /\ side = "idle"
  /\ Negotiated(TRUE)
  /\ UNCHANGED <<wireVars, mq, lockVars, fg, rt, workVars, callVars>>

QuerySidePoor ==
  /\ pc[Worker] = "qside" /\ side = "idle"
  /\ Negotiated(FALSE)
  /\ UNCHANGED <<wireVars, mq, lockVars, fg, rt, workVars, callVars>>

\* A timeout that leaves the sideband unfenced.
QuerySideFailsUnfenced ==
  /\ pc[Worker] = "qside"
  /\ UNCHANGED mq
  /\ Post("query") /\ pc' = Set(pc, Worker, "qwait")
  /\ left' = Set(left, Worker, MaxServe)
  /\ UNCHANGED <<side, q, v2, lockVars, fg, rt, workVars,
                 job, cont, after, kind, ret, todo>>

\* It refuses, answers something else, or not in time; the last two keep it
\* quarantined.  The query goes to the primary mailbox.
QuerySideFails ==
  /\ pc[Worker] = "qside"
  /\ \/ side = "idle" /\ mq' \in {mq, TRUE}
     \/ side = "pending" /\ mq' = TRUE
  /\ Post("query") /\ pc' = Set(pc, Worker, "qwait")
  /\ left' = Set(left, Worker, MaxServe)
  /\ UNCHANGED <<side, q, v2, lockVars, fg, rt, workVars,
                 job, cont, after, kind, ret, todo>>

\* send_usb_cmd_wire(is_query) ends.  Without v2 recovery quarantines again:
\* it never falls back to legacy traffic.
QueryPrimaryEnds ==
  /\ pc[Worker] = "qwait"
  /\ \/ prim = [st |-> "done", by |-> "query"] /\ Negotiated(TRUE)
     \/ Negotiated(FALSE)
  /\ left' = Set(left, Worker, 0)
  /\ UNCHANGED <<wireVars, mq, lockVars, fg, rt, workVars,
                 job, cont, after, kind, ret, todo>>

-----------------------------------------------------------------------------
(* The worker: sweep, work queue, periodic polls.                          *)

Go(t, p) == pc' = Set(pc, t, p)
GoJob(t, j, p) == job' = Set(job, t, j) /\ Go(t, p)

Sweep ==
  /\ pc[Worker] = "sweep"
  /\ GoZZ(Worker, "recover") /\ job' = Set(job, Worker, "sweep")
  /\ UNCHANGED <<wireVars, protoVars, lockVars, fg, rt, workVars,
                 after, kind, ret, left, todo>>

\* poll_simple_iso_cleanup up to its STOP, sent with zz_Lock alone; or the
\* end of it, where zz_Lock is dropped for poll_rt_iso.
LeaveCleanup ==
  /\ zz' = None
  /\ job' = Set(job, Worker, None) /\ ret' = Set(ret, Worker, "ok")
  /\ GoZZ(Worker, "rtpoll") /\ after' = Set(after, Worker, "work")

poll_simple_iso_cleanup ==
  /\ pc[Worker] \in {"cleanup", "cleanup2"}
  /\ CASE ~cleanup \/ (q /\ pc[Worker] = "cleanup2") ->
            LeaveCleanup
       [] cleanup /\ q /\ pc[Worker] = "cleanup" ->
            GoJob(Worker, "sweep2", "recover") /\ UNCHANGED <<zz, cont, after, ret>>
       [] cleanup /\ ~q ->
            GoJob(Worker, "cleanup", "send") /\ UNCHANGED <<zz, cont, after, ret>>
  /\ UNCHANGED <<wireVars, protoVars, mbox, fg, rt, workVars, kind, left, todo>>

CleanupDone ==
  /\ pc[Worker] = "done" /\ job[Worker] = "cleanup"
  /\ LET r == ret[Worker]
     IN  /\ cleanup' = (cleanup /\ ~stop_status_retired(r))
         /\ q' = (q \/ (~stop_status_retired(r) /\ r # "busy"))
  /\ LeaveCleanup
  /\ UNCHANGED <<wireVars, mq, v2, mbox, fg, rt, active, aborted, kind, left, todo>>

\* process_work_queue picks a request, or finds none.
process_work_queue ==
  /\ pc[Worker] = "work"
  /\ \/ Go(Worker, "poll") /\ UNCHANGED <<active, job, cont, todo>>
     \/ \E j \in Work, n \in 0..NumCmds :
          /\ active' = TRUE /\ GoJob(Worker, j, "mbox")
          /\ todo' = Set(todo, Worker, n)
          /\ cont' = Set(cont, Worker, CASE j = "xfer"      -> "begin"
                                         [] j = "reset"     -> "reset"
                                         [] j = "iso queue" -> "iso")
  /\ UNCHANGED <<wireVars, protoVars, lockVars, fg, rt, cleanup, aborted,
                 after, kind, ret, left>>

\* UHCMD_CONTROLXFER, UHCMD_BULKXFER: one command, or one per chunk.
XferDone ==
  /\ pc[Worker] = "done" /\ job[Worker] = "xfer"
  /\ \/ Go(Worker, "unlock") /\ UNCHANGED todo
     \/ /\ ret[Worker] = "ok" /\ todo[Worker] > 0
        /\ todo' = Set(todo, Worker, todo[Worker] - 1) /\ Go(Worker, "begin")
  /\ UNCHANGED <<wireVars, protoVars, lockVars, fg, rt, workVars,
                 job, cont, after, kind, ret, left>>

\* UHCMD_USBRESET: stop_rt_iso_for_unit, recovery, RESET_PORT.
ResetBegins ==
  /\ pc[Worker] = "reset"
  /\ after' = Set(after, Worker, "recover") /\ Go(Worker, "rtstop")
  /\ UNCHANGED <<wireVars, protoVars, lockVars, fg, rt, workVars,
                 job, cont, kind, ret, left, todo>>

\* A reset retires realtime ISO and the cleanup; a failed one checks the port.
ResetDone ==
  /\ pc[Worker] = "done" /\ job[Worker] = "reset"
  /\ \/ /\ ret[Worker] = "ok"
        /\ rt' = None /\ cleanup' = FALSE
        /\ Go(Worker, "unlock") /\ UNCHANGED job
     \/ GoJob(Worker, "check", "send") /\ UNCHANGED <<rt, cleanup>>
  /\ UNCHANGED <<wireVars, protoVars, lockVars, fg, active, aborted,
                 cont, after, kind, ret, left, todo>>

CheckDone ==
  /\ pc[Worker] = "done" /\ job[Worker] = "check"
  /\ Go(Worker, "unlock")
  /\ UNCHANGED <<wireVars, protoVars, lockVars, fg, rt, workVars, callVars>>

\* execute_simple_iso: refused while a cleanup is pending; the stream is
\* served before the batch is queued.
IsoBegins ==
  /\ pc[Worker] = "iso"
  /\ CASE cleanup -> Go(Worker, "unlock") /\ UNCHANGED <<zz, cont, after>>
       [] ~cleanup /\ rt = None -> Go(Worker, "rtwait") /\ UNCHANGED <<zz, cont, after>>
       [] ~cleanup /\ rt # None ->
            /\ zz' = None
            /\ GoZZ(Worker, "rtpoll") /\ after' = Set(after, Worker, "isoserved")
  /\ UNCHANGED <<wireVars, protoVars, mbox, fg, rt, workVars,
                 job, kind, ret, left, todo>>

IsoServed ==
  /\ pc[Worker] = "isoserved"
  /\ Go(Worker, IF aborted THEN "unlock" ELSE "rtwait")
  /\ UNCHANGED <<wireVars, protoVars, lockVars, fg, rt, workVars, callVars>>

\* retire_simple_iso_request: ISO_STOP, or a cleanup for the next sweep.
Retire ==
  IF q THEN cleanup' = TRUE /\ Go(Worker, "unlock") /\ UNCHANGED job
       ELSE GoJob(Worker, "iso stop", "begin") /\ UNCHANGED cleanup

\* A queued batch is reaped, unless the request is aborted; a queue that
\* failed with the mailbox quarantined may have queued it.
IsoQueueDone ==
  /\ pc[Worker] = "done" /\ job[Worker] = "iso queue"
  /\ CASE ret[Worker] = "ok" /\ ~aborted ->
            GoJob(Worker, "iso reap", "begin") /\ UNCHANGED cleanup
       [] (ret[Worker] = "ok" /\ aborted) \/ (ret[Worker] # "ok" /\ q) -> Retire
       [] ret[Worker] # "ok" /\ ~q -> Go(Worker, "unlock") /\ UNCHANGED <<cleanup, job>>
  /\ UNCHANGED <<wireVars, protoVars, lockVars, fg, rt, active, aborted,
                 cont, after, kind, ret, left, todo>>

\* A reap delivers the batch, is repeated after a NAK, or gives up.
IsoReapDone ==
  /\ pc[Worker] = "done" /\ job[Worker] = "iso reap"
  /\ \/ /\ ret[Worker] = "ok"
        /\ Go(Worker, "unlock") /\ UNCHANGED <<cleanup, job, todo>>
     \/ /\ ret[Worker] = "ok" /\ todo[Worker] > 0 /\ ~aborted
        /\ todo' = Set(todo, Worker, todo[Worker] - 1)
        /\ Go(Worker, "begin") /\ UNCHANGED <<cleanup, job>>
     \/ Retire /\ UNCHANGED todo
  /\ UNCHANGED <<wireVars, protoVars, lockVars, fg, rt, active, aborted,
                 cont, after, kind, ret, left>>

IsoStopDone ==
  /\ pc[Worker] = "done" /\ job[Worker] = "iso stop"
  /\ cleanup' = (cleanup \/ ~stop_status_retired(ret[Worker]))
  /\ Go(Worker, "unlock")
  /\ UNCHANGED <<wireVars, protoVars, lockVars, fg, rt, active, aborted, callVars>>

\* One lock is kept.
UnlockOne(t) ==
  /\ pc[t] = "unlock"
  /\ zz' = None
  /\ pc' = Set(pc, t, IF t = Worker THEN "finish" ELSE "idle")
  /\ job' = Set(job, t, None) /\ ret' = Set(ret, t, "ok") /\ todo' = Set(todo, t, 0)
  /\ UNCHANGED <<wireVars, protoVars, mbox, fg, rt, workVars, cont, after, kind, left>>

\* execute_io gives back both locks.
Unlock(t) ==
  /\ pc[t] = "unlock"
  /\ zz' = None /\ mbox' = None
  /\ pc' = Set(pc, t, IF t = Worker THEN "finish" ELSE "idle")
  /\ job' = Set(job, t, None) /\ ret' = Set(ret, t, "ok") /\ todo' = Set(todo, t, 0)
  /\ UNCHANGED <<wireVars, protoVars, fg, rt, workVars, cont, after, kind, left>>

\* process_work_queue after execute_io.
FinishWork ==
  /\ pc[Worker] = "finish"
  /\ active' = FALSE /\ aborted' = FALSE
  /\ Go(Worker, "poll")
  /\ UNCHANGED <<wireVars, protoVars, lockVars, fg, rt, cleanup, callVars>>

\* poll_roothub_pending and poll_int_pending: a port check, an interrupt
\* command or the STOP of a slot, under zz_Lock.
PollPorts ==
  /\ pc[Worker] = "poll"
  /\ \/ Go(Worker, "sweep") /\ UNCHANGED <<job, cont>>
     \/ \E j \in Polls :
          GoZZ(Worker, "begin") /\ job' = Set(job, Worker, j)
  /\ UNCHANGED <<wireVars, protoVars, lockVars, fg, rt, workVars,
                 after, kind, ret, left, todo>>

\* A port check that failed recovers; a failed arm or reap stops the slot.
PollDone ==
  /\ pc[Worker] = "done" /\ job[Worker] \in {"port", "int", "periodic stop"}
  /\ CASE job[Worker] = "port" ->
            Go(Worker, IF ret[Worker] = "ok" THEN "release" ELSE "recover")
            /\ UNCHANGED <<q, job>>
       [] job[Worker] = "int" ->
            /\ \/ Go(Worker, "release") /\ UNCHANGED job
               \/ GoJob(Worker, "periodic stop", "begin")
            /\ UNCHANGED q
       [] job[Worker] = "periodic stop" ->
            /\ q' = (q \/ ~stop_status_retired(ret[Worker]))
            /\ Go(Worker, "release") /\ UNCHANGED job
  /\ UNCHANGED <<wireVars, mq, v2, lockVars, fg, rt, workVars,
                 cont, after, kind, ret, left, todo>>

ReleasePoll ==
  /\ pc[Worker] = "release"
  /\ zz' = None /\ Go(Worker, "sweep")
  /\ job' = Set(job, Worker, None) /\ ret' = Set(ret, Worker, "ok")
  /\ UNCHANGED <<wireVars, protoVars, mbox, fg, rt, workVars, cont, after, kind, left, todo>>

-----------------------------------------------------------------------------
(* The callers: CMD_RESET / CMD_FLUSH, AbortIO.                            *)

\* abort_unit_work, then execute_io on the caller's task.
Flush ==
  /\ pc[Flusher] = "idle"
  /\ aborted' = active
  /\ todo' \in {Set(todo, Flusher, n) : n \in 0..NumCmds}
  /\ Go(Flusher, "mbox") /\ cont' = Set(cont, Flusher, "next")
  /\ UNCHANGED <<wireVars, protoVars, lockVars, fg, rt, cleanup, active,
                 job, after, kind, ret, left>>

\* The next armed slot is stopped, at last the realtime streams.
FlushNext ==
  /\ pc[Flusher] = "next"
  /\ IF todo[Flusher] > 0
     THEN /\ todo' = Set(todo, Flusher, todo[Flusher] - 1)
          /\ GoJob(Flusher, "stop", "begin") /\ UNCHANGED after
     ELSE /\ Go(Flusher, "rtstop") /\ after' = Set(after, Flusher, "unlock")
          /\ UNCHANGED <<job, todo>>
  /\ UNCHANGED <<wireVars, protoVars, lockVars, fg, rt, workVars, cont, kind, ret, left>>

FlushStopDone ==
  /\ pc[Flusher] = "done"
  /\ q' = (q \/ ~stop_status_retired(ret[Flusher]))
  /\ Go(Flusher, "next")
  /\ UNCHANGED <<wireVars, mq, v2, lockVars, fg, rt, workVars, callVars>>

\* AbortIO of the request the worker executes.
AbortActive ==
  /\ active /\ ~aborted
  /\ aborted' = TRUE
  /\ UNCHANGED <<wireVars, protoVars, lockVars, fg, rt, cleanup, active, pc, callVars>>

-----------------------------------------------------------------------------
(* The firmware (external).                                                *)

\* A primary command is answered in the mailbox, whatever is in it by now.
FwPrimary ==
  /\ \E id \in run : run' = run \ {id} /\ prim' = [st |-> "done", by |-> id]
  /\ UNCHANGED <<side, protoVars, lockVars, fg, rt, workVars, pc, callVars>>

FwSide ==
  /\ side = "pending" /\ side' = "idle"
  /\ UNCHANGED <<prim, run, protoVars, lockVars, fg, rt, workVars, pc, callVars>>

-----------------------------------------------------------------------------
Init ==
  /\ prim = [st |-> "done", by |-> "query"] /\ run = {} /\ side = "idle"
  /\ q = FALSE /\ mq = FALSE /\ v2 = TRUE
  /\ zz = None /\ mbox = None /\ fg = None /\ rt = None
  /\ cleanup = FALSE /\ active = FALSE /\ aborted = FALSE
  /\ pc = [t \in Tasks |-> IF t = Worker THEN "sweep" ELSE "idle"]
  /\ job = [t \in Tasks |-> None] /\ cont = [t \in Tasks |-> None]
  /\ after = [t \in Tasks |-> None] /\ kind = [t \in Tasks |-> "io"]
  /\ ret = [t \in Tasks |-> "ok"] /\ left = [t \in Tasks |-> 0]
  /\ todo = [t \in Tasks |-> 0]

Call(t) ==
  \/ SendPlain(t) \/ send_usb_cmd_with_rt_wait(t)
  \/ ServiceFirst(t) \/ send_usb_cmd_with_rt_service(t)
  \/ WaitAnswered(t) \/ WaitTimeout(t) \/ WaitAborted(t) \/ DrainEnds(t)
  \/ WaitServe(t)

RealtimeIso(t) ==
  \/ stop_rt_iso_for_unit(t) \/ RtIdle(t)
  \/ RtRefused(t) \/ RtSend(t) \/ RtSideEnds(t) \/ RtPrimEnds(t)

Recovery ==
  \/ recover_quarantined_proxy \/ QuerySideOk \/ QuerySidePoor
  \/ QuerySideFails \/ QueryPrimaryEnds

WorkerStep ==
  \/ Call(Worker) \/ RealtimeIso(Worker) \/ Recovery \/ Unlock(Worker)
  \/ Sweep \/ poll_simple_iso_cleanup \/ CleanupDone \/ process_work_queue
  \/ XferDone \/ ResetBegins \/ ResetDone \/ CheckDone
  \/ IsoBegins \/ IsoServed \/ IsoQueueDone \/ IsoReapDone \/ IsoStopDone
  \/ FinishWork \/ PollPorts \/ PollDone \/ ReleasePoll

FlusherStep ==
  \/ Call(Flusher) \/ RealtimeIso(Flusher) \/ Unlock(Flusher)
  \/ FlushNext \/ FlushStopDone

Next ==
  \/ \E t \in Tasks : ObtainMailbox(t) \/ ObtainZZ(t)
  \/ WorkerStep \/ FlusherStep
  \/ Flush \/ AbortActive \/ RtStart \/ RtStop
  \/ FwPrimary \/ FwSide

\* A task that can run does; Exec semaphores are given in order.
Spec ==
  /\ Init /\ [][Next]_vars
  /\ WF_vars(WorkerStep) /\ WF_vars(FlusherStep)
  /\ \A t \in Tasks : SF_vars(ObtainMailbox(t)) /\ SF_vars(ObtainZZ(t))

-----------------------------------------------------------------------------
(* Properties.                                                             *)

Jobs == Outer \cup {None, "sweep", "sweep2", "cleanup", "port", "int", "periodic stop"}
Places ==
  {"idle", "mbox", "zz", "send", "rtwait", "begin", "wait", "drain", "done",
   "rtpoll", "rtstop", "rtside", "rtprim", "recover",
   "qside", "qwait", "sweep", "cleanup", "cleanup2", "work", "reset", "iso",
   "isoserved", "unlock", "finish", "poll", "release", "next"}

\* What a task comes back to: a primary wait of its own, or where it was called.
Waits == {"wait", "drain", "qwait"}
Conts == Waits \cup {"rtpoll", "rtwait", "recover", "begin", "reset", "iso", "isoserved", "next"}
Afters == Waits \cup {"mbox", "work", "isoserved", "unlock", "recover"}

WireTypeOK ==
  /\ prim \in [st : {"pending", "done"}, by : Ids] /\ run \subseteq Ids
  /\ side \in {"idle", "pending"}

FlagTypeOK ==
  /\ q \in BOOLEAN /\ mq \in BOOLEAN /\ v2 \in BOOLEAN
  /\ cleanup \in BOOLEAN /\ active \in BOOLEAN /\ aborted \in BOOLEAN
  /\ zz \in Tasks \cup {None} /\ mbox \in Tasks \cup {None} /\ fg \in Tasks \cup {None}
  /\ rt \in {None, "running", "stopping"}

CallTypeOK ==
  /\ pc \in [Tasks -> Places] /\ job \in [Tasks -> Jobs]
  /\ cont \in [Tasks -> Conts \cup {None}] /\ after \in [Tasks -> Afters \cup {None}]
  /\ kind \in [Tasks -> {"io", "stop"}]
  /\ ret \in [Tasks -> Statuses]
  /\ left \in [Tasks -> 0..MaxServe] /\ todo \in [Tasks -> 0..NumCmds]

\* Every variable is of its kind.
TypeOK == WireTypeOK /\ FlagTypeOK /\ CallTypeOK

\* The task waits for an answer on the primary mailbox, or comes back to it.
Awaits(t) == pc[t] \in Waits \cup {"rtprim"} \/ cont[t] \in Waits \/ after[t] \in Waits

\* A mailbox the firmware may still write is either awaited by a task or
\* quarantined, whatever timed out, was aborted or dropped its lock.
MailboxFenced ==
  /\ prim.st = "pending" => q \/ \E t \in Tasks : Awaits(t)
  /\ side = "pending" => mq \/ \E t \in Tasks : pc[t] \in {"rtside", "qside"}

\* "Never overwrite a quarantined primary or maintenance mailbox": no query
\* is written over a pending primary command and nothing over a pending
\* maintenance command.
RecoveryNeverOverwrites ==
  [][ \A t \in Tasks :
        pc'[t] # pc[t] =>
          /\ (pc'[t] = "qwait" /\ pc[t] = "qside") => prim.st # "pending"
          /\ pc'[t] \in {"rtside", "qside"} => side # "pending" ]_vars

\* CMD_FLUSH returns, however it interleaves with the worker, the locks both
\* drop for realtime ISO and a firmware that answers nothing.
FlushReturns == (pc[Flusher] # "idle") ~> (pc[Flusher] = "idle")

\* Once the firmware answers every command and the sideband query in time, a
\* quarantine ends in a v2 session.
QuarantineLifts ==
  /\ WF_vars(FwPrimary) /\ WF_vars(FwSide)
  /\ <>[][~(QuerySideFails \/ QuerySidePoor)]_vars
  => (q ~> (~q /\ v2))

\* "retain mailbox ownership across any later zz_Lock release": a command
\* whose sender waits is not overwritten by another.
PrimaryNotOverwritten ==
  [][ \A t \in Tasks :
        (Awaits(t) /\ prim.st = "pending" /\ prim.by \in {t, RtOf(t)}) =>
          (prim'.st = "pending" => prim'.by = prim.by) ]_vars
=============================================================================
