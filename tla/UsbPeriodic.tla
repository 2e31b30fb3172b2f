---------------------------- MODULE UsbPeriodic ----------------------------
(***************************************************************************)
(* Interrupt requests of zzusbhw.device: IntPendingSlots[] with ARM, REAP  *)
(* and STOP of the firmware's endpoint queues, RootHubIntPending with the  *)
(* port check, UHCMD_INTXFER and AbortIO on the callers' tasks, CMD_FLUSH, *)
(* bus reset and disconnection.  What runs under zz_Lock is one step; a    *)
(* command drops zz_Lock when realtime ISO is served (rt), before it takes *)
(* the mailbox and while it waits.  One v2 unit; generations, report data  *)
(* and error codes are left out.  UsbMailbox has the mailboxes themselves. *)
(***************************************************************************)
EXTENDS Naturals

CONSTANTS Ints,      \* interrupt requests for devices
          Roots,     \* interrupt requests for the root hub
          EpOf,      \* address and endpoint of each of Ints
          InDir,     \* the ones that read
          NumSlots,  \* ZZ_INT_PENDING_SLOTS
          Grace,     \* ZZ_INT_REUSE_GRACE_TICKS
          RtModes    \* whether realtime ISO runs: {FALSE}, {TRUE} or both

NoIor == "NULL"
NoEp  == "none"
Iors  == Ints \cup Roots
Eps   == {EpOf[i] : i \in Ints}
Slots == 1..NumSlots

ASSUME SizesAssumption == NumSlots \in Nat \ {0} /\ Grace \in Nat
ASSUME IorsAssumption ==
  /\ NoIor \notin Iors /\ Ints \cap Roots = {} /\ InDir \subseteq Ints
  /\ DOMAIN EpOf = Ints /\ NoEp \notin Eps
ASSUME RtAssumption == RtModes \subseteq BOOLEAN /\ RtModes # {}

Poll  == "poll"
Flush == "flush"
Tasks == {Poll, Flush}
None  == "none"

VARIABLES
  slots,    \* IntPendingSlots[]
  root,     \* RootHubIntPending
  change,   \* zz_PortChange
  fw,       \* endpoints with a queue in the firmware
  q,        \* state->quarantined
  rt,       \* realtime ISO streams run, all along
  zz,       \* task that keeps zz_Lock while it waits
  mbox,     \* task that owns PrimaryMailboxLock
  task,     \* command of the poll task and of the flush
  todo,     \* slots the flush has yet to look at
  replies   \* replies to the last submission of each request

vars == <<slots, root, change, fw, q, rt, zz, mbox, task, todo, replies>>

-----------------------------------------------------------------------------
(* Slots and replies.                                                      *)

clear_int_slot ==
  [used |-> FALSE, ior |-> NoIor, reply |-> NoIor, armed |-> FALSE,
   arming |-> FALSE, abort |-> FALSE, rearm |-> FALSE, stop |-> FALSE,
   reusing |-> FALSE, ticks |-> 0, ep |-> NoEp]

Put(s, r) == slots' = [slots EXCEPT ![s] = r]
First(set) == CHOOSE s \in set : \A u \in set : s <= u

\* Request new, if any, is submitted and those of set get their ReplyMsg;
\* two replies stand for more.
Exchange(new, set) ==
  replies' = [i \in Iors |-> IF i = new THEN 0
                             ELSE IF i \in set /\ replies[i] < 2 THEN replies[i] + 1
                             ELSE replies[i]]
Answer(set) == Exchange(NoIor, set)

Idle == [pc |-> "idle", slot |-> 1, ior |-> NoIor, stage |-> None,
         cmd |-> None, ep |-> NoEp, ret |-> None]

\* What a task may do now, with zz_Lock.
Locked(t) == zz \in {None, t}

-----------------------------------------------------------------------------
(* A command, by send_usb_cmd_with_rt_service.                             *)

Begin(t, s, i, stage, cmd, ep) ==
  /\ task' = [task EXCEPT ![t] = [pc |-> "begun", slot |-> s, ior |-> i,
                                  stage |-> stage, cmd |-> cmd, ep |-> ep,
                                  ret |-> None]]
  /\ zz' = IF rt THEN None ELSE t
  /\ mbox' = IF mbox = Poll THEN None ELSE mbox

\* The task goes on to its next slot; a flush keeps both locks.
Leave(t) ==
  /\ task' = [task EXCEPT ![t] = IF t = Poll THEN Idle ELSE [Idle EXCEPT !.pc = "next"]]
  /\ zz' = IF t = Poll THEN None ELSE t
  /\ mbox' = IF mbox = Poll THEN None ELSE mbox

\* What the firmware does with the command and what the driver learns; after
\* a timeout (quarantined) it may have done it or not.
Outcome(cmd, ep, ret, live, lost) ==
  \/ /\ q /\ ret = "err" /\ live = fw /\ lost = q
  \/ /\ ~q /\ ~lost
     /\ CASE cmd = "arm"  -> \/ ret = "ok"   /\ live = fw \cup {ep}
                             \/ ret = "err"  /\ live = fw
          [] cmd = "stop" -> \/ ret = "ok"   /\ live = fw \ {ep}
                             \/ ret = "err"  /\ live = fw
          [] cmd = "reap" -> live = fw /\ ret \in {"none", "err"} \cup
                                         (IF ep \in fw THEN {"ok"} ELSE {})
          [] cmd = "port" -> \/ ret \in {"same", "change", "err"} /\ live = fw
                             \/ ret = "offline" /\ live = {}
  \/ /\ ~q /\ lost /\ ret = "err"
     /\ live \in {fw} \cup (CASE cmd = "arm"  -> {fw \cup {ep}}
                              [] cmd = "stop" -> {fw \ {ep}}
                              [] OTHER -> {})

Send(t) ==
  /\ task[t].pc = "begun" /\ Locked(t)
  /\ rt => mbox \in {None, t}
  /\ \E ret \in {"ok", "err", "none", "same", "change", "offline"},
        live \in {fw, {}} \cup {fw \cup {e} : e \in Eps} \cup {fw \ {e} : e \in Eps},
        lost \in BOOLEAN :
       /\ Outcome(task[t].cmd, task[t].ep, ret, live, lost)
       /\ fw' = live /\ q' = lost
       /\ task' = [task EXCEPT ![t].pc = "sent", ![t].ret = ret]
  /\ mbox' = IF rt THEN t ELSE mbox
  /\ UNCHANGED <<slots, root, change, rt, zz, todo, replies>>

\* The task has its answer, zz_Lock and the slot of its command.
Got(t, stages) == task[t].pc = "sent" /\ task[t].stage \in stages /\ Locked(t)

-----------------------------------------------------------------------------
(* stop_periodic_slot and what follows it.                                 *)

StopEp(sl) == IF sl.ior # NoIor THEN EpOf[sl.ior] ELSE sl.ep

\* The slot after stop_periodic_slot.
Stopped(sl, ok) == IF ok THEN [sl EXCEPT !.armed = FALSE] ELSE sl

\* The slot still belongs to the request the poll task read before.
Same(sl, i) == sl.used /\ sl.ior = i

\* The firmware let go: the request is replied and the slot free.  Otherwise
\* stop_pending repeats the STOP.
Retire(t, s, i, stage, sl, ok) ==
  /\ IF stage \notin {"reuse failed", "flush"} /\ ~Same(sl, i)
     THEN Put(s, sl) /\ UNCHANGED replies
     ELSE IF ok THEN Put(s, clear_int_slot) /\ Answer({i} \ {NoIor})
     ELSE /\ Put(s, [sl EXCEPT !.stop = TRUE,
                               !.abort = IF stage \in {"abort", "flush"}
                                         THEN FALSE ELSE @])
          /\ UNCHANGED replies
  /\ Leave(t)

\* Replies the aborted request whatever the STOP said.
DetachedReplyFirst(t, s, sl) ==
  /\ Put(s, IF sl.armed THEN [sl EXCEPT !.reply = NoIor] ELSE clear_int_slot)
  /\ Answer({sl.reply} \ {NoIor})
  /\ Leave(t)

\* A detached endpoint, or an aborted request that waits for its STOP.
Detached(t, s, sl) ==
  /\ IF sl.armed THEN Put(s, sl) /\ UNCHANGED replies
     ELSE Put(s, clear_int_slot) /\ Answer({sl.reply} \ {NoIor})
  /\ Leave(t)

\* PERIODIC_ARM of slot s, for its request.
Arm(t, s, sl) ==
  /\ Put(s, [sl EXCEPT !.arming = TRUE])
  /\ Begin(t, s, sl.ior, "arm", "arm", EpOf[sl.ior])

\* A slot to be armed again is armed once its old queue is stopped.
Rearm(t, s, i, sl, ok) ==
  LET done == [sl EXCEPT !.rearm = FALSE]
  IN  /\ CASE ~Same(sl, i)      -> Put(s, sl) /\ Leave(t)
           [] Same(sl, i) /\ ok -> Arm(t, s, done)
           [] OTHER             -> Put(s, [done EXCEPT !.stop = TRUE]) /\ Leave(t)
      /\ UNCHANGED replies

\* STOP, unless the slot is not armed; sl is the slot as it is to be now.
StopFirst(t, s, i, stage, sl) ==
  IF sl.armed
  THEN Begin(t, s, i, stage, "stop", StopEp(sl)) /\ Put(s, sl) /\ UNCHANGED replies
  ELSE CASE stage = "detached" -> Detached(t, s, sl)
         [] stage = "rearm"    -> Rearm(t, s, i, sl, TRUE)
         [] OTHER              -> Retire(t, s, i, stage, sl, TRUE)

StopDone(t) ==
  /\ Got(t, {"detached", "rearm", "stop pending", "abort", "reuse failed",
             "write done", "reap failed", "flush", "orphan"})
  /\ LET k == task[t] ok == k.ret = "ok" sl == Stopped(slots[k.slot], ok)
     IN  /\ CASE k.stage = "orphan"   -> Leave(t) /\ UNCHANGED <<slots, replies>>
              [] k.stage = "detached" -> Detached(t, k.slot, sl)
              [] k.stage = "rearm"    -> Rearm(t, k.slot, k.ior, sl, ok)
              [] OTHER                -> Retire(t, k.slot, k.ior, k.stage, sl, ok)
         /\ q' = (q \/ ~ok)
  /\ UNCHANGED <<root, change, fw, rt, todo>>

-----------------------------------------------------------------------------
(* poll_int_pending.                                                       *)

\* A detached endpoint is kept for a resubmission.
InGrace(sl) == sl.armed /\ sl.ticks > 0

\* The poll task looks at slot s; reap is reap_events.
poll_int_pending(s, reap) ==
  LET sl == slots[s] i == sl.ior
      now == IF i # NoIor /\ ~sl.armed THEN [sl EXCEPT !.ep = EpOf[i]] ELSE sl
  IN
  /\ task[Poll].pc = "idle" /\ Locked(Poll) /\ sl.used
  /\ CASE i = NoIor /\ InGrace(sl) ->
            /\ Put(s, [sl EXCEPT !.ticks = @ - 1])
            /\ UNCHANGED <<task, zz, mbox, replies>>
       [] i = NoIor /\ ~InGrace(sl) ->
            StopFirst(Poll, s, i, "detached", sl)
       [] i # NoIor /\ sl.stop ->
            StopFirst(Poll, s, i, "stop pending", [now EXCEPT !.abort = FALSE])
       [] i # NoIor /\ ~sl.stop /\ sl.abort ->
            StopFirst(Poll, s, i, "abort", now)
       [] i # NoIor /\ ~sl.stop /\ ~sl.abort /\ sl.rearm ->
            StopFirst(Poll, s, i, "rearm", now)
       [] i # NoIor /\ ~sl.stop /\ ~sl.abort /\ ~sl.rearm /\ (~sl.armed \/ sl.reusing) ->
            Arm(Poll, s, now) /\ UNCHANGED replies
       [] OTHER ->
            IF reap THEN /\ Begin(Poll, s, i, "reap", "reap", EpOf[i])
                         /\ UNCHANGED <<slots, replies>>
                    ELSE UNCHANGED <<slots, task, zz, mbox, replies>>
  /\ UNCHANGED <<root, change, fw, q, rt, todo>>

\* The ARM is answered.  A slot that changed hands meanwhile leaves a queue
\* without a slot, which is stopped.
ArmDone(reap) ==
  /\ Got(Poll, {"arm"})
  /\ LET k == task[Poll] s == k.slot i == k.ior ok == k.ret = "ok"
         sl == [slots[s] EXCEPT !.arming = FALSE]
     IN CASE ~Same(slots[s], i) ->
               /\ IF ok THEN Begin(Poll, s, i, "orphan", "stop", k.ep) ELSE Leave(Poll)
               /\ UNCHANGED <<slots, replies>>
          [] Same(sl, i) /\ sl.reusing /\ ~ok ->
               StopFirst(Poll, s, i, "reuse failed",
                         [sl EXCEPT !.armed = TRUE, !.reusing = FALSE])
          [] Same(sl, i) /\ ~sl.reusing /\ ~ok ->
               /\ IF q THEN Put(s, [sl EXCEPT !.armed = TRUE, !.stop = TRUE]) /\ UNCHANGED replies
                       ELSE Put(s, clear_int_slot) /\ Answer({i})
               /\ Leave(Poll)
          [] Same(sl, i) /\ ok ->
               /\ Put(s, [sl EXCEPT !.armed = TRUE, !.reusing = FALSE, !.ep = EpOf[i]])
               /\ IF reap /\ ~sl.abort /\ ~sl.stop
                  THEN Begin(Poll, s, i, "reap", "reap", EpOf[i]) ELSE Leave(Poll)
               /\ UNCHANGED replies
  /\ UNCHANGED <<root, change, fw, q, rt, todo>>

\* The REAP is answered.  A report ends the request; a queue that reads is
\* kept for the next one.
ReapDone ==
  /\ Got(Poll, {"reap"})
  /\ LET k == task[Poll] s == k.slot i == k.ior sl == slots[s]
     IN CASE ~Same(sl, i) -> Leave(Poll) /\ UNCHANGED <<slots, replies>>
          [] Same(sl, i) /\ sl.abort -> StopFirst(Poll, s, i, "abort", sl)
          [] Same(sl, i) /\ ~sl.abort /\ k.ret = "ok" /\ i \in InDir ->
               /\ Put(s, [sl EXCEPT !.ior = NoIor, !.rearm = FALSE, !.stop = FALSE,
                                    !.reusing = FALSE, !.ticks = Grace])
               /\ Answer({i}) /\ Leave(Poll)
          [] Same(sl, i) /\ ~sl.abort /\ k.ret = "ok" /\ i \notin InDir ->
               StopFirst(Poll, s, i, "write done", sl)
          [] Same(sl, i) /\ ~sl.abort /\ k.ret = "err" ->
               StopFirst(Poll, s, i, "reap failed", sl)
          [] Same(sl, i) /\ ~sl.abort /\ k.ret = "none" ->
               Leave(Poll) /\ UNCHANGED <<slots, replies>>
  /\ UNCHANGED <<root, change, fw, q, rt, todo>>

-----------------------------------------------------------------------------
(* The root hub, bus reset and recovery, in the poll task.                 *)

\* poll_roothub_pending replies a latched change or checks the port.
poll_roothub_pending ==
  /\ task[Poll].pc = "idle" /\ Locked(Poll) /\ root # NoIor
  /\ IF change THEN /\ root' = NoIor /\ Answer({root})
                    /\ UNCHANGED <<task, zz, mbox>>
               ELSE /\ Begin(Poll, 1, root, "port", "port", NoEp)
                    /\ UNCHANGED <<root, replies>>
  /\ UNCHANGED <<slots, change, fw, q, rt, todo>>

\* update_port_state: a disconnection ends the requests in the slots, and the
\* change is reported if its request is still the pending one.  A failure may
\* end a quarantine.
PortDone ==
  /\ Got(Poll, {"port"})
  /\ LET k == task[Poll] off == k.ret = "offline"
         gone == {s \in Slots : off /\ slots[s].used /\ slots[s].ior # NoIor}
         news == k.ret \in {"change", "offline"}
         done == (change \/ news) /\ root = k.ior
     IN  /\ slots' = [s \in Slots |-> IF s \in gone THEN clear_int_slot ELSE slots[s]]
         /\ change' = (change \/ news)
         /\ root' = IF done THEN NoIor ELSE root
         /\ Answer({slots[s].ior : s \in gone} \cup (IF done THEN {root} ELSE {}))
         /\ q' \in IF k.ret = "err" THEN {q, FALSE} ELSE {q}
  /\ Leave(Poll)
  /\ UNCHANGED <<fw, rt, todo>>

finish_reset_periodic_for_unit ==
  slots' = [s \in Slots |-> [slots[s] EXCEPT !.armed = FALSE, !.arming = FALSE]]

\* UHCMD_USBRESET in the worker, under both locks throughout: a recovery, the
\* reset (done: it was answered) and the port check that may follow it.
USBReset(done, lost) ==
  /\ task[Poll].pc = "idle" /\ Locked(Poll) /\ mbox = None
  /\ IF done THEN finish_reset_periodic_for_unit /\ fw' = {} /\ change' \in BOOLEAN
     ELSE /\ UNCHANGED slots
          /\ fw' \in IF lost THEN {fw, {}} ELSE {fw}
          /\ change' \in {change, FALSE}
  /\ q' = lost
  /\ UNCHANGED <<root, rt, zz, mbox, task, todo, replies>>

\* recover_quarantined_proxy, once the firmware answers.
Recover ==
  /\ task[Poll].pc = "idle" /\ Locked(Poll) /\ q
  /\ q' = FALSE
  /\ UNCHANGED <<slots, root, change, fw, rt, zz, mbox, task, todo, replies>>

-----------------------------------------------------------------------------
(* The callers.                                                            *)

int_slot_matches(sl, i) == sl.used /\ sl.ior # NoIor /\ EpOf[sl.ior] = EpOf[i]

detached_int_slot_matches(sl, i) ==
  sl.used /\ sl.armed /\ sl.ior = NoIor /\ sl.reply = NoIor /\ sl.ep = EpOf[i]

\* Takes a slot that owes an aborted request its reply for free.
FreeSlotsOwing == {s \in Slots : slots[s].ior = NoIor /\ ~slots[s].armed}

\* Takes a detached slot for free.
FreeSlotsArmed == {s \in Slots : slots[s].ior = NoIor /\ slots[s].reply = NoIor}

FreeSlots == {s \in Slots : /\ slots[s].ior = NoIor /\ slots[s].reply = NoIor
                            /\ ~slots[s].armed}

\* queue_int_ior, by UHCMD_INTXFER; changed: its parameters are not those the
\* queue was armed with.  A request that finds no place is replied at once.
queue_int_ior(i, changed) ==
  LET match == {s \in Slots : \/ int_slot_matches(slots[s], i)
                              \/ detached_int_slot_matches(slots[s], i)}
  IN
  /\ Locked(None) /\ mbox = None /\ replies[i] = 1
  /\ IF match # {}
     THEN LET s == First(match) sl == slots[s]
          IN  IF sl.ior = NoIor
              THEN /\ Put(s, [sl EXCEPT !.ior = i, !.rearm = changed, !.reusing = TRUE,
                                        !.abort = FALSE, !.ticks = 0])
                   /\ Exchange(i, {})
              ELSE /\ ~sl.stop /\ ~sl.arming
                   /\ Put(s, [sl EXCEPT !.ior = i, !.abort = FALSE,
                                        !.rearm = @ \/ (sl.armed /\ (i \notin InDir \/ changed))])
                   /\ Exchange(i, {sl.ior})
     ELSE /\ FreeSlots # {}
          /\ Put(First(FreeSlots), [clear_int_slot EXCEPT !.used = TRUE, !.ior = i])
          /\ Exchange(i, {})
  /\ UNCHANGED <<root, change, fw, q, rt, zz, mbox, task, todo>>

\* handle_roothub_int: a latched change is replied at once, else the request
\* takes the place of the one pending.
handle_roothub_int(i) ==
  /\ Locked(None) /\ mbox = None /\ replies[i] = 1 /\ ~change
  /\ root' = i
  /\ Exchange(i, {root} \ {NoIor})
  /\ UNCHANGED <<slots, change, fw, q, rt, zz, mbox, task, todo>>

\* The hub driver clears the change.
ClearPortChange ==
  /\ change /\ Locked(None) /\ mbox = None
  /\ change' = FALSE
  /\ UNCHANGED <<slots, root, fw, q, rt, zz, mbox, task, todo, replies>>

\* AbortIO, under zz_Lock alone.
abort_io(i) ==
  /\ Locked(None) /\ replies[i] = 0
  /\ IF root = i THEN root' = NoIor /\ Answer({i}) /\ UNCHANGED slots
     ELSE /\ \E s \in Slots :
               LET sl == slots[s]
               IN  /\ sl.used /\ sl.ior = i
                   /\ IF sl.armed /\ ~sl.arming
                      THEN /\ Put(s, [sl EXCEPT !.reply = i, !.ior = NoIor, !.stop = TRUE,
                                               !.abort = FALSE, !.reusing = FALSE, !.ticks = 0])
                           /\ UNCHANGED replies
                      ELSE IF sl.armed \/ sl.arming
                      THEN Put(s, [sl EXCEPT !.abort = TRUE]) /\ UNCHANGED replies
                      ELSE Put(s, clear_int_slot) /\ Answer({i})
          /\ UNCHANGED root
  /\ UNCHANGED <<change, fw, q, rt, zz, mbox, task, todo>>

\* CMD_RESET and CMD_FLUSH on the caller's task: both locks, the root hub's
\* request, then slot after slot.
FlushBegins ==
  /\ task[Flush].pc = "idle" /\ Locked(None) /\ mbox = None
  /\ mbox' = Flush
  /\ root' = NoIor /\ Answer({root} \ {NoIor})
  /\ task' = [task EXCEPT ![Flush].pc = "next"] /\ zz' = Flush
  /\ todo' = 1
  /\ UNCHANGED <<slots, change, fw, q, rt>>

FlushSlot ==
  LET sl == slots[todo] pending == IF sl.ior # NoIor THEN sl.ior ELSE sl.reply
  IN
  /\ task[Flush].pc = "next" /\ Locked(Flush) /\ todo \in Slots
  /\ IF sl.used /\ (pending # NoIor \/ sl.armed)
     THEN StopFirst(Flush, todo, pending, "flush", [sl EXCEPT !.ticks = 0])
     ELSE UNCHANGED <<slots, task, zz, mbox, replies>>
  /\ todo' = todo + 1
  /\ UNCHANGED <<root, change, fw, q, rt>>

FlushEnds ==
  /\ task[Flush].pc = "next" /\ Locked(Flush) /\ todo \notin Slots
  /\ task' = [task EXCEPT ![Flush] = Idle]
  /\ zz' = None /\ mbox' = None /\ todo' = 1
  /\ UNCHANGED <<slots, root, change, fw, q, rt, replies>>

-----------------------------------------------------------------------------
Init ==
  /\ slots = [s \in Slots |-> clear_int_slot]
  /\ root = NoIor /\ change = FALSE /\ fw = {} /\ q = FALSE /\ rt \in RtModes
  /\ zz = None /\ mbox = None /\ task = [t \in Tasks |-> Idle] /\ todo = 1
  /\ replies = [i \in Iors |-> 1]

PollStep ==
  \/ \E s \in Slots, reap \in BOOLEAN : poll_int_pending(s, reap)
  \/ \E reap \in BOOLEAN : ArmDone(reap)
  \/ Send(Poll) \/ StopDone(Poll) \/ ReapDone
  \/ poll_roothub_pending \/ PortDone
  \/ \E done, lost \in BOOLEAN : USBReset(done, lost)
  \/ Recover

FlushStep == Send(Flush) \/ StopDone(Flush) \/ FlushSlot \/ FlushEnds

CallerStep ==
  \/ \E i \in Ints, changed \in BOOLEAN : queue_int_ior(i, changed)
  \/ \E i \in Roots : handle_roothub_int(i)
  \/ \E i \in Iors : abort_io(i)
  \/ ClearPortChange \/ FlushBegins

Next == PollStep \/ FlushStep \/ CallerStep

Spec == Init /\ [][Next]_vars

-----------------------------------------------------------------------------
(* Properties.                                                             *)

SlotType ==
  [used : BOOLEAN, ior : Ints \cup {NoIor}, reply : Ints \cup {NoIor},
   armed : BOOLEAN, arming : BOOLEAN, abort : BOOLEAN, rearm : BOOLEAN,
   stop : BOOLEAN, reusing : BOOLEAN, ticks : 0..Grace, ep : Eps \cup {NoEp}]

\* Every variable is of its kind; a slot with anything in it has a unit.
TypeOK ==
  /\ slots \in [Slots -> SlotType]
  /\ root \in Roots \cup {NoIor} /\ change \in BOOLEAN /\ fw \subseteq Eps
  /\ q \in BOOLEAN /\ rt \in RtModes
  /\ zz \in Tasks \cup {None} /\ mbox \in Tasks \cup {None} /\ todo \in 1..NumSlots + 1
  /\ replies \in [Iors -> 0..2]

\* A request not replied yet is in a slot, is the root hub's, or in the hands
\* of a flush.
HeldSomewhere(i) ==
  \/ root = i
  \/ \E s \in Slots : slots[s].used /\ i \in {slots[s].ior, slots[s].reply}
  \/ task[Flush].ior = i

\* "exact-once request retirement": no request is replied twice, and none is
\* dropped before it is replied.
RetiredOnce ==
  \A i \in Iors : replies[i] < 2 /\ (replies[i] = 0 => HeldSomewhere(i))

\* A queue in the firmware belongs to a slot that is armed or being armed for
\* its endpoint, or the command that made it is still being dealt with.
NoOrphanQueue ==
  \A e \in fw :
    \/ \E s \in Slots : slots[s].used /\ (slots[s].armed \/ slots[s].arming)
                        /\ e \in {slots[s].ep} \cup
                             (IF slots[s].ior # NoIor THEN {EpOf[slots[s].ior]} ELSE {})
    \/ \E t \in Tasks : task[t].ep = e

\* "Replying before PERIODIC_STOP lets device teardown race the live firmware
\* queue": an aborted request is replied when the firmware has no queue for
\* its endpoint, or one of another slot.
AbortWaitsForStop ==
  [][\A s \in Slots, i \in Ints :
       slots[s].reply = i /\ replies'[i] > replies[i]
       => \/ EpOf[i] \notin fw'
          \/ \E u \in Slots \ {s} : slots[u].armed /\ slots[u].ep = EpOf[i]]_vars
=============================================================================
