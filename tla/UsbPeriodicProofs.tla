------------------------- MODULE UsbPeriodicProofs -------------------------
(***************************************************************************)
(* Theorems about UsbPeriodic.  Its types hold whether realtime ISO runs   *)
(* or not; what becomes of requests and queues is proved for a unit that   *)
(* runs none (RtModes = {FALSE}), where a command keeps zz_Lock: with it,  *)
(* RetiredOnce fails.                                                      *)
(***************************************************************************)
EXTENDS UsbPeriodic, WellFoundedInduction, TLAPS

-----------------------------------------------------------------------------
(* Types, with those of the tasks' commands.                               *)

ReqStages == {"rearm", "stop pending", "abort", "reuse failed", "write done", "reap failed"}
Stages == ReqStages \cup {"arm", "reap", "detached", "flush", "orphan", "port", None}
Cmds == {"arm", "stop", "reap", "port", None}
Rets == {"ok", "err", "none", "same", "change", "offline"}

TaskType ==
  [pc : {"idle", "next", "begun", "sent"}, slot : Slots, ior : Iors \cup {NoIor},
   stage : Stages, cmd : Cmds, ep : Eps \cup {NoEp}, ret : Rets]

\* A command for a request has one, an ARM names an endpoint, and a REAP has
\* one of its own answers.
Sensible(k) ==
  /\ k.stage \in ReqStages \cup {"arm", "reap"} => k.ior \in Ints
  /\ k.cmd = "arm" => k.ep \in Eps
  /\ k.stage = "reap" => k.cmd = "reap"
  /\ k.pc = "sent" /\ k.cmd = "reap" => k.ret \in {"ok", "err", "none"}

TypeInv ==
  /\ TypeOK
  /\ task \in [Tasks -> TaskType]
  /\ \A t \in Tasks : Sensible(task[t])

\* The fields of a slot can be set one by one.
LEMMA SetSlot ==
  ASSUME NEW r \in SlotType, NEW b \in BOOLEAN
  PROVE  /\ [r EXCEPT !.armed = b] \in SlotType
         /\ [r EXCEPT !.arming = b] \in SlotType
         /\ [r EXCEPT !.abort = b] \in SlotType
         /\ [r EXCEPT !.rearm = b] \in SlotType
         /\ [r EXCEPT !.stop = b] \in SlotType
         /\ [r EXCEPT !.reusing = b] \in SlotType
BY DEF SlotType

\* A request of Ints has an endpoint.
LEMMA EpOfType ==
  ASSUME NEW i \in Ints
  PROVE  EpOf[i] \in Eps
BY DEF Eps

\* The free slot and the idle task are of their types.
LEMMA ClearType == clear_int_slot \in SlotType /\ Idle \in TaskType /\ Sensible(Idle)
BY SizesAssumption, IorsAssumption
   DEF clear_int_slot, SlotType, Idle, TaskType, Sensible, Stages, ReqStages, Cmds, Rets, None,
       NoEp, Iors, Slots

\* Submitting a request and replying to others keeps the counts of replies.
LEMMA ExchangeType ==
  ASSUME TypeOK, NEW new, NEW set, Exchange(new, set)
  PROVE  replies' \in [Iors -> 0..2]
BY DEF Exchange, TypeOK

\* What a task and the locks are after a command begins.
LEMMA BeginType ==
  ASSUME TypeInv, NEW t \in Tasks, NEW s \in Slots, NEW i \in Iors \cup {NoIor},
         NEW stage \in Stages, NEW cmd \in Cmds, NEW ep \in Eps \cup {NoEp},
         stage \in ReqStages \cup {"arm", "reap"} => i \in Ints,
         cmd = "arm" => ep \in Eps, stage = "reap" => cmd = "reap",
         Begin(t, s, i, stage, cmd, ep)
  PROVE  /\ task' \in [Tasks -> TaskType] /\ \A u \in Tasks : Sensible(task'[u])
         /\ zz' \in Tasks \cup {None} /\ mbox' \in Tasks \cup {None}
<1> DEFINE k == [pc |-> "begun", slot |-> s, ior |-> i, stage |-> stage, cmd |-> cmd,
                 ep |-> ep, ret |-> None]
<1>1. k \in TaskType /\ Sensible(k)
  BY DEF TaskType, Sensible, Rets, None
<1>2. task' = [task EXCEPT ![t] = k] /\ task \in [Tasks -> TaskType]
  BY DEF Begin, TypeInv
<1>3. \A u \in Tasks : task'[u] = IF u = t THEN k ELSE task[u]
  BY <1>2
<1> QED  BY <1>1, <1>2, <1>3 DEF Begin, TypeInv, TypeOK

\* The same after a task leaves its slot.
LEMMA LeaveType ==
  ASSUME TypeInv, NEW t \in Tasks, Leave(t)
  PROVE  /\ task' \in [Tasks -> TaskType] /\ \A u \in Tasks : Sensible(task'[u])
         /\ zz' \in Tasks \cup {None} /\ mbox' \in Tasks \cup {None}
<1>1. [Idle EXCEPT !.pc = "next"] \in TaskType /\ Sensible([Idle EXCEPT !.pc = "next"])
  BY ClearType DEF TaskType, Sensible
<1>2. PICK k : k = IF t = Poll THEN Idle ELSE [Idle EXCEPT !.pc = "next"]
  OBVIOUS
<1>3. k \in TaskType /\ Sensible(k)
  BY <1>1, <1>2, ClearType
<1>4. task' = [task EXCEPT ![t] = k] /\ task \in [Tasks -> TaskType]
  BY <1>2 DEF Leave, TypeInv
<1>5. \A u \in Tasks : task'[u] = IF u = t THEN k ELSE task[u]
  BY <1>4
<1> QED  BY <1>3, <1>4, <1>5 DEF Leave, TypeInv, TypeOK


\* What a step on a slot must keep of the types.
SlotsTyped == slots' \in [Slots -> SlotType] /\ replies' \in [Iors -> 0..2]
TasksTyped ==
  /\ task' \in [Tasks -> TaskType] /\ \A u \in Tasks : Sensible(task'[u])
  /\ zz' \in Tasks \cup {None} /\ mbox' \in Tasks \cup {None}

\* A slot is written, and replies are made or not.
LEMMA PutType ==
  ASSUME TypeOK, NEW s \in Slots, NEW r \in SlotType, Put(s, r),
         UNCHANGED replies \/ \E new, set : Exchange(new, set)
  PROVE  SlotsTyped
<1>1. slots' \in [Slots -> SlotType]
  BY DEF Put, TypeOK
<1>2. replies' \in [Iors -> 0..2]
  <2>1. CASE UNCHANGED replies
    BY <2>1 DEF TypeOK
  <2>2. CASE \E new, set : Exchange(new, set)
    BY <2>2, ExchangeType
  <2> QED  BY <2>1, <2>2
<1> QED  BY <1>1, <1>2 DEF SlotsTyped

\* A slot that has its STOP keeps the types.
LEMMA RetireType ==
  ASSUME TypeInv, NEW t \in Tasks, NEW s \in Slots, NEW i, NEW stage, NEW r \in SlotType,
         NEW ok, Retire(t, s, i, stage, r, ok)
  PROVE  SlotsTyped /\ TasksTyped
<1>1. TasksTyped
  BY LeaveType DEF Retire, TasksTyped
<1>2. PICK b \in BOOLEAN : b = IF stage \in {"abort", "flush"} THEN FALSE ELSE r.abort
  BY DEF SlotType
<1>3. [r EXCEPT !.stop = TRUE, !.abort = b] \in SlotType
  BY DEF SlotType
<1>4. \/ Put(s, r) /\ UNCHANGED replies
      \/ Put(s, clear_int_slot) /\ Exchange(NoIor, {i} \ {NoIor})
      \/ Put(s, [r EXCEPT !.stop = TRUE, !.abort = b]) /\ UNCHANGED replies
  BY <1>2 DEF Retire, Answer, SlotType
<1> QED  BY <1>1, <1>3, <1>4, PutType, ClearType DEF TypeInv

\* A detached slot that has its STOP keeps the types.
LEMMA DetachedType ==
  ASSUME TypeInv, NEW t \in Tasks, NEW s \in Slots, NEW r \in SlotType, Detached(t, s, r)
  PROVE  SlotsTyped /\ TasksTyped
<1>1. TasksTyped
  BY LeaveType DEF Detached, TasksTyped
<1>2. \/ Put(s, r) /\ UNCHANGED replies
      \/ Put(s, clear_int_slot) /\ Exchange(NoIor, {r.reply} \ {NoIor})
  BY DEF Detached, Answer
<1> QED  BY <1>1, <1>2, PutType, ClearType DEF TypeInv

\* So does an ARM of a slot that has a request,
LEMMA ArmType ==
  ASSUME TypeInv, NEW t \in Tasks, NEW s \in Slots, NEW r \in SlotType, r.ior \in Ints,
         Arm(t, s, r), UNCHANGED replies
  PROVE  SlotsTyped /\ TasksTyped
<1>1. Begin(t, s, r.ior, "arm", "arm", EpOf[r.ior]) /\ EpOf[r.ior] \in Eps
  BY EpOfType DEF Arm
<1>2. TasksTyped
  BY <1>1, BeginType DEF TasksTyped, Iors, Stages, Cmds
<1>3. [r EXCEPT !.arming = TRUE] \in SlotType
  BY SetSlot
<1> QED  BY <1>2, <1>3, PutType DEF Arm, TypeInv

\* an ARM after a STOP,
LEMMA RearmType ==
  ASSUME TypeInv, NEW t \in Tasks, NEW s \in Slots, NEW i \in Ints, NEW r \in SlotType,
         NEW ok \in BOOLEAN, Rearm(t, s, i, r, ok)
  PROVE  SlotsTyped /\ TasksTyped
<1>1. PICK d \in SlotType : d = [r EXCEPT !.rearm = FALSE]
  BY SetSlot
<1>0. d.ior = r.ior
  BY <1>1 DEF SlotType
<1>2. [d EXCEPT !.stop = TRUE] \in SlotType
  BY SetSlot
<1>3. \/ Put(s, r) /\ Leave(t)
      \/ r.ior = i /\ Arm(t, s, d)
      \/ Put(s, [d EXCEPT !.stop = TRUE]) /\ Leave(t)
  BY <1>1 DEF Rearm, Same
<1>4. UNCHANGED replies
  BY DEF Rearm
<1>5. CASE Put(s, r) /\ Leave(t)
  BY <1>4, <1>5, PutType, LeaveType DEF TypeInv, TasksTyped
<1>6. CASE r.ior = i /\ Arm(t, s, d)
  BY <1>0, <1>4, <1>6, ArmType
<1>7. CASE Put(s, [d EXCEPT !.stop = TRUE]) /\ Leave(t)
  BY <1>2, <1>4, <1>7, PutType, LeaveType DEF TypeInv, TasksTyped
<1> QED  BY <1>3, <1>5, <1>6, <1>7

\* and a STOP, or what follows it when the slot is not armed.
LEMMA StopFirstType ==
  ASSUME TypeInv, NEW t \in Tasks, NEW s \in Slots, NEW i \in Iors \cup {NoIor},
         NEW stage \in ReqStages \cup {"detached", "flush"}, NEW r \in SlotType,
         stage \in ReqStages => i \in Ints, StopFirst(t, s, i, stage, r)
  PROVE  SlotsTyped /\ TasksTyped
<1>1. CASE r.armed
  <2>1. StopEp(r) \in Eps \cup {NoEp}
    BY EpOfType DEF StopEp, SlotType
  <2>2. Begin(t, s, i, stage, "stop", StopEp(r)) /\ Put(s, r) /\ UNCHANGED replies
    BY <1>1 DEF StopFirst
  <2>3. TasksTyped
    BY <2>1, <2>2, BeginType DEF TasksTyped, Stages, Cmds, ReqStages
  <2> QED  BY <2>2, <2>3, PutType DEF TypeInv
<1>2. CASE ~r.armed
  <2>1. \/ Detached(t, s, r)
        \/ stage = "rearm" /\ Rearm(t, s, i, r, TRUE)
        \/ Retire(t, s, i, stage, r, TRUE)
    BY <1>2 DEF StopFirst
  <2> QED  BY <2>1, DetachedType, RearmType, RetireType DEF ReqStages
<1> QED  BY <1>1, <1>2

\* A step on a slot, with all other variables as they were, keeps TypeInv.
LEMMA TypedStep ==
  ASSUME TypeInv, SlotsTyped, TasksTyped, UNCHANGED <<root, change, fw, rt>>,
         q' \in BOOLEAN, todo' \in 1..NumSlots + 1
  PROVE  TypeInv'
BY DEF TypeInv, TypeOK, SlotsTyped, TasksTyped

\* A task's command is typed, and its slot.
LEMMA TaskTyped ==
  ASSUME TypeInv, NEW t \in Tasks
  PROVE  /\ task[t].slot \in Slots /\ slots[task[t].slot] \in SlotType
         /\ task[t].ior \in Iors \cup {NoIor} /\ task[t].ep \in Eps \cup {NoEp}
         /\ task[t].stage \in ReqStages \cup {"arm", "reap"} => task[t].ior \in Ints
         /\ task[t].cmd = "arm" => task[t].ep \in Eps
         /\ task[t].pc = "sent" /\ task[t].stage = "reap" => task[t].ret \in {"ok", "err", "none"}
<1>1. task[t] \in TaskType /\ Sensible(task[t])
  BY DEF TypeInv
<1>2. task[t].slot \in Slots
  BY <1>1 DEF TaskType
<1> QED  BY <1>1, <1>2 DEF TaskType, Sensible, TypeInv, TypeOK

\* The answer of the firmware keeps the types of command and queues.
LEMMA SendType ==
  ASSUME TypeInv, NEW t \in Tasks, Send(t)
  PROVE  TypeInv'
<1>1. PICK ret \in Rets,
           live \in {fw, {}} \cup {fw \cup {e} : e \in Eps} \cup {fw \ {e} : e \in Eps},
           lost \in BOOLEAN :
             /\ fw' = live /\ q' = lost /\ task' = [task EXCEPT ![t].pc = "sent", ![t].ret = ret]
             /\ Outcome(task[t].cmd, task[t].ep, ret, live, lost)
  BY DEF Send, Rets
<1>2. fw' \subseteq Eps /\ q' \in BOOLEAN
  BY <1>1 DEF TypeInv, TypeOK
<1>3. PICK k : k = [task[t] EXCEPT !.pc = "sent", !.ret = ret]
  OBVIOUS
<1>4. k \in TaskType /\ Sensible(k)
  <2>1. task[t] \in TaskType /\ Sensible(task[t])
    BY DEF TypeInv
  <2>2. k \in TaskType /\ k.stage = task[t].stage /\ k.ior = task[t].ior
        /\ k.cmd = task[t].cmd /\ k.ep = task[t].ep /\ k.ret = ret
    BY <1>3, <2>1 DEF TaskType
  <2>3. task[t].cmd = "reap" => ret \in {"ok", "err", "none"}
    BY <1>1 DEF Outcome
  <2> QED  BY <2>1, <2>2, <2>3 DEF Sensible
<1>5. task' = [task EXCEPT ![t] = k]
  BY <1>1, <1>3 DEF TypeInv
<1>6. task' \in [Tasks -> TaskType] /\ \A u \in Tasks : Sensible(task'[u])
  BY <1>4, <1>5 DEF TypeInv
<1>7. mbox' \in Tasks \cup {None} /\ UNCHANGED <<slots, root, change, rt, zz, todo, replies>>
  BY DEF Send, TypeInv, TypeOK
<1> QED  BY <1>2, <1>6, <1>7 DEF TypeInv, TypeOK

\* The answer to a STOP keeps the types.
LEMMA StopDoneType ==
  ASSUME TypeInv, NEW t \in Tasks, StopDone(t)
  PROVE  TypeInv'
<1>1. PICK k : k = task[t]
  OBVIOUS
<1>2. PICK ok \in BOOLEAN : ok = (k.ret = "ok")
  OBVIOUS
<1>3. PICK r : r = Stopped(slots[k.slot], ok)
  OBVIOUS
<1>4. r \in SlotType /\ k.slot \in Slots
  BY <1>1, <1>3, TaskTyped, SetSlot DEF Stopped
<1>5. \/ Leave(t) /\ UNCHANGED <<slots, replies>>
      \/ Detached(t, k.slot, r)
      \/ k.stage = "rearm" /\ Rearm(t, k.slot, k.ior, r, ok)
      \/ Retire(t, k.slot, k.ior, k.stage, r, ok)
  BY <1>1, <1>2, <1>3 DEF StopDone
<1>6. SlotsTyped /\ TasksTyped
  <2>1. CASE Leave(t) /\ UNCHANGED <<slots, replies>>
    BY <2>1, LeaveType DEF SlotsTyped, TasksTyped, TypeInv, TypeOK
  <2>2. CASE Detached(t, k.slot, r)
    BY <1>4, <2>2, DetachedType
  <2>3. CASE k.stage = "rearm" /\ Rearm(t, k.slot, k.ior, r, ok)
    <3>1. k.ior \in Ints
      BY <1>1, <2>3, TaskTyped DEF ReqStages
    <3> QED  BY <1>4, <2>3, <3>1, RearmType
  <2>4. CASE Retire(t, k.slot, k.ior, k.stage, r, ok)
    BY <1>4, <2>4, RetireType
  <2> QED  BY <1>5, <2>1, <2>2, <2>3, <2>4
<1>7. q' \in BOOLEAN /\ UNCHANGED <<root, change, fw, rt, todo>>
  BY DEF StopDone
<1> QED  BY <1>6, <1>7, TypedStep DEF TypeInv, TypeOK

\* Nothing happens to the slots and the tasks.
LEMMA NothingTyped ==
  ASSUME TypeInv
  PROVE  /\ UNCHANGED <<slots, replies>> => SlotsTyped
         /\ UNCHANGED <<task, zz, mbox>> => TasksTyped
BY DEF TypeInv, TypeOK, SlotsTyped, TasksTyped

\* A look of the poll task at a slot keeps the types.
LEMMA PollType ==
  ASSUME TypeInv, NEW s \in Slots, NEW reap \in BOOLEAN, poll_int_pending(s, reap)
  PROVE  TypeInv'
<1>1. PICK r \in SlotType : r = slots[s]
  BY DEF TypeInv, TypeOK
<1>2. PICK i : i = r.ior /\ i \in Ints \cup {NoIor} /\ i \in Iors \cup {NoIor}
  BY DEF SlotType, Iors
<1>3. PICK now : now = IF i # NoIor /\ ~r.armed THEN [r EXCEPT !.ep = EpOf[i]] ELSE r
  OBVIOUS
<1>4. now \in SlotType /\ now.ior = i /\ [now EXCEPT !.abort = FALSE] \in SlotType
  <2>1. now \in SlotType /\ now.ior = i
    BY <1>2, <1>3, EpOfType DEF SlotType
  <2> QED  BY <2>1, SetSlot
<1>5. \/ r.ticks > 0 /\ Put(s, [r EXCEPT !.ticks = @ - 1]) /\ UNCHANGED <<task, zz, mbox, replies>>
      \/ StopFirst(Poll, s, i, "detached", r)
      \/ i # NoIor /\ StopFirst(Poll, s, i, "stop pending", [now EXCEPT !.abort = FALSE])
      \/ i # NoIor /\ StopFirst(Poll, s, i, "abort", now)
      \/ i # NoIor /\ StopFirst(Poll, s, i, "rearm", now)
      \/ i # NoIor /\ Arm(Poll, s, now) /\ UNCHANGED replies
      \/ i # NoIor /\ Begin(Poll, s, i, "reap", "reap", EpOf[i]) /\ UNCHANGED <<slots, replies>>
      \/ UNCHANGED <<slots, task, zz, mbox, replies>>
  BY <1>1, <1>2, <1>3 DEF poll_int_pending, InGrace
<1>6. SlotsTyped /\ TasksTyped
  <2>1. CASE r.ticks > 0 /\ Put(s, [r EXCEPT !.ticks = @ - 1])
             /\ UNCHANGED <<task, zz, mbox, replies>>
    <3>1. [r EXCEPT !.ticks = @ - 1] \in SlotType
      BY <2>1, SizesAssumption DEF SlotType
    <3> QED  BY <2>1, <3>1, PutType, NothingTyped DEF TypeInv
  <2>2. CASE StopFirst(Poll, s, i, "detached", r)
    BY <1>2, <2>2, StopFirstType DEF Tasks, ReqStages
  <2>3. CASE i # NoIor /\ StopFirst(Poll, s, i, "stop pending", [now EXCEPT !.abort = FALSE])
    BY <1>2, <1>4, <2>3, StopFirstType DEF Tasks, ReqStages
  <2>4. CASE i # NoIor /\ StopFirst(Poll, s, i, "abort", now)
    BY <1>2, <1>4, <2>4, StopFirstType DEF Tasks, ReqStages
  <2>5. CASE i # NoIor /\ StopFirst(Poll, s, i, "rearm", now)
    BY <1>2, <1>4, <2>5, StopFirstType DEF Tasks, ReqStages
  <2>6. CASE i # NoIor /\ Arm(Poll, s, now) /\ UNCHANGED replies
    BY <1>2, <1>4, <2>6, ArmType DEF Tasks
  <2>7. CASE i # NoIor /\ Begin(Poll, s, i, "reap", "reap", EpOf[i]) /\ UNCHANGED <<slots, replies>>
    <3>1. i \in Ints /\ EpOf[i] \in Eps
      BY <1>2, <2>7, EpOfType
    <3>2. TasksTyped
      BY <1>2, <2>7, <3>1, BeginType DEF Tasks, TasksTyped, Stages, Cmds
    <3> QED  BY <2>7, <3>2, NothingTyped
  <2>8. CASE UNCHANGED <<slots, task, zz, mbox, replies>>
    BY <2>8, NothingTyped
  <2> QED  BY <1>5, <2>1, <2>2, <2>3, <2>4, <2>5, <2>6, <2>7, <2>8
<1>7. UNCHANGED <<root, change, fw, q, rt, todo>>
  BY DEF poll_int_pending
<1> QED  BY <1>6, <1>7, TypedStep DEF TypeInv, TypeOK

\* The answer to an ARM keeps the types.
LEMMA ArmDoneType ==
  ASSUME TypeInv, NEW reap \in BOOLEAN, ArmDone(reap)
  PROVE  TypeInv'
<1>1. PICK k : k = task[Poll]
  OBVIOUS
<1>2. PICK s \in Slots : s = k.slot
  BY <1>1, TaskTyped DEF Tasks
<1>3. PICK i \in Ints : i = k.ior
  BY <1>1, TaskTyped DEF Tasks, ArmDone, Got
<1>4. PICK r : r = [slots[s] EXCEPT !.arming = FALSE]
  OBVIOUS
<1>5. PICK a : a = [r EXCEPT !.armed = TRUE]
  OBVIOUS
<1>6. /\ r \in SlotType /\ a \in SlotType
      /\ [a EXCEPT !.reusing = FALSE] \in SlotType /\ [a EXCEPT !.stop = TRUE] \in SlotType
  <2>1. r \in SlotType
    BY <1>4, SetSlot DEF TypeInv, TypeOK
  <2>2. a \in SlotType
    BY <1>5, <2>1, SetSlot
  <2> QED  BY <2>1, <2>2, SetSlot
<1>7. PICK b : b = [a EXCEPT !.reusing = FALSE]
  OBVIOUS
<1>8. EpOf[i] \in Eps /\ k.ep \in Eps \cup {NoEp} /\ i \in Iors
  BY <1>1, EpOfType, TaskTyped DEF Tasks, Iors
<1>9. b \in SlotType /\ [b EXCEPT !.ep = EpOf[i]] \in SlotType
  <2>1. b \in SlotType
    BY <1>6, <1>7
  <2> QED  BY <1>8, <2>1 DEF SlotType
<1>0. r.used = slots[s].used /\ r.ior = slots[s].ior /\ r.reusing \in BOOLEAN
  BY <1>4 DEF SlotType, TypeInv, TypeOK
<1>10. /\ [r EXCEPT !.armed = TRUE, !.reusing = FALSE] = b
       /\ [r EXCEPT !.armed = TRUE, !.reusing = FALSE, !.ep = EpOf[i]] = [b EXCEPT !.ep = EpOf[i]]
       /\ [r EXCEPT !.armed = TRUE, !.stop = TRUE] = [a EXCEPT !.stop = TRUE]
  BY <1>5, <1>6, <1>7 DEF SlotType
<1>11. \/ Begin(Poll, s, i, "orphan", "stop", k.ep) /\ UNCHANGED <<slots, replies>>
       \/ Leave(Poll) /\ UNCHANGED <<slots, replies>>
       \/ StopFirst(Poll, s, i, "reuse failed", b)
       \/ Put(s, [a EXCEPT !.stop = TRUE]) /\ UNCHANGED replies /\ Leave(Poll)
       \/ Put(s, clear_int_slot) /\ Exchange(NoIor, {i}) /\ Leave(Poll)
       \/ /\ Put(s, [b EXCEPT !.ep = EpOf[i]]) /\ UNCHANGED replies
          /\ Begin(Poll, s, i, "reap", "reap", EpOf[i]) \/ Leave(Poll)
  BY <1>0, <1>1, <1>2, <1>3, <1>4, <1>10 DEF ArmDone, Answer, Same
<1>12. SlotsTyped /\ TasksTyped
  <2>1. CASE Begin(Poll, s, i, "orphan", "stop", k.ep) /\ UNCHANGED <<slots, replies>>
    <3>1. TasksTyped
      BY <1>8, <2>1, BeginType DEF Tasks, TasksTyped, Stages, Cmds, ReqStages
    <3> QED  BY <2>1, <3>1, NothingTyped
  <2>2. CASE Leave(Poll) /\ UNCHANGED <<slots, replies>>
    BY <2>2, LeaveType, NothingTyped DEF Tasks, TasksTyped
  <2>3. CASE StopFirst(Poll, s, i, "reuse failed", b)
    BY <1>8, <1>9, <2>3, StopFirstType DEF Tasks, ReqStages
  <2>4. CASE Put(s, [a EXCEPT !.stop = TRUE]) /\ UNCHANGED replies /\ Leave(Poll)
    BY <1>6, <2>4, PutType, LeaveType DEF Tasks, TasksTyped, TypeInv
  <2>5. CASE Put(s, clear_int_slot) /\ Exchange(NoIor, {i}) /\ Leave(Poll)
    BY <2>5, PutType, LeaveType, ClearType DEF Tasks, TasksTyped, TypeInv
  <2>6. CASE /\ Put(s, [b EXCEPT !.ep = EpOf[i]]) /\ UNCHANGED replies
             /\ Begin(Poll, s, i, "reap", "reap", EpOf[i]) \/ Leave(Poll)
    <3>1. SlotsTyped
      BY <1>9, <2>6, PutType DEF TypeInv
    <3>2. TasksTyped
      BY <1>8, <2>6, BeginType, LeaveType DEF Tasks, TasksTyped, Stages, Cmds
    <3> QED  BY <3>1, <3>2
  <2> QED  BY <1>11, <2>1, <2>2, <2>3, <2>4, <2>5, <2>6
<1>13. UNCHANGED <<root, change, fw, q, rt, todo>>
  BY DEF ArmDone
<1> QED  BY <1>12, <1>13, TypedStep DEF TypeInv, TypeOK

\* The answer to a REAP keeps the types.
LEMMA ReapDoneType ==
  ASSUME TypeInv, ReapDone
  PROVE  TypeInv'
<1>1. PICK s \in Slots : s = task[Poll].slot
  BY TaskTyped DEF Tasks
<1>2. PICK i \in Ints : i = task[Poll].ior
  BY TaskTyped DEF Tasks, ReapDone, Got
<1>3. PICK r \in SlotType : r = slots[s]
  BY DEF TypeInv, TypeOK
<1>4. PICK d : d = [r EXCEPT !.ior = NoIor, !.rearm = FALSE, !.stop = FALSE,
                             !.reusing = FALSE, !.ticks = Grace]
  OBVIOUS
<1>5. d \in SlotType
  <2>1. Grace \in 0..Grace
    BY SizesAssumption
  <2> QED  BY <1>4, <2>1 DEF SlotType
<1>6. \/ Leave(Poll) /\ UNCHANGED <<slots, replies>>
      \/ \E stage \in {"abort", "write done", "reap failed"} : StopFirst(Poll, s, i, stage, r)
      \/ Put(s, d) /\ Exchange(NoIor, {i}) /\ Leave(Poll)
  <2>1. task[Poll].ret \in {"ok", "err", "none"} /\ r.abort \in BOOLEAN
    BY TaskTyped DEF Tasks, ReapDone, Got, SlotType
  <2> QED  BY <1>1, <1>2, <1>3, <1>4, <2>1 DEF ReapDone, Answer
<1>7. SlotsTyped /\ TasksTyped
  <2>1. CASE Leave(Poll) /\ UNCHANGED <<slots, replies>>
    BY <2>1, LeaveType, NothingTyped DEF Tasks, TasksTyped
  <2>2. ASSUME NEW stage \in {"abort", "write done", "reap failed"},
               StopFirst(Poll, s, i, stage, r)
        PROVE  SlotsTyped /\ TasksTyped
    BY <2>2, StopFirstType DEF Tasks, ReqStages, Iors
  <2>3. CASE Put(s, d) /\ Exchange(NoIor, {i}) /\ Leave(Poll)
    BY <1>5, <2>3, PutType, LeaveType DEF Tasks, TasksTyped, TypeInv
  <2> QED  BY <1>6, <2>1, <2>2, <2>3
<1>8. UNCHANGED <<root, change, fw, q, rt, todo>>
  BY DEF ReapDone
<1> QED  BY <1>7, <1>8, TypedStep DEF TypeInv, TypeOK

\* A look at the root hub's request keeps the types.
LEMMA RootPollType ==
  ASSUME TypeInv, poll_roothub_pending
  PROVE  TypeInv'
<1>1. CASE change
  <2>1. root' = NoIor /\ Exchange(NoIor, {root})
        /\ UNCHANGED <<task, zz, mbox, slots, change, fw, q, rt, todo>>
    BY <1>1 DEF poll_roothub_pending, Answer
  <2>2. replies' \in [Iors -> 0..2]
    BY <2>1, ExchangeType DEF TypeInv
  <2> QED  BY <2>1, <2>2 DEF TypeInv, TypeOK
<1>2. CASE ~change
  <2>1. Begin(Poll, 1, root, "port", "port", NoEp) /\ UNCHANGED <<root, replies>>
        /\ UNCHANGED <<slots, change, fw, q, rt, todo>>
    BY <1>2 DEF poll_roothub_pending
  <2>2. 1 \in Slots /\ root \in Iors \cup {NoIor}
    BY SizesAssumption DEF Slots, Iors, TypeInv, TypeOK
  <2>3. TasksTyped
    BY <2>1, <2>2, BeginType DEF Tasks, TasksTyped, Stages, Cmds, ReqStages
  <2> QED  BY <2>1, <2>3, NothingTyped, TypedStep DEF TypeInv, TypeOK
<1> QED  BY <1>1, <1>2

\* The end of a port check keeps the types.
LEMMA PortDoneType ==
  ASSUME TypeInv, PortDone
  PROVE  TypeInv'
<1>1. PICK gone : slots' = [s \in Slots |-> IF s \in gone THEN clear_int_slot ELSE slots[s]]
  BY DEF PortDone
<1>2. \E set : Exchange(NoIor, set)
  BY DEF PortDone, Answer
<1>3. SlotsTyped
  BY <1>1, <1>2, ExchangeType, ClearType DEF SlotsTyped, TypeInv, TypeOK
<1>4. root' \in Roots \cup {NoIor} /\ change' \in BOOLEAN /\ q' \in BOOLEAN
      /\ UNCHANGED <<fw, rt, todo>>
  BY DEF PortDone, TypeInv, TypeOK
<1>5. TasksTyped
  BY LeaveType DEF PortDone, Tasks, TasksTyped
<1> QED  BY <1>3, <1>4, <1>5 DEF TypeInv, TypeOK, SlotsTyped, TasksTyped

\* A bus reset keeps the types.
LEMMA USBResetType ==
  ASSUME TypeInv, NEW done \in BOOLEAN, NEW lost \in BOOLEAN, USBReset(done, lost)
  PROVE  TypeInv'
<1>1. slots' \in [Slots -> SlotType]
  <2>1. CASE done
    <3>1. slots' = [s \in Slots |-> [slots[s] EXCEPT !.armed = FALSE, !.arming = FALSE]]
      BY <2>1 DEF USBReset, finish_reset_periodic_for_unit
    <3>2. \A s \in Slots : [slots[s] EXCEPT !.armed = FALSE, !.arming = FALSE] \in SlotType
      BY DEF TypeInv, TypeOK, SlotType
    <3> QED  BY <3>1, <3>2
  <2>2. CASE ~done
    BY <2>2 DEF USBReset, TypeInv, TypeOK
  <2> QED  BY <2>1, <2>2
<1>2. fw' \subseteq Eps /\ change' \in BOOLEAN
  BY DEF USBReset, TypeInv, TypeOK
<1>3. q' \in BOOLEAN /\ UNCHANGED <<root, rt, zz, mbox, task, todo, replies>>
  BY DEF USBReset
<1> QED  BY <1>1, <1>2, <1>3 DEF TypeInv, TypeOK

\* A recovery keeps the types.
LEMMA RecoverType ==
  ASSUME TypeInv, Recover
  PROVE  TypeInv'
BY DEF Recover, TypeInv, TypeOK

\* The first of a nonempty set of slots is one of them.
LEMMA FirstIsIn ==
  ASSUME NEW S \in SUBSET Slots, S # {}
  PROVE  First(S) \in S
<1>1. S \in SUBSET Nat
  BY DEF Slots
<1>2. PICK m \in S : \A n \in S : <<n, m>> \notin OpToRel(<, Nat)
  BY <1>1, NatLessThanWellFounded, WFMin, Zenon
<1>3. \A n \in S : m <= n
  <2> SUFFICES ASSUME NEW n \in S
               PROVE  m <= n
    OBVIOUS
  <2>1. m \in Nat /\ n \in Nat
    BY <1>1
  <2>2. ~(n < m)
    BY <1>2, <2>1, Zenon DEF OpToRel
  <2> QED  BY <2>1, <2>2
<1> QED  BY <1>3 DEF First

\* UHCMD_INTXFER takes a detached slot, replaces a request, or takes a free
\* slot.
LEMMA QueueCases ==
  ASSUME NEW i \in Ints, NEW changed \in BOOLEAN, queue_int_ior(i, changed)
  PROVE  \E s \in Slots :
           \/ /\ detached_int_slot_matches(slots[s], i)
              /\ Put(s, [slots[s] EXCEPT !.ior = i, !.rearm = changed, !.reusing = TRUE,
                                         !.abort = FALSE, !.ticks = 0])
              /\ Exchange(i, {})
           \/ /\ int_slot_matches(slots[s], i)
              /\ \E b : Put(s, [slots[s] EXCEPT !.ior = i, !.abort = FALSE, !.rearm = @ \/ b])
              /\ Exchange(i, {slots[s].ior})
           \/ /\ slots[s].ior = NoIor /\ slots[s].reply = NoIor /\ ~slots[s].armed
              /\ Put(s, [clear_int_slot EXCEPT !.used = TRUE, !.ior = i])
              /\ Exchange(i, {})
<1>1. PICK match : match = {s \in Slots : \/ int_slot_matches(slots[s], i)
                                          \/ detached_int_slot_matches(slots[s], i)}
  OBVIOUS
<1>2. CASE match # {}
  <2>1. PICK s \in Slots : s = First(match) /\ s \in match
    BY <1>1, <1>2, FirstIsIn
  <2>2. int_slot_matches(slots[s], i) \/ detached_int_slot_matches(slots[s], i)
    BY <1>1, <2>1
  <2>3. CASE slots[s].ior = NoIor
    BY <1>1, <1>2, <2>1, <2>2, <2>3 DEF queue_int_ior, int_slot_matches
  <2>4. CASE slots[s].ior # NoIor
    BY <1>1, <1>2, <2>1, <2>2, <2>4 DEF queue_int_ior, detached_int_slot_matches
  <2> QED  BY <2>3, <2>4
<1>3. CASE match = {}
  <2>1. FreeSlots # {} /\ Put(First(FreeSlots), [clear_int_slot EXCEPT !.used = TRUE, !.ior = i])
        /\ Exchange(i, {})
    BY <1>1, <1>3 DEF queue_int_ior
  <2>2. First(FreeSlots) \in FreeSlots
    BY <2>1, FirstIsIn DEF FreeSlots
  <2> QED  BY <2>1, <2>2 DEF FreeSlots
<1> QED  BY <1>2, <1>3

\* UHCMD_INTXFER keeps the types.
LEMMA QueueType ==
  ASSUME TypeInv, NEW i \in Ints, NEW changed \in BOOLEAN, queue_int_ior(i, changed)
  PROVE  TypeInv'
<1>1. UNCHANGED <<root, change, fw, q, rt, zz, mbox, task, todo>>
  BY DEF queue_int_ior
<1>2. PICK s \in Slots :
           \/ /\ Put(s, [slots[s] EXCEPT !.ior = i, !.rearm = changed, !.reusing = TRUE,
                                         !.abort = FALSE, !.ticks = 0])
              /\ \E new, set : Exchange(new, set)
           \/ /\ \E b : Put(s, [slots[s] EXCEPT !.ior = i, !.abort = FALSE, !.rearm = @ \/ b])
              /\ \E new, set : Exchange(new, set)
           \/ /\ Put(s, [clear_int_slot EXCEPT !.used = TRUE, !.ior = i])
              /\ \E new, set : Exchange(new, set)
  BY QueueCases
<1>3. slots[s] \in SlotType
  BY DEF TypeInv, TypeOK
<1>4. [slots[s] EXCEPT !.ior = i, !.rearm = changed, !.reusing = TRUE,
                       !.abort = FALSE, !.ticks = 0] \in SlotType
  <2>1. 0 \in 0..Grace
    BY SizesAssumption
  <2> QED  BY <1>3, <2>1 DEF SlotType
<1>5. ASSUME NEW b
      PROVE  [slots[s] EXCEPT !.ior = i, !.abort = FALSE, !.rearm = @ \/ b] \in SlotType
  <2>1. PICK c \in BOOLEAN : c = (slots[s].rearm \/ b)
    OBVIOUS
  <2>2. [slots[s] EXCEPT !.ior = i, !.abort = FALSE, !.rearm = c] \in SlotType
    BY <1>3 DEF SlotType
  <2>3. [slots[s] EXCEPT !.ior = i, !.abort = FALSE, !.rearm = @ \/ b]
        = [slots[s] EXCEPT !.ior = i, !.abort = FALSE, !.rearm = c]
    BY <1>3, <2>1, Zenon DEF SlotType
  <2> QED  BY <2>2, <2>3
<1>6. [clear_int_slot EXCEPT !.used = TRUE, !.ior = i] \in SlotType
  BY ClearType DEF SlotType
<1>7. SlotsTyped
  BY <1>2, <1>4, <1>5, <1>6, PutType DEF TypeInv
<1> QED  BY <1>1, <1>7, NothingTyped, TypedStep DEF TypeInv, TypeOK

\* The root hub's UHCMD_INTXFER keeps the types.
LEMMA RootIntType ==
  ASSUME TypeInv, NEW i \in Roots, handle_roothub_int(i)
  PROVE  TypeInv'
<1>1. replies' \in [Iors -> 0..2]
  BY ExchangeType DEF handle_roothub_int, TypeInv
<1> QED  BY <1>1 DEF handle_roothub_int, TypeInv, TypeOK

\* AbortIO finds the root hub's request or a slot; it detaches, marks or
\* frees that.
LEMMA AbortCases ==
  ASSUME NEW i \in Iors, abort_io(i)
  PROVE  \/ root = i /\ root' = NoIor /\ Exchange(NoIor, {i}) /\ UNCHANGED slots
         \/ /\ UNCHANGED root /\ root # i
            /\ \E s \in Slots :
                 /\ slots[s].used /\ slots[s].ior = i
                 /\ \/ /\ slots[s].armed /\ UNCHANGED replies
                       /\ Put(s, [slots[s] EXCEPT !.reply = i, !.ior = NoIor, !.stop = TRUE,
                                       !.abort = FALSE, !.reusing = FALSE, !.ticks = 0])
                    \/ Put(s, [slots[s] EXCEPT !.abort = TRUE]) /\ UNCHANGED replies
                    \/ ~slots[s].armed /\ Put(s, clear_int_slot) /\ Exchange(NoIor, {i})
BY DEF abort_io, Answer

\* AbortIO keeps the types.
LEMMA AbortType ==
  ASSUME TypeInv, NEW i \in Iors, abort_io(i)
  PROVE  TypeInv'
<1>1. UNCHANGED <<change, fw, q, rt, zz, mbox, task, todo>>
  BY DEF abort_io
<1>2. CASE root' = NoIor /\ Exchange(NoIor, {i}) /\ UNCHANGED slots
  <2>1. replies' \in [Iors -> 0..2]
    BY <1>2, ExchangeType DEF TypeInv
  <2> QED  BY <1>1, <1>2, <2>1 DEF TypeInv, TypeOK
<1>3. CASE /\ UNCHANGED root
           /\ \E s \in Slots :
                /\ slots[s].ior = i
                /\ \/ /\ UNCHANGED replies
                      /\ Put(s, [slots[s] EXCEPT !.reply = i, !.ior = NoIor, !.stop = TRUE,
                                       !.abort = FALSE, !.reusing = FALSE, !.ticks = 0])
                   \/ Put(s, [slots[s] EXCEPT !.abort = TRUE]) /\ UNCHANGED replies
                   \/ Put(s, clear_int_slot) /\ Exchange(NoIor, {i})
  <2>1. PICK s \in Slots :
                /\ slots[s].ior = i
                /\ \/ /\ UNCHANGED replies
                      /\ Put(s, [slots[s] EXCEPT !.reply = i, !.ior = NoIor, !.stop = TRUE,
                                       !.abort = FALSE, !.reusing = FALSE, !.ticks = 0])
                   \/ Put(s, [slots[s] EXCEPT !.abort = TRUE]) /\ UNCHANGED replies
                   \/ Put(s, clear_int_slot) /\ Exchange(NoIor, {i})
    BY <1>3
  <2>2. slots[s] \in SlotType /\ 0 \in 0..Grace
    BY SizesAssumption DEF TypeInv, TypeOK
  <2>3. i \in Ints
    BY <2>1, <2>2, IorsAssumption DEF SlotType
  <2>4. [slots[s] EXCEPT !.reply = i, !.ior = NoIor, !.stop = TRUE,
                         !.abort = FALSE, !.reusing = FALSE, !.ticks = 0] \in SlotType
    BY <2>2, <2>3 DEF SlotType
  <2>5. SlotsTyped
    BY <2>1, <2>2, <2>4, PutType, SetSlot, ClearType DEF TypeInv
  <2> QED  BY <1>1, <1>3, <2>5, NothingTyped, TypedStep DEF TypeInv, TypeOK
<1> QED  BY <1>2, <1>3, AbortCases

\* The begin of a flush keeps the types.
LEMMA FlushBeginsType ==
  ASSUME TypeInv, FlushBegins
  PROVE  TypeInv'
<1>1. replies' \in [Iors -> 0..2]
  BY ExchangeType DEF FlushBegins, Answer, TypeInv
<1>2. task[Flush] \in TaskType /\ Sensible(task[Flush]) /\ Flush \in Tasks
  BY DEF TypeInv, Tasks
<1>3. PICK k : k = [task[Flush] EXCEPT !.pc = "next"]
  OBVIOUS
<1>4. k \in TaskType /\ Sensible(k)
  BY <1>2, <1>3 DEF TaskType, Sensible
<1>5. task' = [task EXCEPT ![Flush] = k]
  BY <1>3 DEF FlushBegins, TypeInv
<1>6. task' \in [Tasks -> TaskType] /\ \A u \in Tasks : Sensible(task'[u])
  BY <1>4, <1>5 DEF TypeInv
<1>7. root' = NoIor /\ zz' = Flush /\ mbox' = Flush /\ todo' = 1
      /\ UNCHANGED <<slots, change, fw, q, rt>>
  BY DEF FlushBegins
<1>8. todo' \in 1..NumSlots + 1
  BY <1>7, SizesAssumption
<1> QED  BY <1>1, <1>6, <1>7, <1>8 DEF TypeInv, TypeOK, Tasks

\* A look of a flush at a slot keeps the types.
LEMMA FlushSlotType ==
  ASSUME TypeInv, FlushSlot
  PROVE  TypeInv'
<1>1. todo \in Slots /\ todo' \in 1..NumSlots + 1
  BY SizesAssumption DEF FlushSlot, Slots
<1>2. PICK r \in SlotType : r = slots[todo]
  BY <1>1 DEF TypeInv, TypeOK
<1>3. PICK i : i = IF r.ior # NoIor THEN r.ior ELSE r.reply
  OBVIOUS
<1>4. i \in Iors \cup {NoIor}
  BY <1>3 DEF SlotType, Iors
<1>5. [r EXCEPT !.ticks = 0] \in SlotType
  BY SizesAssumption DEF SlotType
<1>6. \/ StopFirst(Flush, todo, i, "flush", [r EXCEPT !.ticks = 0])
      \/ UNCHANGED <<slots, task, zz, mbox, replies>>
  BY <1>2, <1>3 DEF FlushSlot
<1>7. SlotsTyped /\ TasksTyped
  <2>1. CASE StopFirst(Flush, todo, i, "flush", [r EXCEPT !.ticks = 0])
    BY <1>1, <1>4, <1>5, <2>1, StopFirstType DEF Tasks, ReqStages
  <2>2. CASE UNCHANGED <<slots, task, zz, mbox, replies>>
    BY <2>2, NothingTyped
  <2> QED  BY <1>6, <2>1, <2>2
<1>8. UNCHANGED <<root, change, fw, q, rt>>
  BY DEF FlushSlot
<1> QED  BY <1>1, <1>7, <1>8, TypedStep DEF TypeInv, TypeOK

\* The end of a flush keeps the types.
LEMMA FlushEndsType ==
  ASSUME TypeInv, FlushEnds
  PROVE  TypeInv'
<1>1. task' = [task EXCEPT ![Flush] = Idle] /\ zz' = None /\ mbox' = None /\ todo' = 1
      /\ UNCHANGED <<slots, root, change, fw, q, rt, replies>>
  BY DEF FlushEnds
<1>2. task' \in [Tasks -> TaskType] /\ \A u \in Tasks : Sensible(task'[u])
  BY <1>1, ClearType DEF TypeInv
<1>3. todo' \in 1..NumSlots + 1
  BY <1>1, SizesAssumption
<1> QED  BY <1>1, <1>2, <1>3 DEF TypeInv, TypeOK

\* The types hold at first.
LEMMA TypeInit ==
  ASSUME Init
  PROVE  TypeInv
<1>1. 1 \in 1..NumSlots + 1
  BY SizesAssumption
<1>2. slots \in [Slots -> SlotType] /\ task \in [Tasks -> TaskType]
      /\ (\A t \in Tasks : Sensible(task[t])) /\ replies \in [Iors -> 0..2]
  BY ClearType DEF Init
<1>3. root \in Roots \cup {NoIor} /\ change \in BOOLEAN /\ fw \subseteq Eps /\ q \in BOOLEAN
      /\ rt \in RtModes /\ zz \in Tasks \cup {None} /\ mbox \in Tasks \cup {None} /\ todo = 1
  BY DEF Init
<1> QED  BY <1>1, <1>2, <1>3 DEF TypeInv, TypeOK

\* Every step keeps the types.
LEMMA TypeNext ==
  ASSUME TypeInv, [Next]_vars
  PROVE  TypeInv'
<1>1. ASSUME PollStep PROVE TypeInv'
  BY <1>1, PollType, ArmDoneType, SendType, StopDoneType, ReapDoneType, RootPollType,
     PortDoneType, USBResetType, RecoverType DEF PollStep, Tasks
<1>2. ASSUME FlushStep PROVE TypeInv'
  BY <1>2, SendType, StopDoneType, FlushSlotType, FlushEndsType DEF FlushStep, Tasks
<1>3. ASSUME CallerStep PROVE TypeInv'
  <2>1. ASSUME ClearPortChange PROVE TypeInv'
    BY <2>1 DEF ClearPortChange, TypeInv, TypeOK
  <2> QED  BY <1>3, <2>1, QueueType, RootIntType, AbortType, FlushBeginsType DEF CallerStep
<1>4. ASSUME UNCHANGED vars PROVE TypeInv'
  BY <1>4 DEF vars, TypeInv, TypeOK
<1> QED  BY <1>1, <1>2, <1>3, <1>4 DEF Next

\* Slots, locks, endpoint queues and reply counts keep their types through
\* every call of zzusbhw.device's interrupt pipes, with and without realtime
\* ISO.
THEOREM TypeCorrect == Spec => []TypeOK
<1>1. TypeInv /\ [Next]_vars => TypeInv'
  BY TypeNext
<1>2. TypeInv => TypeOK
  BY DEF TypeInv
<1> QED  BY <1>1, <1>2, TypeInit, PTL DEF Spec

-----------------------------------------------------------------------------
(* The inductive invariant, for a unit without realtime ISO.               *)

\* Requests a slot holds.
In(r) == {r.ior, r.reply} \ {NoIor}

\* A slot holds one request at most, none when it is free, and knows the
\* endpoint of the queue it has or had for it.
SlotOK(r) ==
  /\ ~r.used => r.ior = NoIor /\ r.reply = NoIor /\ ~r.armed
  /\ r.ior = NoIor \/ r.reply = NoIor
  /\ r.armed /\ r.ior # NoIor => r.ep = EpOf[r.ior]
  /\ r.reply # NoIor => r.ep = EpOf[r.reply]

\* No request is in two slots; those not replied are the ones held.
Held(i) == root = i \/ \E s \in Slots : i \in In(slots[s])
Requests ==
  /\ \A s \in Slots : SlotOK(slots[s])
  /\ \A s, u \in Slots : s # u => In(slots[s]) \cap In(slots[u]) = {}
  /\ \A i \in Iors : replies[i] < 2 /\ (replies[i] = 0 <=> Held(i))

\* A queue in the firmware has an armed slot, or an ARM made it whose answer
\* the poll task has yet to look at.
ArmUnseen(k, e) ==
  k.pc = "sent" /\ k.stage = "arm" /\ k.ep = e /\ (k.ret = "ok" \/ q)
Queues ==
  \A e \in fw : \/ \E s \in Slots : slots[s].armed /\ slots[s].ep = e
                \/ ArmUnseen(task[Poll], e)

\* A task that is not idle has zz_Lock, and a flush the mailbox.
Locks ==
  /\ rt = FALSE
  /\ \A t \in Tasks : zz = t <=> task[t].pc # "idle"
  /\ mbox = IF zz = Flush THEN Flush ELSE None
  /\ task[Poll].pc # "next"

\* What a command says of the slot it is for.
Command(t, k, r) ==
  /\ k.stage \notin {"orphan", None} /\ (t = Flush <=> k.stage = "flush")
  /\ k.stage \in ReqStages \cup {"detached", "flush"} =>
       k.cmd = "stop" /\ r.armed /\ k.ep = r.ep
  /\ k.stage \in ReqStages \cup {"arm", "reap"} => r.used /\ r.ior = k.ior
  /\ k.stage = "detached" => r.ior = NoIor
  /\ k.stage = "flush" => k.ior = IF r.ior # NoIor THEN r.ior ELSE r.reply
  /\ k.stage = "arm" => /\ k.cmd = "arm" /\ r.ep = EpOf[k.ior] /\ k.ep = r.ep
                        /\ r.armed => r.reusing
  /\ k.stage = "reap" => k.cmd = "reap"
  /\ k.stage = "port" => k.cmd = "port" /\ k.ior = root /\ root # NoIor

\* What the answer to a command says of the firmware.
Answered(k) ==
  /\ k.cmd = "stop" /\ k.ret = "ok" => k.ep \notin fw
  /\ k.ret = "offline" => fw = {}

Commands ==
  \A t \in Tasks :
    /\ task[t].pc \in {"begun", "sent"} => Command(t, task[t], slots[task[t].slot])
    /\ task[t].pc = "sent" => Answered(task[t])

IInv == TypeInv /\ Requests /\ Queues /\ Locks /\ Commands

\* Slot s may become r without leaving a queue uncovered.
Covers(s, r) ==
  \A e \in fw : (slots[s].armed /\ slots[s].ep = e) \/ ArmUnseen(task[Poll], e)
                => r.armed /\ r.ep = e

\* Task t has zz_Lock or takes it.
Holds(t) == zz = t \/ (t = Poll /\ zz = None)

-----------------------------------------------------------------------------
(* What a step on one slot keeps.                                          *)

\* The requests a slot holds.
LEMMA InFacts ==
  ASSUME NEW r \in SlotType
  PROVE  /\ In(r) \subseteq Ints /\ NoIor \notin In(r)
         /\ SlotOK(r) /\ r.ior # NoIor => In(r) = {r.ior}
         /\ SlotOK(r) /\ r.ior = NoIor => In(r) = {r.reply} \ {NoIor}
         /\ In(clear_int_slot) = {} /\ SlotOK(clear_int_slot) /\ ~clear_int_slot.armed
BY DEF In, SlotOK, SlotType, clear_int_slot

\* Not replying is replying to nobody.
LEMMA NoReplies ==
  ASSUME TypeOK, UNCHANGED replies
  PROVE  Exchange(NoIor, {})
<1>1. replies = [i \in Iors |-> replies[i]]
  BY DEF TypeOK
<1>2. [i \in Iors |-> IF i = NoIor THEN 0
                      ELSE IF i \in {} /\ replies[i] < 2 THEN replies[i] + 1
                      ELSE replies[i]] = [i \in Iors |-> replies[i]]
  BY IorsAssumption
<1> QED  BY <1>1, <1>2 DEF Exchange

\* Slot s becomes r: the requests it no longer holds are replied, and the one
\* that comes to it, if any, is submitted.
LEMMA RequestsKept ==
  ASSUME TypeInv, Requests, NEW s \in Slots, NEW r \in SlotType, NEW new,
         Put(s, r), SlotOK(r), Exchange(new, In(slots[s]) \ In(r)), UNCHANGED root,
         In(r) \subseteq In(slots[s]) \cup {new},
         new # NoIor => new \in In(r) /\ replies[new] = 1
  PROVE  Requests'
<1>1. /\ slots \in [Slots -> SlotType] /\ replies \in [Iors -> 0..2]
      /\ root \in Roots \cup {NoIor}
  BY DEF TypeInv, TypeOK
<1>2. slots' = [slots EXCEPT ![s] = r]
  BY DEF Put
<1>3. \A u \in Slots : slots'[u] = IF u = s THEN r ELSE slots[u]
  BY <1>1, <1>2
<1>4. \A i \in Iors : replies'[i] = IF i = new THEN 0
                                    ELSE IF i \in In(slots[s]) \ In(r) /\ replies[i] < 2
                                    THEN replies[i] + 1 ELSE replies[i]
  BY DEF Exchange
<1>5. \A u \in Slots : SlotOK(slots'[u])
  BY <1>3 DEF Requests
<1>6. /\ \A u \in Slots : In(slots[u]) \subseteq Ints /\ NoIor \notin In(slots[u])
      /\ In(r) \subseteq Ints /\ NoIor \notin In(r)
  BY <1>1, InFacts
<1>7. \A i \in Iors : replies[i] < 2 /\ (replies[i] = 0 <=> Held(i))
  BY DEF Requests
<1>8. new # NoIor => \A u \in Slots : new \notin In(slots[u])
  BY <1>6, <1>7 DEF Held, Iors
<1>9. \A u, v \in Slots : u # v => In(slots[u]) \cap In(slots[v]) = {}
  BY DEF Requests
<1>10. \A u, v \in Slots : u # v => In(slots'[u]) \cap In(slots'[v]) = {}
  <2> SUFFICES ASSUME NEW u \in Slots, u # s
               PROVE  In(slots[u]) \cap In(r) = {}
    BY <1>3, <1>9
  <2> QED  BY <1>6, <1>8, <1>9
<1>11. ASSUME NEW i \in Iors
       PROVE  replies'[i] < 2 /\ (replies'[i] = 0 <=> Held(i)')
  <2>1. Held(i)' <=> root = i \/ i \in In(r) \/ \E u \in Slots \ {s} : i \in In(slots[u])
    BY <1>3 DEF Held
  <2>2. CASE i = new
    <3>1. new # NoIor
      BY <2>2, IorsAssumption
    <3> QED  BY <1>4, <2>1, <2>2, <3>1
  <2>3. CASE i # new /\ i \in In(slots[s]) \ In(r)
    <3>1. replies[i] = 0
      BY <1>7, <2>3 DEF Held
    <3>2. replies'[i] = 1
      BY <1>4, <2>3, <3>1
    <3>3. root # i
      BY <1>1, <1>6, <2>3, IorsAssumption
    <3> QED  BY <1>9, <2>1, <2>3, <3>2, <3>3
  <2>4. CASE i # new /\ i \notin In(slots[s]) \ In(r)
    <3>1. replies'[i] = replies[i]
      BY <1>4, <2>4
    <3>2. i \in In(r) <=> i \in In(slots[s])
      BY <2>4
    <3>3. Held(i)' <=> Held(i)
      BY <2>1, <3>2 DEF Held
    <3> QED  BY <1>7, <3>1, <3>3
  <2> QED  BY <2>2, <2>3, <2>4
<1> QED  BY <1>5, <1>10, <1>11 DEF Requests

\* Every queue stays covered when the slot written covers what it covered.
LEMMA QueuesKept ==
  ASSUME TypeInv, Queues, NEW s \in Slots, NEW r, Put(s, r), Covers(s, r), UNCHANGED fw
  PROVE  Queues'
<1>1. \A u \in Slots : slots'[u] = IF u = s THEN r ELSE slots[u]
  BY DEF Put, TypeInv, TypeOK
<1> SUFFICES ASSUME NEW e \in fw
             PROVE  \E u \in Slots : slots'[u].armed /\ slots'[u].ep = e
  BY DEF Queues
<1>2. CASE ArmUnseen(task[Poll], e)
  BY <1>1, <1>2 DEF Covers
<1>3. CASE \E u \in Slots : slots[u].armed /\ slots[u].ep = e
  <2>1. PICK u \in Slots : slots[u].armed /\ slots[u].ep = e
    BY <1>3
  <2>2. CASE u = s
    BY <1>1, <2>1, <2>2 DEF Covers
  <2>3. CASE u # s
    BY <1>1, <2>1, <2>3
  <2> QED  BY <2>2, <2>3
<1> QED  BY <1>2, <1>3 DEF Queues

\* The task that holds zz_Lock is alone.
LEMMA Alone ==
  ASSUME Locks, NEW t \in Tasks, Holds(t)
  PROVE  \A u \in Tasks : u # t => task[u].pc = "idle"
BY DEF Locks, Holds, Tasks, Poll, Flush, None

\* A task that leaves its slot gives the locks back, or is a flush that goes on.
LEMMA LeaveKept ==
  ASSUME TypeInv, Locks, NEW t \in Tasks, Holds(t), Leave(t), UNCHANGED rt
  PROVE  Locks' /\ Commands'
<1>1. PICK k : k = IF t = Poll THEN Idle ELSE [Idle EXCEPT !.pc = "next"]
  OBVIOUS
<1>2. k.pc = IF t = Poll THEN "idle" ELSE "next"
  BY <1>1 DEF Idle
<1>3. \A u \in Tasks : task'[u] = IF u = t THEN k ELSE task[u]
  BY <1>1 DEF Leave, TypeInv
<1>4. \A u \in Tasks : task'[u].pc = IF u = t THEN k.pc ELSE "idle"
  BY <1>3, Alone
<1>5. zz' = (IF t = Poll THEN None ELSE t) /\ mbox' = IF mbox = Poll THEN None ELSE mbox
  BY DEF Leave
<1>6. mbox = IF t = Flush THEN Flush ELSE None
  BY DEF Locks, Holds, Tasks, Poll, Flush, None
<1>7. Locks'
  BY <1>2, <1>4, <1>5, <1>6 DEF Locks, Tasks, Poll, Flush, None
<1>8. Commands'
  BY <1>2, <1>4 DEF Commands
<1> QED  BY <1>7, <1>8

\* A command begins: its task keeps zz_Lock.
LEMMA BeginKept ==
  ASSUME TypeInv, Locks, NEW t \in Tasks, Holds(t), NEW s \in Slots, NEW i, NEW stage,
         NEW cmd, NEW ep, Begin(t, s, i, stage, cmd, ep), UNCHANGED <<rt, root>>,
         Command(t, [pc |-> "begun", slot |-> s, ior |-> i, stage |-> stage,
                     cmd |-> cmd, ep |-> ep, ret |-> None], slots'[s])
  PROVE  Locks' /\ Commands'
<1>1. PICK k : k = [pc |-> "begun", slot |-> s, ior |-> i, stage |-> stage,
                    cmd |-> cmd, ep |-> ep, ret |-> None]
  OBVIOUS
<1>2. k.pc = "begun" /\ k.slot = s
  BY <1>1
<1>3. \A u \in Tasks : task'[u] = IF u = t THEN k ELSE task[u]
  BY <1>1 DEF Begin, TypeInv
<1>4. \A u \in Tasks : task'[u].pc = IF u = t THEN "begun" ELSE "idle"
  BY <1>2, <1>3, Alone
<1>5. zz' = (IF rt THEN None ELSE t) /\ mbox' = IF mbox = Poll THEN None ELSE mbox
  BY DEF Begin
<1>6. rt = FALSE /\ mbox = IF t = Flush THEN Flush ELSE None
  BY DEF Locks, Holds, Tasks, Poll, Flush, None
<1>7. Locks'
  BY <1>4, <1>5, <1>6 DEF Locks, Tasks, Poll, Flush, None
<1>8. Commands'
  <2>1. Command(t, k, slots'[s])
    BY <1>1
  <2>2. Command(t, k, slots[s])'
    BY <2>1 DEF Command
  <2> QED  BY <1>2, <1>3, <1>4, <2>2 DEF Commands
<1> QED  BY <1>7, <1>8

\* Task t writes slot s and leaves it.
LEMMA Ends ==
  ASSUME IInv, TypeInv', NEW t \in Tasks, Holds(t), NEW s \in Slots, NEW r \in SlotType,
         Put(s, r), SlotOK(r), In(r) \subseteq In(slots[s]), Covers(s, r),
         Exchange(NoIor, In(slots[s]) \ In(r)), UNCHANGED <<root, fw, rt>>, Leave(t)
  PROVE  IInv'
<1>1. Requests'
  BY RequestsKept DEF IInv
<1>2. Queues'
  BY QueuesKept DEF IInv
<1>3. Locks' /\ Commands'
  BY LeaveKept DEF IInv
<1> QED  BY <1>1, <1>2, <1>3 DEF IInv

\* Task t writes slot s and begins a command for it.
LEMMA Begins ==
  ASSUME IInv, TypeInv', NEW t \in Tasks, Holds(t), NEW s \in Slots, NEW r \in SlotType,
         Put(s, r), SlotOK(r), In(r) = In(slots[s]), Covers(s, r),
         UNCHANGED <<root, fw, rt, replies>>,
         NEW i, NEW stage, NEW cmd, NEW ep, Begin(t, s, i, stage, cmd, ep),
         Command(t, [pc |-> "begun", slot |-> s, ior |-> i, stage |-> stage,
                     cmd |-> cmd, ep |-> ep, ret |-> None], r)
  PROVE  IInv'
<1>1. Requests'
  <2>1. Exchange(NoIor, {})
    BY NoReplies DEF IInv, TypeInv
  <2>2. In(slots[s]) \ In(r) = {}
    OBVIOUS
  <2> QED  BY <2>1, <2>2, RequestsKept DEF IInv
<1>2. Queues'
  BY QueuesKept DEF IInv
<1>3. slots'[s] = r
  BY DEF Put, IInv, TypeInv, TypeOK
<1>4. Locks' /\ Commands'
  BY <1>3, BeginKept DEF IInv
<1> QED  BY <1>1, <1>2, <1>4 DEF IInv

\* An unarmed slot that covers all it should may become any slot.
LEMMA UnarmedCovers ==
  ASSUME NEW s, NEW r, NEW n, Covers(s, r), ~r.armed
  PROVE  Covers(s, n)
BY DEF Covers

\* A slot that has its STOP: the request in it is replied, or the STOP is to
\* be repeated.
LEMMA RetireKept ==
  ASSUME IInv, TypeInv', NEW t \in Tasks, Holds(t), NEW s \in Slots, NEW r \in SlotType,
         NEW i, NEW stage, NEW ok \in BOOLEAN, Retire(t, s, i, stage, r, ok),
         UNCHANGED <<root, fw, rt>>, SlotOK(r), In(r) = In(slots[s]), Covers(s, r),
         ok => ~r.armed, r.used,
         \/ stage \in ReqStages /\ r.ior = i /\ i # NoIor
         \/ stage = "flush" /\ i = IF r.ior # NoIor THEN r.ior ELSE r.reply
  PROVE  IInv'
<1>1. In(r) = {i} \ {NoIor}
  BY InFacts
<1>2. Leave(t)
  BY DEF Retire
<1>3. ~(stage \notin {"reuse failed", "flush"} /\ ~Same(r, i))
  BY DEF Same
<1>4. CASE ok
  <2>1. Put(s, clear_int_slot) /\ Exchange(NoIor, {i} \ {NoIor})
    BY <1>3, <1>4 DEF Retire, Answer
  <2>2. In(clear_int_slot) = {} /\ SlotOK(clear_int_slot) /\ clear_int_slot \in SlotType
    BY InFacts, ClearType
  <2>3. Covers(s, clear_int_slot)
    BY <1>4, UnarmedCovers
  <2>4. Exchange(NoIor, In(slots[s]) \ In(clear_int_slot))
    <3>1. In(slots[s]) \ In(clear_int_slot) = {i} \ {NoIor}
      BY <1>1, <2>2
    <3> QED  BY <2>1, <3>1
  <2> QED  BY <1>2, <2>1, <2>2, <2>3, <2>4, Ends
<1>5. CASE ~ok
  <2>1. PICK b \in BOOLEAN : b = IF stage \in {"abort", "flush"} THEN FALSE ELSE r.abort
    BY DEF SlotType
  <2>2. PICK n : n = [r EXCEPT !.stop = TRUE, !.abort = b]
    OBVIOUS
  <2>3. n \in SlotType /\ n.used = r.used /\ n.ior = r.ior /\ n.reply = r.reply
        /\ n.armed = r.armed /\ n.ep = r.ep
    BY <2>2 DEF SlotType
  <2>4. Put(s, n) /\ UNCHANGED replies
    BY <1>3, <1>5, <2>1, <2>2 DEF Retire, SlotType
  <2>5. SlotOK(n) /\ In(n) = In(r) /\ Covers(s, n)
    BY <2>3 DEF SlotOK, In, Covers
  <2>6. Exchange(NoIor, In(slots[s]) \ In(n))
    <3>1. In(slots[s]) \ In(n) = {}
      BY <2>5
    <3> QED  BY <2>4, <3>1, NoReplies DEF IInv, TypeInv
  <2> QED  BY <1>2, <2>3, <2>4, <2>5, <2>6, Ends
<1> QED  BY <1>4, <1>5

\* A detached slot without a queue is freed, and the request aborted replied.
LEMMA DetachedKept ==
  ASSUME IInv, TypeInv', NEW t \in Tasks, Holds(t), NEW s \in Slots, NEW r \in SlotType,
         Detached(t, s, r), UNCHANGED <<root, fw, rt>>, SlotOK(r), In(r) = In(slots[s]),
         Covers(s, r), r.ior = NoIor
  PROVE  IInv'
<1>1. In(r) = {r.reply} \ {NoIor} /\ Leave(t)
  BY InFacts DEF Detached
<1>2. CASE r.armed
  <2>1. Put(s, r) /\ UNCHANGED replies
    BY <1>2 DEF Detached
  <2>2. Exchange(NoIor, In(slots[s]) \ In(r))
    <3>1. In(slots[s]) \ In(r) = {}
      OBVIOUS
    <3> QED  BY <2>1, <3>1, NoReplies DEF IInv, TypeInv
  <2> QED  BY <1>1, <2>1, <2>2, Ends
<1>3. CASE ~r.armed
  <2>1. Put(s, clear_int_slot) /\ Exchange(NoIor, {r.reply} \ {NoIor})
    BY <1>3 DEF Detached, Answer
  <2>2. In(clear_int_slot) = {} /\ SlotOK(clear_int_slot) /\ clear_int_slot \in SlotType
    BY InFacts, ClearType
  <2>3. Covers(s, clear_int_slot)
    BY <1>3, UnarmedCovers
  <2>4. Exchange(NoIor, In(slots[s]) \ In(clear_int_slot))
    <3>1. In(slots[s]) \ In(clear_int_slot) = {r.reply} \ {NoIor}
      BY <1>1, <2>2
    <3> QED  BY <2>1, <3>1
  <2> QED  BY <1>1, <2>1, <2>2, <2>3, <2>4, Ends
<1> QED  BY <1>2, <1>3

\* PERIODIC_ARM is sent for the request of a slot, which knows its endpoint.
LEMMA ArmKept ==
  ASSUME IInv, TypeInv', Holds(Poll), NEW s \in Slots, NEW r \in SlotType,
         Arm(Poll, s, r), UNCHANGED <<root, fw, rt, replies>>, SlotOK(r),
         In(r) = In(slots[s]), Covers(s, r), r.ior # NoIor, r.used, r.ep = EpOf[r.ior],
         r.armed => r.reusing
  PROVE  IInv'
<1>1. PICK n : n = [r EXCEPT !.arming = TRUE]
  OBVIOUS
<1>2. n \in SlotType /\ n.used = r.used /\ n.ior = r.ior /\ n.reply = r.reply
      /\ n.armed = r.armed /\ n.ep = r.ep /\ n.reusing = r.reusing
  BY <1>1 DEF SlotType
<1>3. SlotOK(n) /\ In(n) = In(r) /\ Covers(s, n)
  BY <1>2 DEF SlotOK, In, Covers
<1>4. Put(s, n) /\ Begin(Poll, s, r.ior, "arm", "arm", EpOf[r.ior])
  BY <1>1 DEF Arm
<1>5. Command(Poll, [pc |-> "begun", slot |-> s, ior |-> r.ior, stage |-> "arm",
                     cmd |-> "arm", ep |-> EpOf[r.ior], ret |-> None], n)
  BY <1>2 DEF Command, ReqStages, Poll, Flush, None
<1> QED  BY <1>2, <1>3, <1>4, <1>5, Begins DEF Tasks

\* A slot to be armed again is armed, or its STOP is to be repeated.
LEMMA RearmKept ==
  ASSUME IInv, TypeInv', Holds(Poll), NEW s \in Slots, NEW r \in SlotType, NEW i,
         NEW ok \in BOOLEAN, Rearm(Poll, s, i, r, ok), UNCHANGED <<root, fw, rt>>,
         SlotOK(r), In(r) = In(slots[s]), Covers(s, r), r.used, r.ior = i, i # NoIor,
         r.ep = EpOf[i], ok => ~r.armed
  PROVE  IInv'
<1>1. PICK d : d = [r EXCEPT !.rearm = FALSE]
  OBVIOUS
<1>2. d \in SlotType /\ d.used = r.used /\ d.ior = r.ior /\ d.reply = r.reply
      /\ d.armed = r.armed /\ d.ep = r.ep
  BY <1>1 DEF SlotType
<1>3. SlotOK(d) /\ In(d) = In(r) /\ Covers(s, d)
  BY <1>2 DEF SlotOK, In, Covers
<1>4. UNCHANGED replies
  BY DEF Rearm
<1>5. CASE ok
  <2>1. Arm(Poll, s, d)
    BY <1>1, <1>5 DEF Rearm, Same
  <2> QED  BY <1>2, <1>3, <1>4, <1>5, <2>1, ArmKept
<1>6. CASE ~ok
  <2>1. PICK n : n = [d EXCEPT !.stop = TRUE]
    OBVIOUS
  <2>2. Put(s, n) /\ Leave(Poll)
    BY <1>1, <1>6, <2>1 DEF Rearm, Same
  <2>3. n \in SlotType /\ n.used = d.used /\ n.ior = d.ior /\ n.reply = d.reply
        /\ n.armed = d.armed /\ n.ep = d.ep
    BY <1>2, <2>1 DEF SlotType
  <2>4. SlotOK(n) /\ In(n) = In(d) /\ Covers(s, n)
    BY <1>3, <2>3 DEF SlotOK, In, Covers
  <2>5. Exchange(NoIor, In(slots[s]) \ In(n))
    <3>1. In(slots[s]) \ In(n) = {}
      BY <1>3, <2>4
    <3> QED  BY <1>4, <3>1, NoReplies DEF IInv, TypeInv
  <2> QED  BY <1>3, <2>2, <2>3, <2>4, <2>5, Ends DEF Tasks
<1> QED  BY <1>5, <1>6

\* What slot r, which a command of stage is begun for, must be.
Fits(t, i, stage, r) ==
  \/ t = Poll /\ stage \in ReqStages /\ r.ior = i /\ i # NoIor
     /\ (stage = "rearm" => r.ep = EpOf[i])
  \/ t = Poll /\ stage = "detached" /\ r.ior = NoIor /\ i = NoIor
  \/ t = Flush /\ stage = "flush" /\ i = IF r.ior # NoIor THEN r.ior ELSE r.reply

\* A slot is stopped first if it is armed.
LEMMA StopFirstKept ==
  ASSUME IInv, TypeInv', NEW t \in Tasks, Holds(t), NEW s \in Slots, NEW r \in SlotType,
         NEW i, NEW stage, StopFirst(t, s, i, stage, r), UNCHANGED <<root, fw, rt>>,
         SlotOK(r), In(r) = In(slots[s]), Covers(s, r), r.used, Fits(t, i, stage, r)
  PROVE  IInv'
<1>1. CASE r.armed
  <2>1. Begin(t, s, i, stage, "stop", StopEp(r)) /\ Put(s, r) /\ UNCHANGED replies
    BY <1>1 DEF StopFirst
  <2>2. StopEp(r) = r.ep
    BY <1>1 DEF StopEp, SlotOK
  <2>3. Command(t, [pc |-> "begun", slot |-> s, ior |-> i, stage |-> stage,
                    cmd |-> "stop", ep |-> StopEp(r), ret |-> None], r)
    BY <1>1, <2>2 DEF Command, Fits, ReqStages, Poll, Flush, None
  <2> QED  BY <2>1, <2>3, Begins
<1>2. CASE ~r.armed
  <2>1. CASE t = Poll /\ stage = "rearm" /\ r.ior = i /\ i # NoIor /\ r.ep = EpOf[i]
    <3>1. Rearm(Poll, s, i, r, TRUE)
      BY <1>2, <2>1 DEF StopFirst
    <3> QED  BY <1>2, <2>1, <3>1, RearmKept
  <2>2. CASE stage = "detached" /\ r.ior = NoIor
    <3>1. Detached(t, s, r)
      BY <1>2, <2>2 DEF StopFirst
    <3> QED  BY <2>2, <3>1, DetachedKept
  <2>3. CASE \/ stage \in ReqStages \ {"rearm"} /\ r.ior = i /\ i # NoIor
             \/ stage = "flush" /\ i = IF r.ior # NoIor THEN r.ior ELSE r.reply
    <3>1. Retire(t, s, i, stage, r, TRUE)
      BY <1>2, <2>3 DEF StopFirst, ReqStages
    <3> QED  BY <1>2, <2>3, <3>1, RetireKept
  <2> QED  BY <2>1, <2>2, <2>3 DEF Fits
<1> QED  BY <1>1, <1>2

-----------------------------------------------------------------------------
(* The actions.                                                            *)

\* A task that has its answer holds zz_Lock and knows its command.
LEMMA GotFacts ==
  ASSUME IInv, NEW t \in Tasks, NEW stages, Got(t, stages)
  PROVE  /\ Holds(t) /\ task[t].slot \in Slots /\ slots[task[t].slot] \in SlotType
         /\ task[t].stage \in stages /\ SlotOK(slots[task[t].slot])
         /\ Command(t, task[t], slots[task[t].slot]) /\ Answered(task[t])
<1>1. task[t].pc = "sent" /\ task[t].stage \in stages
  BY DEF Got
<1>2. zz = t
  BY <1>1 DEF IInv, Locks
<1> QED  BY <1>1, <1>2, TaskTyped DEF IInv, Holds, Commands, Requests

\* While a task other than an arming poll task holds zz_Lock, no ARM is unseen.
LEMMA AllSeen ==
  ASSUME IInv, NEW t \in Tasks, Holds(t),
         t = Poll => task[Poll].pc # "sent" \/ task[Poll].stage # "arm"
  PROVE  \A e : ~ArmUnseen(task[Poll], e)
<1>1. t # Poll => task[Poll].pc = "idle"
  BY Alone DEF IInv, Tasks
<1> QED  BY <1>1 DEF ArmUnseen

\* A slot that stays as it is covers what it covered.
LEMMA SameCovers ==
  ASSUME NEW s, NEW r, \A e : ~ArmUnseen(task[Poll], e),
         (r.armed /\ r.ep = slots[s].ep) \/ ~slots[s].armed \/ slots[s].ep \notin fw
  PROVE  Covers(s, r)
BY DEF Covers

\* The answer to a STOP keeps the invariant: after a failure the slot stays armed.
LEMMA StopDoneKept ==
  ASSUME IInv, TypeInv', NEW t \in Tasks, StopDone(t)
  PROVE  IInv'
<1>1. PICK k : k = task[t]
  OBVIOUS
<1>2. PICK ok \in BOOLEAN : ok = (k.ret = "ok")
  OBVIOUS
<1>3. PICK s \in Slots : s = k.slot
  BY <1>1, GotFacts DEF StopDone
<1>4. /\ Holds(t) /\ slots[s] \in SlotType /\ SlotOK(slots[s])
      /\ Command(t, k, slots[s]) /\ Answered(k)
      /\ k.stage \in ReqStages \cup {"detached", "flush", "orphan"}
  BY <1>1, <1>3, GotFacts DEF StopDone, ReqStages
<1>5. /\ k.stage \in ReqStages \cup {"detached", "flush"} /\ (t = Flush <=> k.stage = "flush")
      /\ slots[s].armed /\ k.ep = slots[s].ep /\ k.cmd = "stop"
      /\ k.stage \in ReqStages => slots[s].ior = k.ior
      /\ k.stage = "detached" => slots[s].ior = NoIor
      /\ k.stage = "flush" => k.ior = IF slots[s].ior # NoIor THEN slots[s].ior ELSE slots[s].reply
  BY <1>4 DEF Command
<1>6. PICK r : r = Stopped(slots[s], ok)
  OBVIOUS
<1>7. /\ r \in SlotType /\ r.used = slots[s].used /\ r.ior = slots[s].ior
      /\ r.reply = slots[s].reply /\ r.ep = slots[s].ep
      /\ r.armed = IF ok THEN FALSE ELSE slots[s].armed
  BY <1>4, <1>6 DEF Stopped, SlotType
<1>8. SlotOK(r) /\ In(r) = In(slots[s]) /\ r.used
  BY <1>4, <1>5, <1>7 DEF SlotOK, In
<1>9. Covers(s, r)
  <2>1. t = Poll => task[Poll].stage # "arm"
    BY <1>1, <1>5 DEF ReqStages
  <2>2. \A e : ~ArmUnseen(task[Poll], e)
    BY <1>4, <2>1, AllSeen
  <2>3. ok => slots[s].ep \notin fw
    BY <1>2, <1>4, <1>5 DEF Answered
  <2> QED  BY <1>5, <1>7, <2>2, <2>3, SameCovers
<1>10. UNCHANGED <<root, fw, rt>>
  BY DEF StopDone
<1>11. CASE k.stage = "detached"
  <2>1. Detached(t, s, r)
    BY <1>1, <1>2, <1>3, <1>6, <1>11 DEF StopDone
  <2> QED  BY <1>4, <1>5, <1>7, <1>8, <1>9, <1>10, <1>11, <2>1, DetachedKept
<1>12. CASE k.stage = "rearm"
  <2>1. Rearm(t, s, k.ior, r, ok)
    BY <1>1, <1>2, <1>3, <1>6, <1>12 DEF StopDone
  <2>2. t = Poll /\ r.ior = k.ior
    BY <1>5, <1>7, <1>12 DEF Tasks, ReqStages
  <2>3. k.ior # NoIor
    BY <1>1, <1>12, TaskTyped, IorsAssumption DEF IInv, ReqStages, Iors
  <2>4. r.ep = EpOf[k.ior]
    BY <1>4, <1>5, <1>7, <2>2, <2>3 DEF SlotOK
  <2> QED  BY <1>4, <1>7, <1>8, <1>9, <1>10, <2>1, <2>2, <2>3, <2>4, RearmKept
<1>13. CASE k.stage \in (ReqStages \ {"rearm"}) \cup {"flush"}
  <2>1. Retire(t, s, k.ior, k.stage, r, ok)
    BY <1>1, <1>2, <1>3, <1>6, <1>13 DEF StopDone, ReqStages
  <2>2. k.stage \in ReqStages => k.ior # NoIor
    BY <1>1, TaskTyped, IorsAssumption DEF IInv, Iors
  <2>3. \/ k.stage \in ReqStages /\ r.ior = k.ior /\ k.ior # NoIor
        \/ k.stage = "flush" /\ k.ior = IF r.ior # NoIor THEN r.ior ELSE r.reply
    BY <1>5, <1>7, <1>13, <2>2
  <2> QED  BY <1>4, <1>7, <1>8, <1>9, <1>10, <2>1, <2>3, RetireKept
<1> QED  BY <1>5, <1>11, <1>12, <1>13

\* The firmware takes a command and answers it, or it times out.
LEMMA SendKept ==
  ASSUME IInv, TypeInv', NEW t \in Tasks, Send(t)
  PROVE  IInv'
<1>1. PICK ret, live, lost :
             /\ fw' = live /\ q' = lost /\ task' = [task EXCEPT ![t].pc = "sent", ![t].ret = ret]
             /\ Outcome(task[t].cmd, task[t].ep, ret, live, lost)
  BY DEF Send
<1>2. PICK k : k = task[t]
  OBVIOUS
<1>3. PICK n : n = [k EXCEPT !.pc = "sent", !.ret = ret]
  OBVIOUS
<1>4. k \in TaskType
  BY <1>2 DEF IInv, TypeInv
<1>5. /\ n.pc = "sent" /\ n.slot = k.slot /\ n.ior = k.ior /\ n.stage = k.stage
      /\ n.cmd = k.cmd /\ n.ep = k.ep /\ n.ret = ret
  BY <1>3, <1>4 DEF TaskType
<1>6. \A u \in Tasks : task'[u] = IF u = t THEN n ELSE task[u]
  BY <1>1, <1>2, <1>3 DEF IInv, TypeInv
<1>7. k.pc = "begun" /\ rt = FALSE /\ UNCHANGED <<slots, root, rt, zz, mbox, replies>>
  BY <1>2 DEF Send, IInv, Locks
<1>8. zz = t /\ Holds(t)
  BY <1>2, <1>7 DEF IInv, Locks, Holds
<1>9. \A u \in Tasks : u # t => task[u].pc = "idle"
  BY <1>8, Alone DEF IInv
<1>10. Command(t, k, slots[k.slot])
  BY <1>2, <1>7 DEF IInv, Commands
<1>11. Requests'
  BY <1>7 DEF IInv, Requests, Held
<1>12. Locks'
  BY <1>2, <1>5, <1>6, <1>7 DEF IInv, Locks, Tasks
<1>13. Commands'
  <2>1. Command(t, n, slots[n.slot])'
    BY <1>5, <1>7, <1>10 DEF Command
  <2>2. Answered(n)'
    <3>1. k.cmd = "stop" /\ ret = "ok" => live = fw \ {k.ep}
      BY <1>1, <1>2 DEF Outcome
    <3>2. ret = "offline" /\ k.cmd \in {"arm", "stop", "reap", "port"} => live = {}
      BY <1>1, <1>2 DEF Outcome
    <3>3. k.cmd \in {"arm", "stop", "reap", "port"}
      BY <1>4, <1>10 DEF Command, TaskType, Stages
    <3> QED  BY <1>1, <1>5, <3>1, <3>2, <3>3 DEF Answered
  <2> QED  BY <1>5, <1>6, <1>9, <2>1, <2>2 DEF Commands
<1>14. Queues'
  <2>1. \A e : ~ArmUnseen(task[Poll], e)
    BY <1>2, <1>7, <1>8, AllSeen
  <2>2. ASSUME NEW e \in live, e \notin fw
        PROVE  k.cmd = "arm" /\ k.ep = e /\ (ret = "ok" \/ lost)
    <3>1. k.cmd \in {"arm", "stop", "reap", "port"}
      BY <1>4, <1>10 DEF Command, TaskType, Stages
    <3> QED  BY <1>1, <1>2, <2>2, <3>1 DEF Outcome
  <2>3. k.cmd = "arm" => t = Poll /\ k.stage = "arm"
    BY <1>4, <1>10 DEF Command, TaskType, Stages, ReqStages, Tasks
  <2> SUFFICES ASSUME NEW e \in live
               PROVE  \/ \E s \in Slots : slots[s].armed /\ slots[s].ep = e
                      \/ ArmUnseen(task[Poll], e)'
    BY <1>1, <1>7 DEF Queues
  <2>4. CASE e \in fw
    BY <2>1, <2>4 DEF IInv, Queues
  <2>5. CASE e \notin fw
    BY <1>1, <1>5, <1>6, <2>2, <2>3, <2>5 DEF ArmUnseen
  <2> QED  BY <2>4, <2>5
<1> QED  BY <1>11, <1>12, <1>13, <1>14 DEF IInv

\* The poll task that looks at a slot is idle and alone.
LEMMA IdleFacts ==
  ASSUME IInv, task[Poll].pc = "idle", Locked(Poll)
  PROVE  Holds(Poll) /\ \A e : ~ArmUnseen(task[Poll], e)
<1>1. Holds(Poll)
  BY DEF Locked, Holds, None
<1> QED  BY <1>1 DEF ArmUnseen

\* A slot is written while no command is under way.
LEMMA Idles ==
  ASSUME IInv, TypeInv', NEW s \in Slots, NEW r \in SlotType, NEW new,
         Put(s, r), SlotOK(r), Exchange(new, In(slots[s]) \ In(r)),
         In(r) \subseteq In(slots[s]) \cup {new},
         new # NoIor => new \in In(r) /\ replies[new] = 1,
         Covers(s, r), UNCHANGED <<root, fw, rt, task, zz, mbox>>,
         \A t \in Tasks : task[t].pc \in {"idle", "next"}
  PROVE  IInv'
<1>1. Requests'
  BY RequestsKept DEF IInv
<1>2. Queues'
  BY QueuesKept DEF IInv
<1>3. Locks'
  BY DEF IInv, Locks
<1>4. Commands'
  BY DEF Commands
<1> QED  BY <1>1, <1>2, <1>3, <1>4 DEF IInv

\* Nothing that the invariant is about changes.
LEMMA Stutters ==
  ASSUME IInv, TypeInv', UNCHANGED <<slots, root, fw, q, rt, zz, mbox, task, replies>>
  PROVE  IInv'
BY DEF IInv, Requests, Held, Queues, ArmUnseen, Locks, Commands, Command, Answered

\* A look of the poll task at a slot keeps the invariant.
LEMMA PollKept ==
  ASSUME IInv, TypeInv', NEW s \in Slots, NEW reap \in BOOLEAN, poll_int_pending(s, reap)
  PROVE  IInv'
<1>1. PICK r \in SlotType : r = slots[s]
  BY DEF IInv, TypeInv, TypeOK
<1>2. PICK i : i = r.ior /\ i \in Ints \cup {NoIor}
  BY DEF SlotType
<1>3. PICK now : now = IF i # NoIor /\ ~r.armed THEN [r EXCEPT !.ep = EpOf[i]] ELSE r
  OBVIOUS
<1>4. Holds(Poll) /\ Poll \in Tasks /\ \A e : ~ArmUnseen(task[Poll], e)
  BY IdleFacts DEF poll_int_pending, Tasks
<1>5. r.used /\ SlotOK(r) /\ UNCHANGED <<root, fw, q, rt>>
  BY <1>1 DEF poll_int_pending, IInv, Requests
<1>6. /\ now \in SlotType /\ now.used = r.used /\ now.ior = i /\ now.reply = r.reply
      /\ now.armed = r.armed /\ now.reusing = r.reusing
      /\ now.ep = IF i # NoIor /\ ~r.armed THEN EpOf[i] ELSE r.ep
  BY <1>2, <1>3, EpOfType DEF SlotType
<1>7. SlotOK(now) /\ In(now) = In(r) /\ (i # NoIor => now.ep = EpOf[i])
  BY <1>2, <1>5, <1>6 DEF SlotOK, In
<1>8. PICK n : n = [now EXCEPT !.abort = FALSE]
  OBVIOUS
<1>9. /\ n \in SlotType /\ n.used = now.used /\ n.ior = now.ior /\ n.reply = now.reply
      /\ n.armed = now.armed /\ n.ep = now.ep
  BY <1>6, <1>8 DEF SlotType
<1>10. SlotOK(n) /\ In(n) = In(r)
  BY <1>7, <1>9 DEF SlotOK, In
<1>11. Covers(s, r) /\ Covers(s, now) /\ Covers(s, n)
  BY <1>1, <1>4, <1>6, <1>9, SameCovers
<1>12. \/ InGrace(r) /\ Put(s, [r EXCEPT !.ticks = @ - 1]) /\ UNCHANGED <<task, zz, mbox, replies>>
       \/ i = NoIor /\ StopFirst(Poll, s, i, "detached", r)
       \/ i # NoIor /\ StopFirst(Poll, s, i, "stop pending", n)
       \/ i # NoIor /\ StopFirst(Poll, s, i, "abort", now)
       \/ i # NoIor /\ StopFirst(Poll, s, i, "rearm", now)
       \/ /\ i # NoIor /\ (~r.armed \/ r.reusing)
          /\ Arm(Poll, s, now) /\ UNCHANGED replies
       \/ i # NoIor /\ Begin(Poll, s, i, "reap", "reap", EpOf[i]) /\ UNCHANGED <<slots, replies>>
       \/ UNCHANGED <<slots, task, zz, mbox, replies>>
  BY <1>1, <1>2, <1>3, <1>8 DEF poll_int_pending
<1>13. CASE /\ InGrace(r) /\ Put(s, [r EXCEPT !.ticks = @ - 1])
            /\ UNCHANGED <<task, zz, mbox, replies>>
  <2>1. PICK g : g = [r EXCEPT !.ticks = @ - 1]
    OBVIOUS
  <2>2. /\ g \in SlotType /\ g.used = r.used /\ g.ior = r.ior /\ g.reply = r.reply
        /\ g.armed = r.armed /\ g.ep = r.ep
    <3>1. r.ticks - 1 \in 0..Grace
      BY <1>13, SizesAssumption DEF SlotType, InGrace
    <3> QED  BY <2>1, <3>1 DEF SlotType
  <2>3. SlotOK(g) /\ In(g) = In(r)
    BY <1>5, <2>2 DEF SlotOK, In
  <2>4. Covers(s, g)
    BY <1>1, <1>4, <2>2, SameCovers
  <2>5. Exchange(NoIor, In(slots[s]) \ In(g))
    <3>1. In(slots[s]) \ In(g) = {}
      BY <1>1, <2>3
    <3> QED  BY <1>13, <3>1, NoReplies DEF IInv, TypeInv
  <2>6. \A t \in Tasks : task[t].pc \in {"idle", "next"}
    BY <1>4, Alone DEF IInv, poll_int_pending, Tasks
  <2>7. In(g) \subseteq In(slots[s]) \cup {NoIor}
    BY <1>1, <2>3
  <2> QED  BY <1>5, <1>13, <2>1, <2>2, <2>3, <2>4, <2>5, <2>6, <2>7, Idles
<1>14. CASE i = NoIor /\ StopFirst(Poll, s, i, "detached", r)
  <2>1. Fits(Poll, i, "detached", r)
    BY <1>2, <1>14 DEF Fits
  <2> QED  BY <1>1, <1>4, <1>5, <1>11, <1>14, <2>1, StopFirstKept
<1>15. CASE i # NoIor /\ StopFirst(Poll, s, i, "stop pending", n)
  <2>1. Fits(Poll, i, "stop pending", n)
    BY <1>6, <1>9, <1>15 DEF Fits, ReqStages
  <2> QED  BY <1>1, <1>4, <1>5, <1>6, <1>9, <1>10, <1>11, <1>15, <2>1, StopFirstKept
<1>16. ASSUME i # NoIor, NEW stage \in {"abort", "rearm"}, StopFirst(Poll, s, i, stage, now)
       PROVE  IInv'
  <2>1. Fits(Poll, i, stage, now)
    BY <1>6, <1>7, <1>16 DEF Fits, ReqStages
  <2> QED  BY <1>1, <1>4, <1>5, <1>6, <1>7, <1>11, <1>16, <2>1, StopFirstKept
<1>17. CASE /\ i # NoIor /\ (~r.armed \/ r.reusing)
            /\ Arm(Poll, s, now) /\ UNCHANGED replies
  BY <1>1, <1>4, <1>5, <1>6, <1>7, <1>11, <1>17, ArmKept
<1>18. CASE i # NoIor /\ Begin(Poll, s, i, "reap", "reap", EpOf[i]) /\ UNCHANGED <<slots, replies>>
  <2>1. Put(s, r)
    BY <1>1, <1>18 DEF Put, IInv, TypeInv, TypeOK
  <2>2. Command(Poll, [pc |-> "begun", slot |-> s, ior |-> i, stage |-> "reap",
                       cmd |-> "reap", ep |-> EpOf[i], ret |-> None], r)
    BY <1>2, <1>5 DEF Command, ReqStages, Poll, Flush, None
  <2> QED  BY <1>1, <1>4, <1>5, <1>11, <1>18, <2>1, <2>2, Begins
<1>19. CASE UNCHANGED <<slots, task, zz, mbox, replies>>
  BY <1>5, <1>19, Stutters
<1> QED  BY <1>12, <1>13, <1>14, <1>15, <1>16, <1>17, <1>18, <1>19

\* The answer to an ARM keeps the invariant: a queue that may exist has a slot.
LEMMA ArmDoneKept ==
  ASSUME IInv, TypeInv', NEW reap \in BOOLEAN, ArmDone(reap)
  PROVE  IInv'
<1>1. PICK k : k = task[Poll]
  OBVIOUS
<1>2. PICK s \in Slots : s = k.slot
  BY <1>1, TaskTyped DEF Tasks, IInv
<1>3. PICK i \in Ints : i = k.ior
  BY <1>1, TaskTyped DEF Tasks, IInv, ArmDone, Got
<1>4. Holds(Poll) /\ Poll \in Tasks /\ k.stage = "arm" /\ slots[s] \in SlotType
      /\ SlotOK(slots[s]) /\ Command(Poll, k, slots[s])
  <2>1. Poll \in Tasks /\ Got(Poll, {"arm"})
    BY DEF ArmDone, Tasks
  <2>2. task[Poll].stage \in {"arm"} /\ Holds(Poll) /\ slots[task[Poll].slot] \in SlotType
        /\ SlotOK(slots[task[Poll].slot]) /\ Command(Poll, task[Poll], slots[task[Poll].slot])
    BY <2>1, GotFacts
  <2> QED  BY <1>1, <1>2, <2>1, <2>2
<1>5. /\ slots[s].used /\ slots[s].ior = i /\ slots[s].ep = EpOf[i] /\ k.ep = EpOf[i]
      /\ slots[s].armed => slots[s].reusing
  BY <1>3, <1>4 DEF Command
<1>6. i # NoIor /\ i \in Iors /\ In(slots[s]) = {i} /\ slots[s].reply = NoIor
  BY <1>4, <1>5, InFacts, IorsAssumption DEF Iors, SlotOK
<1>7. PICK r : r = [slots[s] EXCEPT !.arming = FALSE]
  OBVIOUS
<1>8. /\ r \in SlotType /\ r.used /\ r.ior = i /\ r.reply = NoIor /\ r.ep = EpOf[i]
      /\ r.armed = slots[s].armed /\ r.reusing = slots[s].reusing
  BY <1>4, <1>5, <1>6, <1>7 DEF SlotType
<1>9. \A e \in fw : ((slots[s].armed /\ slots[s].ep = e) \/ ArmUnseen(task[Poll], e)) => e = EpOf[i]
  BY <1>1, <1>5 DEF ArmUnseen
<1>10. ASSUME NEW n \in SlotType, n.used, n.ior = i, n.reply = NoIor, n.ep = EpOf[i], n.armed
       PROVE  SlotOK(n) /\ In(n) = In(slots[s]) /\ Covers(s, n)
  BY <1>6, <1>9, <1>10 DEF SlotOK, In, Covers
<1>11. UNCHANGED <<root, fw, q, rt>>
  BY DEF ArmDone
<1>12. Same(slots[s], i) /\ Same(r, i) /\ r.reusing \in BOOLEAN
  BY <1>5, <1>8 DEF Same, SlotType
<1>13. CASE r.reusing /\ k.ret # "ok"
  <2>1. PICK b : b = [r EXCEPT !.armed = TRUE, !.reusing = FALSE]
    OBVIOUS
  <2>2. StopFirst(Poll, s, i, "reuse failed", b)
    BY <1>1, <1>2, <1>3, <1>7, <1>12, <1>13, <2>1 DEF ArmDone
  <2>3. b \in SlotType /\ b.used /\ b.ior = i /\ b.reply = NoIor /\ b.ep = EpOf[i] /\ b.armed
    BY <1>8, <2>1 DEF SlotType
  <2>4. Fits(Poll, i, "reuse failed", b)
    BY <1>6, <2>3 DEF Fits, ReqStages
  <2>5. SlotOK(b) /\ In(b) = In(slots[s]) /\ Covers(s, b)
    BY <1>10, <2>3
  <2> QED  BY <1>4, <1>11, <2>2, <2>3, <2>4, <2>5, StopFirstKept
<1>14. CASE ~r.reusing /\ k.ret # "ok" /\ q
  <2>1. PICK b : b = [r EXCEPT !.armed = TRUE, !.stop = TRUE]
    OBVIOUS
  <2>2. Put(s, b) /\ UNCHANGED replies /\ Leave(Poll)
    BY <1>1, <1>2, <1>3, <1>7, <1>12, <1>14, <2>1 DEF ArmDone
  <2>3. b \in SlotType /\ b.used /\ b.ior = i /\ b.reply = NoIor /\ b.ep = EpOf[i] /\ b.armed
    BY <1>8, <2>1 DEF SlotType
  <2>4. SlotOK(b) /\ In(b) = In(slots[s]) /\ Covers(s, b)
    BY <1>10, <2>3
  <2>5. Exchange(NoIor, In(slots[s]) \ In(b))
    <3>1. In(slots[s]) \ In(b) = {}
      BY <2>4
    <3> QED  BY <2>2, <3>1, NoReplies DEF IInv, TypeInv
  <2> QED  BY <1>4, <1>11, <2>2, <2>3, <2>4, <2>5, Ends
<1>15. CASE ~r.reusing /\ k.ret # "ok" /\ ~q
  <2>1. Put(s, clear_int_slot) /\ Exchange(NoIor, {i}) /\ Leave(Poll)
    BY <1>1, <1>2, <1>3, <1>7, <1>12, <1>15 DEF ArmDone, Answer
  <2>2. In(clear_int_slot) = {} /\ SlotOK(clear_int_slot) /\ clear_int_slot \in SlotType
    BY <1>4, InFacts, ClearType
  <2>3. Covers(s, clear_int_slot)
    BY <1>1, <1>5, <1>8, <1>15 DEF Covers, ArmUnseen
  <2>4. Exchange(NoIor, In(slots[s]) \ In(clear_int_slot))
    <3>1. In(slots[s]) \ In(clear_int_slot) = {i}
      BY <1>6, <2>2
    <3> QED  BY <2>1, <3>1
  <2> QED  BY <1>4, <1>11, <2>1, <2>2, <2>3, <2>4, Ends
<1>16. CASE k.ret = "ok"
  <2>1. PICK b : b = [r EXCEPT !.armed = TRUE, !.reusing = FALSE, !.ep = EpOf[i]]
    OBVIOUS
  <2>2. Put(s, b) /\ UNCHANGED replies
        /\ (Begin(Poll, s, i, "reap", "reap", EpOf[i]) \/ Leave(Poll))
    BY <1>1, <1>2, <1>3, <1>7, <1>12, <1>16, <2>1 DEF ArmDone
  <2>3. b \in SlotType /\ b.used /\ b.ior = i /\ b.reply = NoIor /\ b.ep = EpOf[i] /\ b.armed
    BY <1>8, <2>1, EpOfType DEF SlotType
  <2>4. SlotOK(b) /\ In(b) = In(slots[s]) /\ Covers(s, b)
    BY <1>10, <2>3
  <2>5. CASE Leave(Poll)
    <3>1. In(slots[s]) \ In(b) = {}
      BY <2>4
    <3>2. Exchange(NoIor, In(slots[s]) \ In(b))
      BY <2>2, <3>1, NoReplies DEF IInv, TypeInv
    <3> QED  BY <1>4, <1>11, <2>2, <2>3, <2>4, <2>5, <3>2, Ends
  <2>6. CASE Begin(Poll, s, i, "reap", "reap", EpOf[i])
    <3>1. Command(Poll, [pc |-> "begun", slot |-> s, ior |-> i, stage |-> "reap",
                         cmd |-> "reap", ep |-> EpOf[i], ret |-> None], b)
      BY <2>3 DEF Command, ReqStages, Poll, Flush, None
    <3> QED  BY <1>4, <1>11, <2>2, <2>3, <2>4, <2>6, <3>1, Begins
  <2> QED  BY <2>2, <2>5, <2>6
<1> QED  BY <1>12, <1>13, <1>14, <1>15, <1>16

\* The answer to a REAP keeps the invariant.
LEMMA ReapDoneKept ==
  ASSUME IInv, TypeInv', ReapDone
  PROVE  IInv'
<1>1. PICK k : k = task[Poll]
  OBVIOUS
<1>2. PICK s \in Slots : s = k.slot
  BY <1>1, TaskTyped DEF Tasks, IInv
<1>3. PICK i \in Ints : i = k.ior
  BY <1>1, TaskTyped DEF Tasks, IInv, ReapDone, Got
<1>4. PICK r : r = slots[s]
  OBVIOUS
<1>5. Holds(Poll) /\ Poll \in Tasks /\ k.stage = "reap" /\ r \in SlotType
      /\ SlotOK(r) /\ r.used /\ r.ior = i
  <2>1. Poll \in Tasks /\ Got(Poll, {"reap"})
    BY DEF ReapDone, Tasks
  <2>2. task[Poll].stage \in {"reap"} /\ Holds(Poll) /\ slots[task[Poll].slot] \in SlotType
        /\ SlotOK(slots[task[Poll].slot]) /\ Command(Poll, task[Poll], slots[task[Poll].slot])
    BY <2>1, GotFacts
  <2> QED  BY <1>1, <1>2, <1>3, <1>4, <2>1, <2>2 DEF Command
<1>6. i # NoIor /\ In(r) = {i} /\ r.reply = NoIor /\ Same(r, i)
  BY <1>5, InFacts, IorsAssumption DEF Iors, SlotOK, Same
<1>7. UNCHANGED <<root, fw, q, rt>>
  BY DEF ReapDone
<1>8. \A e : ~ArmUnseen(task[Poll], e)
  BY <1>1, <1>5 DEF ArmUnseen
<1>9. Covers(s, r)
  BY <1>4, <1>8, SameCovers
<1>10. PICK d : d = [r EXCEPT !.ior = NoIor, !.rearm = FALSE, !.stop = FALSE,
                              !.reusing = FALSE, !.ticks = Grace]
  OBVIOUS
<1>11. \/ Leave(Poll) /\ UNCHANGED <<slots, replies>>
       \/ \E stage \in {"abort", "write done", "reap failed"} : StopFirst(Poll, s, i, stage, r)
       \/ Put(s, d) /\ Exchange(NoIor, {i}) /\ Leave(Poll)
  <2>1. k.ret \in {"ok", "err", "none"} /\ r.abort \in BOOLEAN
    BY <1>1, <1>5, TaskTyped DEF Tasks, IInv, ReapDone, Got, SlotType
  <2> QED  BY <1>1, <1>2, <1>3, <1>4, <1>6, <1>10, <2>1 DEF ReapDone, Answer
<1>12. CASE Leave(Poll) /\ UNCHANGED <<slots, replies>>
  <2>1. Put(s, r)
    BY <1>4, <1>12 DEF Put, IInv, TypeInv, TypeOK
  <2>2. Exchange(NoIor, In(slots[s]) \ In(r))
    <3>1. In(slots[s]) \ In(r) = {}
      BY <1>4
    <3> QED  BY <1>12, <3>1, NoReplies DEF IInv, TypeInv
  <2> QED  BY <1>4, <1>5, <1>7, <1>9, <1>12, <2>1, <2>2, Ends
<1>13. ASSUME NEW stage \in {"abort", "write done", "reap failed"},
              StopFirst(Poll, s, i, stage, r)
       PROVE  IInv'
  <2>1. Fits(Poll, i, stage, r)
    BY <1>5, <1>6 DEF Fits, ReqStages
  <2> QED  BY <1>4, <1>5, <1>7, <1>9, <1>13, <2>1, StopFirstKept
<1>14. CASE Put(s, d) /\ Exchange(NoIor, {i}) /\ Leave(Poll)
  <2>1. /\ d \in SlotType /\ d.used = r.used /\ d.ior = NoIor /\ d.reply = NoIor
        /\ d.armed = r.armed /\ d.ep = r.ep
    <3>1. Grace \in 0..Grace
      BY SizesAssumption
    <3> QED  BY <1>5, <1>6, <1>10, <3>1 DEF SlotType
  <2>2. SlotOK(d) /\ In(d) = {}
    BY <1>5, <2>1 DEF SlotOK, In
  <2>3. Covers(s, d)
    BY <1>4, <1>8, <2>1, SameCovers
  <2>4. Exchange(NoIor, In(slots[s]) \ In(d))
    <3>1. In(slots[s]) \ In(d) = {i}
      BY <1>4, <1>6, <2>2
    <3> QED  BY <1>14, <3>1
  <2> QED  BY <1>5, <1>7, <1>14, <2>1, <2>2, <2>3, <2>4, Ends
<1> QED  BY <1>11, <1>12, <1>13, <1>14

\* A look of a flush at a slot keeps the invariant.
LEMMA FlushSlotKept ==
  ASSUME IInv, TypeInv', FlushSlot
  PROVE  IInv'
<1>1. PICK s \in Slots : s = todo
  BY DEF FlushSlot
<1>2. PICK r \in SlotType : r = slots[s]
  BY DEF IInv, TypeInv, TypeOK
<1>3. PICK i : i = IF r.ior # NoIor THEN r.ior ELSE r.reply
  OBVIOUS
<1>4. Holds(Flush) /\ Flush \in Tasks /\ UNCHANGED <<root, fw, q, rt>> /\ SlotOK(r)
  BY <1>2 DEF FlushSlot, IInv, Locks, Holds, Tasks, Requests
<1>5. \A e : ~ArmUnseen(task[Poll], e)
  BY <1>4, AllSeen DEF Poll, Flush
<1>6. PICK n : n = [r EXCEPT !.ticks = 0]
  OBVIOUS
<1>7. /\ n \in SlotType /\ n.used = r.used /\ n.ior = r.ior /\ n.reply = r.reply
      /\ n.armed = r.armed /\ n.ep = r.ep
  <2>1. 0 \in 0..Grace
    BY SizesAssumption
  <2> QED  BY <1>6, <2>1 DEF SlotType
<1>8. SlotOK(n) /\ In(n) = In(slots[s]) /\ Covers(s, n)
  <2>1. SlotOK(n) /\ In(n) = In(slots[s])
    BY <1>2, <1>4, <1>7 DEF SlotOK, In
  <2>2. Covers(s, n)
    BY <1>2, <1>5, <1>7, SameCovers
  <2> QED  BY <2>1, <2>2
<1>9. \/ r.used /\ StopFirst(Flush, s, i, "flush", n)
      \/ UNCHANGED <<slots, task, zz, mbox, replies>>
  BY <1>1, <1>2, <1>3, <1>6 DEF FlushSlot
<1>10. CASE r.used /\ StopFirst(Flush, s, i, "flush", n)
  <2>1. Fits(Flush, i, "flush", n)
    BY <1>3, <1>7 DEF Fits
  <2> QED  BY <1>4, <1>7, <1>8, <1>10, <2>1, StopFirstKept
<1>11. CASE UNCHANGED <<slots, task, zz, mbox, replies>>
  BY <1>4, <1>11, Stutters
<1> QED  BY <1>9, <1>10, <1>11

\* The root hub's request is replied, and new takes its place if there is one.
LEMMA RootKept ==
  ASSUME TypeInv, Requests, UNCHANGED slots, NEW new, root' = new,
         Exchange(new, {root} \ {NoIor}),
         new = NoIor \/ (new \in Roots /\ replies[new] = 1)
  PROVE  Requests'
<1>1. /\ slots \in [Slots -> SlotType] /\ replies \in [Iors -> 0..2]
      /\ root \in Roots \cup {NoIor}
  BY DEF TypeInv, TypeOK
<1>2. \A i \in Iors : replies'[i] = IF i = new THEN 0
                                    ELSE IF i \in {root} \ {NoIor} /\ replies[i] < 2
                                    THEN replies[i] + 1 ELSE replies[i]
  BY DEF Exchange
<1>3. \A u \in Slots : In(slots[u]) \subseteq Ints
  BY <1>1, InFacts
<1>4. \A i \in Iors : replies[i] < 2 /\ (replies[i] = 0 <=> Held(i))
  BY DEF Requests
<1>5. ASSUME NEW i \in Iors
      PROVE  replies'[i] < 2 /\ (replies'[i] = 0 <=> Held(i)')
  <2>1. Held(i)' <=> new = i \/ \E u \in Slots : i \in In(slots[u])
    BY DEF Held
  <2>2. CASE i = new
    BY <1>2, <2>1, <2>2
  <2>3. CASE i # new /\ i = root
    <3>1. replies[i] = 0 /\ i \in Roots
      BY <1>1, <1>4, <2>3, IorsAssumption DEF Held
    <3>2. replies'[i] = 1
      BY <1>2, <2>3, <3>1, IorsAssumption
    <3>3. \A u \in Slots : i \notin In(slots[u])
      BY <1>3, <3>1, IorsAssumption
    <3> QED  BY <2>1, <2>3, <3>2, <3>3
  <2>4. CASE i # new /\ i # root
    <3>1. replies'[i] = replies[i]
      BY <1>2, <2>4
    <3> QED  BY <1>4, <2>1, <2>4, <3>1 DEF Held
  <2> QED  BY <2>2, <2>3, <2>4
<1>6. /\ \A u \in Slots : SlotOK(slots'[u])
      /\ \A u, v \in Slots : u # v => In(slots'[u]) \cap In(slots'[v]) = {}
  BY DEF Requests
<1> QED  BY <1>5, <1>6 DEF Requests

\* The root hub's request changes while no command is under way.
LEMMA RootIdles ==
  ASSUME IInv, TypeInv', NEW new, UNCHANGED <<slots, fw, q, rt, zz, mbox, task>>, root' = new,
         Exchange(new, {root} \ {NoIor}),
         new = NoIor \/ (new \in Roots /\ replies[new] = 1),
         \A t \in Tasks : task[t].pc \in {"idle", "next"}
  PROVE  IInv'
<1>1. Requests'
  BY RootKept DEF IInv
<1>2. Queues' /\ Locks' /\ Commands'
  BY DEF IInv, Queues, ArmUnseen, Locks, Commands
<1> QED  BY <1>1, <1>2 DEF IInv

\* With zz_Lock free, no command is under way.
LEMMA FreeFacts ==
  ASSUME IInv, zz = None
  PROVE  (\A t \in Tasks : task[t].pc = "idle") /\ \A e : ~ArmUnseen(task[Poll], e)
BY DEF IInv, Locks, ArmUnseen, Tasks, Poll, Flush, None

\* A look at the root hub's request keeps the invariant.
LEMMA RootPollKept ==
  ASSUME IInv, TypeInv', poll_roothub_pending
  PROVE  IInv'
<1>1. Holds(Poll) /\ Poll \in Tasks /\ root # NoIor /\ task[Poll].pc = "idle"
  BY IdleFacts DEF poll_roothub_pending, Tasks
<1>2. CASE change
  <2>1. root' = NoIor /\ Exchange(NoIor, {root}) /\ UNCHANGED <<slots, fw, q, rt, zz, mbox, task>>
    BY <1>2 DEF poll_roothub_pending, Answer
  <2>2. {root} = {root} \ {NoIor}
    BY <1>1
  <2>3. \A t \in Tasks : task[t].pc \in {"idle", "next"}
    BY <1>1, Alone DEF IInv
  <2> QED  BY <2>1, <2>2, <2>3, RootIdles
<1>3. CASE ~change
  <2>1. Begin(Poll, 1, root, "port", "port", NoEp) /\ UNCHANGED <<root, replies, slots, fw, q, rt>>
    BY <1>3 DEF poll_roothub_pending
  <2>2. 1 \in Slots
    BY SizesAssumption DEF Slots
  <2>3. Command(Poll, [pc |-> "begun", slot |-> 1, ior |-> root, stage |-> "port",
                       cmd |-> "port", ep |-> NoEp, ret |-> None], slots'[1])
    BY <1>1 DEF Command, ReqStages, Poll, Flush, None
  <2>4. Locks' /\ Commands'
    BY <1>1, <2>1, <2>2, <2>3, BeginKept DEF IInv
  <2>5. Requests'
    BY <2>1 DEF IInv, Requests, Held
  <2>6. Queues'
    BY <1>1, <2>1 DEF IInv, Queues, ArmUnseen
  <2> QED  BY <2>4, <2>5, <2>6 DEF IInv
<1> QED  BY <1>2, <1>3

\* A port check ends: a disconnection ends all requests in slots, and the
\* firmware has no queue any more.
LEMMA PortDoneKept ==
  ASSUME IInv, TypeInv', PortDone
  PROVE  IInv'
<1>1. PICK k : k = task[Poll]
  OBVIOUS
<1>2. Holds(Poll) /\ Poll \in Tasks /\ k.stage = "port" /\ Answered(k) /\ root # NoIor
  <2>1. Poll \in Tasks /\ Got(Poll, {"port"})
    BY DEF PortDone, Tasks
  <2>2. task[Poll].stage \in {"port"} /\ Holds(Poll) /\ Answered(task[Poll])
        /\ Command(Poll, task[Poll], slots[task[Poll].slot])
    BY <2>1, GotFacts
  <2> QED  BY <1>1, <2>1, <2>2 DEF Command
<1>3. PICK gone : gone = {s \in Slots : k.ret = "offline" /\ slots[s].used /\ slots[s].ior # NoIor}
  OBVIOUS
<1>4. PICK done \in BOOLEAN : done = ((change \/ k.ret \in {"change", "offline"}) /\ root = k.ior)
  OBVIOUS
<1>5. PICK set : set = {slots[s].ior : s \in gone} \cup (IF done THEN {root} ELSE {})
  OBVIOUS
<1>6. /\ slots' = [s \in Slots |-> IF s \in gone THEN clear_int_slot ELSE slots[s]]
      /\ root' = (IF done THEN NoIor ELSE root) /\ Exchange(NoIor, set)
      /\ Leave(Poll) /\ UNCHANGED <<fw, rt>>
  BY <1>1, <1>3, <1>4, <1>5 DEF PortDone, Answer
<1>7. Locks' /\ Commands'
  BY <1>2, <1>6, LeaveKept DEF IInv
<1>8. slots \in [Slots -> SlotType] /\ replies \in [Iors -> 0..2] /\ root \in Roots
  BY <1>2 DEF IInv, TypeInv, TypeOK
<1>9. \A s \in Slots : slots'[s] = IF s \in gone THEN clear_int_slot ELSE slots[s]
  BY <1>6
<1>10. In(clear_int_slot) = {} /\ SlotOK(clear_int_slot)
  BY ClearType, InFacts
<1>11. \A s \in Slots : /\ In(slots[s]) \subseteq Ints /\ SlotOK(slots[s])
                        /\ s \in gone => In(slots[s]) = {slots[s].ior}
  BY <1>3, <1>8, InFacts DEF IInv, Requests
<1>12. Queues'
  <2>1. k.ret = "offline" => fw = {}
    BY <1>2 DEF Answered
  <2>2. k.ret # "offline" => \A s \in Slots : slots'[s] = slots[s]
    BY <1>3, <1>9
  <2>3. \A e : ~ArmUnseen(task[Poll], e)
    BY <1>1, <1>2 DEF ArmUnseen
  <2> QED  BY <1>6, <2>1, <2>2, <2>3 DEF IInv, Queues
<1>13. Requests'
  <2>1. \A s \in Slots : /\ SlotOK(slots'[s])
                         /\ In(slots'[s]) = IF s \in gone THEN {} ELSE In(slots[s])
    BY <1>9, <1>10, <1>11
  <2>2. \A s, u \in Slots : s # u => In(slots[s]) \cap In(slots[u]) = {}
    BY DEF IInv, Requests
  <2>3. \A s, u \in Slots : s # u => In(slots'[s]) \cap In(slots'[u]) = {}
    BY <2>1, <2>2
  <2>4. \A i \in Iors : replies[i] < 2 /\ (replies[i] = 0 <=> Held(i))
    BY DEF IInv, Requests
  <2>5. ASSUME NEW i \in Iors
        PROVE  replies'[i] < 2 /\ (replies'[i] = 0 <=> Held(i)')
    <3>1. /\ i # NoIor
          /\ replies'[i] = IF i \in set /\ replies[i] < 2 THEN replies[i] + 1 ELSE replies[i]
      BY <1>6, IorsAssumption DEF Exchange
    <3>2. Held(i)' <=> (~done /\ root = i) \/ \E s \in Slots \ gone : i \in In(slots[s])
      BY <1>6, <2>1, <3>1 DEF Held
    <3>3. i \in set <=> (done /\ root = i) \/ \E s \in gone : i \in In(slots[s])
      BY <1>3, <1>5, <1>11
    <3>4. CASE i \in set
      <4>1. replies[i] = 0
        BY <1>3, <2>4, <3>3, <3>4 DEF Held
      <4>2. ~Held(i)'
        <5>1. CASE done /\ root = i
          BY <1>8, <1>11, <3>2, <5>1, IorsAssumption
        <5>2. CASE \E s \in gone : i \in In(slots[s])
          <6>1. i # root
            BY <1>3, <1>8, <1>11, <5>2, IorsAssumption
          <6> QED  BY <1>3, <2>2, <3>2, <5>2, <6>1
        <5> QED  BY <3>3, <3>4, <5>1, <5>2
      <4> QED  BY <3>1, <3>4, <4>1, <4>2
    <3>5. CASE i \notin set
      <4>1. Held(i)' <=> Held(i)
        BY <1>3, <3>2, <3>3, <3>5 DEF Held
      <4> QED  BY <2>4, <3>1, <3>5, <4>1
    <3> QED  BY <3>4, <3>5
  <2> QED  BY <2>1, <2>3, <2>5 DEF Requests
<1> QED  BY <1>7, <1>12, <1>13 DEF IInv

\* A bus reset keeps the invariant: it ends the queues of the slots it disarms.
LEMMA USBResetKept ==
  ASSUME IInv, TypeInv', NEW done \in BOOLEAN, NEW lost \in BOOLEAN, USBReset(done, lost)
  PROVE  IInv'
<1>1. UNCHANGED <<root, rt, zz, mbox, task, replies>> /\ task[Poll].pc = "idle"
  BY DEF USBReset
<1>2. Holds(Poll) /\ \A e : ~ArmUnseen(task[Poll], e)
  BY IdleFacts DEF USBReset
<1>3. \A t \in Tasks : task[t].pc = "idle"
  BY <1>1, <1>2, Alone DEF IInv, Tasks
<1>4. Locks' /\ Commands'
  BY <1>1, <1>3 DEF IInv, Locks, Commands
<1>5. Requests'
  <2>1. CASE done
    <3>1. slots' = [s \in Slots |-> [slots[s] EXCEPT !.armed = FALSE, !.arming = FALSE]]
      BY <2>1 DEF USBReset, finish_reset_periodic_for_unit
    <3>2. \A s \in Slots : slots[s] \in SlotType /\ SlotOK(slots[s])
      BY DEF IInv, TypeInv, TypeOK, Requests
    <3>3. ASSUME NEW s \in Slots
          PROVE  /\ slots'[s].used = slots[s].used /\ slots'[s].ior = slots[s].ior
                 /\ slots'[s].reply = slots[s].reply /\ slots'[s].ep = slots[s].ep
                 /\ slots'[s].armed = FALSE
      BY <3>1, <3>2 DEF SlotType
    <3>4. \A s \in Slots : SlotOK(slots'[s]) /\ In(slots'[s]) = In(slots[s])
      BY <3>2, <3>3 DEF SlotOK, In
    <3>5. \A i \in Iors : Held(i)' <=> Held(i)
      BY <1>1, <3>4 DEF Held
    <3>6. \A s, u \in Slots : s # u => In(slots'[s]) \cap In(slots'[u]) = {}
      BY <3>4 DEF IInv, Requests
    <3> QED  BY <1>1, <3>4, <3>5, <3>6 DEF IInv, Requests
  <2>2. CASE ~done
    <3>1. UNCHANGED slots
      BY <2>2 DEF USBReset
    <3> QED  BY <1>1, <3>1 DEF IInv, Requests, Held
  <2> QED  BY <2>1, <2>2
<1>6. Queues'
  <2>1. CASE done
    BY <2>1 DEF USBReset, Queues
  <2>2. CASE ~done
    <3>1. UNCHANGED slots /\ fw' \subseteq fw
      BY <2>2 DEF USBReset
    <3> QED  BY <1>2, <3>1 DEF IInv, Queues
  <2> QED  BY <2>1, <2>2
<1> QED  BY <1>4, <1>5, <1>6 DEF IInv

\* A recovery keeps the invariant: no ARM waits to be looked at.
LEMMA RecoverKept ==
  ASSUME IInv, TypeInv', Recover
  PROVE  IInv'
<1>1. UNCHANGED <<slots, root, fw, rt, zz, mbox, task, replies>> /\ task[Poll].pc = "idle"
  BY DEF Recover
<1>2. Requests' /\ Locks'
  BY <1>1 DEF IInv, Requests, Held, Locks
<1>3. Queues'
  BY <1>1 DEF IInv, Queues, ArmUnseen
<1>4. Commands'
  BY <1>1 DEF IInv, Commands, Command, Answered
<1> QED  BY <1>2, <1>3, <1>4 DEF IInv

\* UHCMD_INTXFER keeps the invariant: the request it replaces is replied.
LEMMA QueueKept ==
  ASSUME IInv, TypeInv', NEW i \in Ints, NEW changed \in BOOLEAN, queue_int_ior(i, changed)
  PROVE  IInv'
<1>1. UNCHANGED <<root, fw, rt, zz, mbox, task>> /\ zz = None /\ replies[i] = 1
  BY DEF queue_int_ior, Locked
<1>2. (\A t \in Tasks : task[t].pc \in {"idle", "next"}) /\ \A e : ~ArmUnseen(task[Poll], e)
  BY <1>1, FreeFacts
<1>3. i # NoIor
  BY IorsAssumption DEF Iors
<1>4. PICK s \in Slots :
           \/ /\ detached_int_slot_matches(slots[s], i)
              /\ Put(s, [slots[s] EXCEPT !.ior = i, !.rearm = changed, !.reusing = TRUE,
                                         !.abort = FALSE, !.ticks = 0])
              /\ Exchange(i, {})
           \/ /\ int_slot_matches(slots[s], i)
              /\ \E b : Put(s, [slots[s] EXCEPT !.ior = i, !.abort = FALSE, !.rearm = @ \/ b])
              /\ Exchange(i, {slots[s].ior})
           \/ /\ slots[s].ior = NoIor /\ slots[s].reply = NoIor /\ ~slots[s].armed
              /\ Put(s, [clear_int_slot EXCEPT !.used = TRUE, !.ior = i])
              /\ Exchange(i, {})
  BY QueueCases
<1>5. PICK r \in SlotType : r = slots[s] /\ SlotOK(r)
  BY DEF IInv, TypeInv, TypeOK, Requests
<1>6. ASSUME NEW n \in SlotType, Put(s, n), n.used, n.ior = i, n.reply = NoIor,
             n.armed => n.ep = EpOf[i], n.armed = r.armed, n.armed => n.ep = r.ep,
             r.reply = NoIor, Exchange(i, {r.ior} \ {NoIor})
      PROVE  IInv'
  <2>1. SlotOK(n) /\ In(n) = {i}
    BY <1>3, <1>6 DEF SlotOK, In
  <2>2. In(slots[s]) = {r.ior} \ {NoIor}
    BY <1>5, <1>6 DEF In
  <2>3. r.ior # i
    <3>1. ~Held(i)
      BY <1>1 DEF IInv, Requests, Iors
    <3> QED  BY <1>3, <2>2, <3>1 DEF Held
  <2>4. Exchange(i, In(slots[s]) \ In(n))
    <3>1. In(slots[s]) \ In(n) = {r.ior} \ {NoIor}
      BY <2>1, <2>2, <2>3
    <3> QED  BY <1>6, <3>1
  <2>5. Covers(s, n)
    BY <1>2, <1>5, <1>6, SameCovers
  <2>6. In(n) \subseteq In(slots[s]) \cup {i} /\ i \in In(n)
    BY <2>1
  <2> QED  BY <1>1, <1>2, <1>6, <2>1, <2>4, <2>5, <2>6, Idles
<1>7. CASE /\ detached_int_slot_matches(slots[s], i)
           /\ Put(s, [slots[s] EXCEPT !.ior = i, !.rearm = changed, !.reusing = TRUE,
                                      !.abort = FALSE, !.ticks = 0])
           /\ Exchange(i, {})
  <2>1. r.used /\ r.ior = NoIor /\ r.reply = NoIor /\ r.ep = EpOf[i] /\ r.armed
    BY <1>5, <1>7 DEF detached_int_slot_matches
  <2>2. PICK n : n = [r EXCEPT !.ior = i, !.rearm = changed, !.reusing = TRUE,
                               !.abort = FALSE, !.ticks = 0]
    OBVIOUS
  <2>3. n \in SlotType /\ n.used = r.used /\ n.ior = i /\ n.reply = r.reply
        /\ n.armed = r.armed /\ n.ep = r.ep
    <3>1. 0 \in 0..Grace
      BY SizesAssumption
    <3> QED  BY <2>2, <3>1 DEF SlotType
  <2>4. {} = {r.ior} \ {NoIor}
    BY <2>1
  <2> QED  BY <1>5, <1>6, <1>7, <2>1, <2>2, <2>3, <2>4
<1>8. CASE /\ int_slot_matches(slots[s], i)
           /\ \E b : Put(s, [slots[s] EXCEPT !.ior = i, !.abort = FALSE, !.rearm = @ \/ b])
           /\ Exchange(i, {slots[s].ior})
  <2>1. r.used /\ r.ior # NoIor /\ EpOf[r.ior] = EpOf[i] /\ r.reply = NoIor
        /\ (r.armed => r.ep = EpOf[i])
    BY <1>5, <1>8 DEF int_slot_matches, SlotOK
  <2>2. PICK b : Put(s, [r EXCEPT !.ior = i, !.abort = FALSE, !.rearm = @ \/ b])
    BY <1>5, <1>8
  <2>3. PICK c \in BOOLEAN : c = (r.rearm \/ b)
    OBVIOUS
  <2>4. PICK n : n = [r EXCEPT !.ior = i, !.abort = FALSE, !.rearm = c]
    OBVIOUS
  <2>5. [r EXCEPT !.ior = i, !.abort = FALSE, !.rearm = @ \/ b] = n
    BY <2>3, <2>4, Zenon DEF SlotType
  <2>6. n \in SlotType /\ n.used = r.used /\ n.ior = i /\ n.reply = r.reply
        /\ n.armed = r.armed /\ n.ep = r.ep
    BY <2>4 DEF SlotType
  <2>7. Put(s, n)
    BY <2>2, <2>5
  <2>8. {r.ior} = {r.ior} \ {NoIor}
    BY <2>1
  <2> QED  BY <1>5, <1>6, <1>8, <2>1, <2>6, <2>7, <2>8
<1>9. CASE /\ slots[s].ior = NoIor /\ slots[s].reply = NoIor /\ ~slots[s].armed
           /\ Put(s, [clear_int_slot EXCEPT !.used = TRUE, !.ior = i])
           /\ Exchange(i, {})
  <2>1. PICK n : n = [clear_int_slot EXCEPT !.used = TRUE, !.ior = i]
    OBVIOUS
  <2>2. n \in SlotType /\ n.used /\ n.ior = i /\ n.reply = NoIor /\ n.armed = FALSE
    BY <2>1, ClearType DEF SlotType, clear_int_slot
  <2>3. {} = {r.ior} \ {NoIor} /\ r.armed = FALSE
    BY <1>5, <1>9 DEF SlotType
  <2> QED  BY <1>5, <1>6, <1>9, <2>1, <2>2, <2>3
<1> QED  BY <1>4, <1>7, <1>8, <1>9

\* The root hub's UHCMD_INTXFER keeps the invariant.
LEMMA RootIntKept ==
  ASSUME IInv, TypeInv', NEW i \in Roots, handle_roothub_int(i)
  PROVE  IInv'
<1>1. zz = None /\ replies[i] = 1 /\ root' = i /\ Exchange(i, {root} \ {NoIor})
      /\ UNCHANGED <<slots, fw, q, rt, zz, mbox, task>>
  BY DEF handle_roothub_int, Locked
<1> QED  BY <1>1, FreeFacts, RootIdles

\* AbortIO keeps the invariant: an armed slot keeps the request it detaches.
LEMMA AbortKept ==
  ASSUME IInv, TypeInv', NEW i \in Iors, abort_io(i)
  PROVE  IInv'
<1>1. UNCHANGED <<fw, q, rt, zz, mbox, task>> /\ zz = None
  BY DEF abort_io, Locked
<1>2. (\A t \in Tasks : task[t].pc \in {"idle", "next"}) /\ \A e : ~ArmUnseen(task[Poll], e)
  BY <1>1, FreeFacts
<1>3. i # NoIor
  BY IorsAssumption
<1>4. CASE root = i /\ root' = NoIor /\ Exchange(NoIor, {i}) /\ UNCHANGED slots
  <2>1. {i} = {root} \ {NoIor}
    BY <1>3, <1>4
  <2> QED  BY <1>1, <1>2, <1>4, <2>1, RootIdles
<1>5. CASE /\ UNCHANGED root
           /\ \E s \in Slots :
                /\ slots[s].used /\ slots[s].ior = i
                /\ \/ /\ slots[s].armed /\ UNCHANGED replies
                      /\ Put(s, [slots[s] EXCEPT !.reply = i, !.ior = NoIor, !.stop = TRUE,
                                      !.abort = FALSE, !.reusing = FALSE, !.ticks = 0])
                   \/ Put(s, [slots[s] EXCEPT !.abort = TRUE]) /\ UNCHANGED replies
                   \/ ~slots[s].armed /\ Put(s, clear_int_slot) /\ Exchange(NoIor, {i})
  <2>1. PICK s \in Slots :
                /\ slots[s].used /\ slots[s].ior = i
                /\ \/ /\ slots[s].armed /\ UNCHANGED replies
                      /\ Put(s, [slots[s] EXCEPT !.reply = i, !.ior = NoIor, !.stop = TRUE,
                                      !.abort = FALSE, !.reusing = FALSE, !.ticks = 0])
                   \/ Put(s, [slots[s] EXCEPT !.abort = TRUE]) /\ UNCHANGED replies
                   \/ ~slots[s].armed /\ Put(s, clear_int_slot) /\ Exchange(NoIor, {i})
    BY <1>5
  <2>2. PICK r \in SlotType : r = slots[s] /\ SlotOK(r)
    BY DEF IInv, TypeInv, TypeOK, Requests
  <2>3. r.used /\ r.ior = i /\ r.reply = NoIor /\ In(r) = {i} /\ i \in Ints
    BY <1>3, <2>1, <2>2, InFacts DEF SlotOK, SlotType
  <2>4. ASSUME NEW n \in SlotType, Put(s, n), SlotOK(n), In(n) = {i}, UNCHANGED replies,
               n.armed = r.armed, n.ep = r.ep
        PROVE  IInv'
    <3>1. In(slots[s]) \ In(n) = {} /\ In(n) \subseteq In(slots[s]) \cup {NoIor}
      BY <2>2, <2>3, <2>4
    <3>2. Exchange(NoIor, In(slots[s]) \ In(n))
      BY <2>4, <3>1, NoReplies DEF IInv, TypeInv
    <3>3. Covers(s, n)
      BY <1>2, <2>2, <2>4, SameCovers
    <3> QED  BY <1>1, <1>2, <1>5, <2>4, <3>1, <3>2, <3>3, Idles
  <2>5. CASE /\ slots[s].armed /\ UNCHANGED replies
             /\ Put(s, [slots[s] EXCEPT !.reply = i, !.ior = NoIor, !.stop = TRUE,
                                      !.abort = FALSE, !.reusing = FALSE, !.ticks = 0])
    <3>1. PICK n : n = [r EXCEPT !.reply = i, !.ior = NoIor, !.stop = TRUE,
                                 !.abort = FALSE, !.reusing = FALSE, !.ticks = 0]
      OBVIOUS
    <3>2. n \in SlotType /\ n.used = r.used /\ n.ior = NoIor /\ n.reply = i
          /\ n.armed = r.armed /\ n.ep = r.ep
      <4>1. 0 \in 0..Grace
        BY SizesAssumption
      <4> QED  BY <2>3, <3>1, <4>1 DEF SlotType
    <3>3. SlotOK(n) /\ In(n) = {i}
      BY <1>3, <2>2, <2>3, <2>5, <3>2 DEF SlotOK, In
    <3> QED  BY <2>2, <2>4, <2>5, <3>1, <3>2, <3>3
  <2>6. CASE Put(s, [slots[s] EXCEPT !.abort = TRUE]) /\ UNCHANGED replies
    <3>1. PICK n : n = [r EXCEPT !.abort = TRUE]
      OBVIOUS
    <3>2. n \in SlotType /\ n.used = r.used /\ n.ior = r.ior /\ n.reply = r.reply
          /\ n.armed = r.armed /\ n.ep = r.ep
      BY <3>1 DEF SlotType
    <3>3. SlotOK(n) /\ In(n) = {i}
      BY <2>2, <2>3, <3>2 DEF SlotOK, In
    <3> QED  BY <2>2, <2>4, <2>6, <3>1, <3>2, <3>3
  <2>7. CASE ~slots[s].armed /\ Put(s, clear_int_slot) /\ Exchange(NoIor, {i})
    <3>1. In(clear_int_slot) = {} /\ SlotOK(clear_int_slot) /\ clear_int_slot \in SlotType
      BY InFacts, ClearType
    <3>2. Covers(s, clear_int_slot)
      BY <1>2, <2>7, SameCovers
    <3>3. In(slots[s]) \ In(clear_int_slot) = {i}
      BY <2>2, <2>3, <3>1
    <3>4. Exchange(NoIor, In(slots[s]) \ In(clear_int_slot))
      BY <2>7, <3>3
    <3>5. In(clear_int_slot) \subseteq In(slots[s]) \cup {NoIor}
      BY <3>1
    <3> QED  BY <1>1, <1>2, <1>5, <2>7, <3>1, <3>2, <3>4, <3>5, Idles
  <2> QED  BY <2>1, <2>5, <2>6, <2>7
<1> QED  BY <1>4, <1>5, AbortCases

\* The begin of a flush keeps the invariant.
LEMMA FlushBeginsKept ==
  ASSUME IInv, TypeInv', FlushBegins
  PROVE  IInv'
<1>1. zz = None /\ root' = NoIor /\ Exchange(NoIor, {root} \ {NoIor})
      /\ zz' = Flush /\ mbox' = Flush
      /\ task' = [task EXCEPT ![Flush].pc = "next"] /\ UNCHANGED <<slots, fw, q, rt>>
  BY DEF FlushBegins, Locked, Answer
<1>2. \A t \in Tasks : task[t].pc = "idle"
  BY <1>1, FreeFacts
<1>3. task'[Poll] = task[Poll] /\ task'[Flush].pc = "next"
  BY <1>1 DEF IInv, TypeInv, TaskType, Tasks, Poll, Flush
<1>4. Requests'
  BY <1>1, RootKept DEF IInv
<1>5. Queues'
  BY <1>1, <1>3 DEF IInv, Queues, ArmUnseen
<1>6. Locks'
  BY <1>1, <1>2, <1>3 DEF IInv, Locks, Tasks, Poll, Flush
<1>7. Commands'
  BY <1>2, <1>3 DEF Commands, Tasks
<1> QED  BY <1>4, <1>5, <1>6, <1>7 DEF IInv

\* The end of a flush keeps the invariant.
LEMMA FlushEndsKept ==
  ASSUME IInv, TypeInv', FlushEnds
  PROVE  IInv'
<1>1. task' = [task EXCEPT ![Flush] = Idle] /\ zz' = None /\ mbox' = None
      /\ task[Flush].pc = "next" /\ UNCHANGED <<slots, root, fw, q, rt, replies>>
  BY DEF FlushEnds
<1>2. Holds(Flush) /\ task[Poll].pc = "idle"
  BY <1>1 DEF IInv, Locks, Holds, Tasks, Poll, Flush
<1>3. task'[Poll] = task[Poll] /\ task'[Flush].pc = "idle"
  BY <1>1 DEF IInv, TypeInv, Tasks, Poll, Flush, Idle
<1>4. Requests'
  BY <1>1 DEF IInv, Requests, Held
<1>5. Queues'
  BY <1>1, <1>3 DEF IInv, Queues, ArmUnseen
<1>6. Locks'
  BY <1>1, <1>2, <1>3 DEF IInv, Locks, Tasks, Poll, Flush, None
<1>7. Commands'
  BY <1>2, <1>3 DEF Commands, Tasks
<1> QED  BY <1>4, <1>5, <1>6, <1>7 DEF IInv

\* The invariant holds at first, without realtime ISO.
LEMMA InvInit ==
  ASSUME RtModes = {FALSE}, Init
  PROVE  IInv
<1>1. TypeInv
  BY TypeInit
<1>2. Requests
  <2>1. \A s \in Slots : slots[s] = clear_int_slot
    BY DEF Init
  <2>2. \A s \in Slots : In(slots[s]) = {} /\ SlotOK(slots[s])
    BY <2>1, InFacts, ClearType
  <2> QED  BY <2>2, IorsAssumption DEF Init, Requests, Held
<1>3. Queues /\ Commands /\ Locks
  BY DEF Init, Queues, Commands, Locks, Idle, Tasks, Poll, Flush, None
<1> QED  BY <1>1, <1>2, <1>3 DEF IInv

\* Every step keeps the invariant.
LEMMA InvNext ==
  ASSUME IInv, [Next]_vars
  PROVE  IInv'
<1>0. TypeInv'
  BY TypeNext DEF IInv
<1>1. ASSUME PollStep PROVE IInv'
  BY <1>0, <1>1, PollKept, ArmDoneKept, SendKept, StopDoneKept, ReapDoneKept, RootPollKept,
     PortDoneKept, USBResetKept, RecoverKept DEF PollStep, Tasks
<1>2. ASSUME FlushStep PROVE IInv'
  BY <1>0, <1>2, SendKept, StopDoneKept, FlushSlotKept, FlushEndsKept DEF FlushStep, Tasks
<1>3. ASSUME CallerStep PROVE IInv'
  <2>1. ASSUME ClearPortChange PROVE IInv'
    BY <1>0, <2>1, Stutters DEF ClearPortChange
  <2> QED  BY <1>0, <1>3, <2>1, QueueKept, RootIntKept, AbortKept, FlushBeginsKept DEF CallerStep
<1>4. ASSUME UNCHANGED vars PROVE IInv'
  BY <1>0, <1>4, Stutters DEF vars
<1> QED  BY <1>1, <1>2, <1>3, <1>4 DEF Next

-----------------------------------------------------------------------------
(* The theorems, for a unit without realtime ISO.                          *)

\* "exact-once request retirement": whatever the order of INTXFER, AbortIO,
\* CMD_FLUSH, bus resets, disconnections and failing commands, no interrupt
\* request is replied twice, and one not replied is still held.
THEOREM RequestsRetiredOnce ==
  ASSUME RtModes = {FALSE}
  PROVE  Spec => []RetiredOnce
<1>1. Init => IInv
  BY InvInit
<1>2. IInv /\ [Next]_vars => IInv'
  BY InvNext
<1>3. IInv => RetiredOnce
  <2> SUFFICES ASSUME IInv, NEW i \in Iors
               PROVE  replies[i] < 2 /\ (replies[i] = 0 => HeldSomewhere(i))
    BY DEF RetiredOnce
  <2>1. replies[i] < 2 /\ (replies[i] = 0 => Held(i)) /\ i # NoIor
    BY IorsAssumption DEF IInv, Requests
  <2>2. \A s \in Slots : i \in In(slots[s]) => slots[s].used /\ i \in {slots[s].ior, slots[s].reply}
    BY <2>1 DEF IInv, Requests, SlotOK, In
  <2> QED  BY <2>1, <2>2 DEF Held, HeldSomewhere
<1> QED  BY <1>1, <1>2, <1>3, PTL DEF Spec

\* The firmware never has a periodic queue that no slot would stop: a queue
\* belongs to an armed slot of its endpoint or to the ARM being dealt with.
THEOREM QueuesHaveSlots ==
  ASSUME RtModes = {FALSE}
  PROVE  Spec => []NoOrphanQueue
<1>1. Init => IInv
  BY InvInit
<1>2. IInv /\ [Next]_vars => IInv'
  BY InvNext
<1>3. IInv => NoOrphanQueue
  <2> SUFFICES ASSUME IInv, NEW e \in fw
               PROVE  \/ \E s \in Slots : slots[s].used /\ slots[s].armed /\ e = slots[s].ep
                      \/ \E t \in Tasks : task[t].ep = e
    BY DEF NoOrphanQueue
  <2>1. \A s \in Slots : slots[s].armed => slots[s].used
    BY DEF IInv, Requests, SlotOK
  <2> QED  BY <2>1 DEF IInv, Queues, ArmUnseen, Tasks
<1> QED  BY <1>1, <1>2, <1>3, PTL DEF Spec

\* A step writes slot s and keeps the aborted request in it, or frees it.
Wrote(s) ==
  \E n : /\ Put(s, n)
         /\ slots[s].reply # NoIor => n.reply = slots[s].reply \/ n = clear_int_slot

\* The task goes on or begins a command.
Moves(t, s) == Leave(t) \/ \E i, stage, cmd, ep : Begin(t, s, i, stage, cmd, ep)

\* What follows a STOP does that.
LEMMA RetireWrites ==
  ASSUME NEW t \in Tasks, NEW s \in Slots, NEW i, NEW stage, NEW r \in SlotType, NEW ok,
         Retire(t, s, i, stage, r, ok), r.reply = slots[s].reply
  PROVE  Wrote(s) /\ Moves(t, s)
<1>1. PICK b \in BOOLEAN : b = IF stage \in {"abort", "flush"} THEN FALSE ELSE r.abort
  BY DEF SlotType
<1>2. [r EXCEPT !.stop = TRUE, !.abort = b].reply = r.reply
  BY DEF SlotType
<1>3. \/ Put(s, r) \/ Put(s, clear_int_slot) \/ Put(s, [r EXCEPT !.stop = TRUE, !.abort = b])
  BY <1>1 DEF Retire, SlotType
<1> QED  BY <1>2, <1>3 DEF Wrote, Moves, Retire

\* So does what follows the STOP of a slot to be armed again,
LEMMA RearmWrites ==
  ASSUME NEW t \in Tasks, NEW s \in Slots, NEW i, NEW r \in SlotType, NEW ok \in BOOLEAN,
         Rearm(t, s, i, r, ok), r.reply = slots[s].reply
  PROVE  Wrote(s) /\ Moves(t, s)
<1>1. PICK d : d = [r EXCEPT !.rearm = FALSE]
  OBVIOUS
<1>2. d \in SlotType /\ d.reply = r.reply
  BY <1>1 DEF SlotType
<1>3. [d EXCEPT !.stop = TRUE].reply = d.reply /\ [d EXCEPT !.arming = TRUE].reply = d.reply
  BY <1>2 DEF SlotType
<1>4. \/ Put(s, r) /\ Leave(t)
      \/ Put(s, [d EXCEPT !.arming = TRUE]) /\ \E j, stage, cmd, ep : Begin(t, s, j, stage, cmd, ep)
      \/ Put(s, [d EXCEPT !.stop = TRUE]) /\ Leave(t)
  BY <1>1 DEF Rearm, Same, Arm
<1> QED  BY <1>2, <1>3, <1>4 DEF Wrote, Moves

\* and a STOP, or what follows it when the slot is not armed.
LEMMA StopFirstWrites ==
  ASSUME NEW t \in Tasks, NEW s \in Slots, NEW i, NEW stage, NEW r \in SlotType,
         StopFirst(t, s, i, stage, r), r.reply = slots[s].reply
  PROVE  Wrote(s) /\ Moves(t, s)
<1>1. \/ Put(s, r) /\ Begin(t, s, i, stage, "stop", StopEp(r))
      \/ Detached(t, s, r) \/ Rearm(t, s, i, r, TRUE) \/ Retire(t, s, i, stage, r, TRUE)
  BY DEF StopFirst
<1>2. CASE Put(s, r) /\ Begin(t, s, i, stage, "stop", StopEp(r))
  BY <1>2 DEF Wrote, Moves
<1>3. CASE Detached(t, s, r)
  BY <1>3 DEF Detached, Wrote, Moves
<1> QED  BY <1>1, <1>2, <1>3, RearmWrites, RetireWrites

\* What a step may do to the slots: nothing that takes an aborted request out
\* of one, unless that slot alone is freed and no ARM is unseen then.
Frame ==
  \/ UNCHANGED replies
  \/ \A s \in Slots : slots[s].reply # NoIor => slots'[s] = slots[s]
  \/ task'[Poll].pc # "sent" /\ \E s \in Slots : Wrote(s)

\* A step on one slot by the task that holds zz_Lock is such a step.
LEMMA MovesFrame ==
  ASSUME IInv, NEW t \in Tasks, Holds(t), NEW s \in Slots, Wrote(s), Moves(t, s)
  PROVE  Frame
<1>1. t # Poll => task[Poll].pc = "idle"
  BY Alone DEF IInv, Tasks
<1>2. task'[Poll].pc # "sent"
  <2>1. CASE Leave(t)
    BY <1>1, <2>1 DEF Leave, IInv, TypeInv, Idle, Tasks
  <2>2. CASE \E i, stage, cmd, ep : Begin(t, s, i, stage, cmd, ep)
    BY <1>1, <2>2 DEF Begin, IInv, TypeInv, Tasks
  <2> QED  BY <2>1, <2>2 DEF Moves
<1> QED  BY <1>2 DEF Frame

\* A look of the poll task at a slot is such a step,
LEMMA PollFrame ==
  ASSUME IInv, NEW s \in Slots, NEW reap \in BOOLEAN, poll_int_pending(s, reap)
  PROVE  Frame
<1>1. PICK r \in SlotType : r = slots[s]
  BY DEF IInv, TypeInv, TypeOK
<1>2. PICK now : now = IF r.ior # NoIor /\ ~r.armed THEN [r EXCEPT !.ep = EpOf[r.ior]] ELSE r
  OBVIOUS
<1>3. now \in SlotType /\ now.reply = r.reply
  BY <1>2, EpOfType DEF SlotType
<1>4. /\ [now EXCEPT !.abort = FALSE] \in SlotType
      /\ [now EXCEPT !.abort = FALSE].reply = r.reply
      /\ [now EXCEPT !.arming = TRUE].reply = r.reply
  BY <1>3 DEF SlotType
<1>5. Holds(Poll) /\ Poll \in Tasks
  BY IdleFacts DEF poll_int_pending, Tasks
<1>6. \/ UNCHANGED replies
      \/ StopFirst(Poll, s, r.ior, "detached", r)
      \/ StopFirst(Poll, s, r.ior, "stop pending", [now EXCEPT !.abort = FALSE])
      \/ StopFirst(Poll, s, r.ior, "abort", now)
      \/ StopFirst(Poll, s, r.ior, "rearm", now)
  BY <1>1, <1>2 DEF poll_int_pending
<1>7. CASE UNCHANGED replies
  BY <1>7 DEF Frame
<1>8. CASE \E n \in SlotType : \E stage : n.reply = r.reply /\ StopFirst(Poll, s, r.ior, stage, n)
  BY <1>1, <1>5, <1>8, StopFirstWrites, MovesFrame
<1> QED  BY <1>3, <1>4, <1>6, <1>7, <1>8

\* and the answer to a STOP,
LEMMA StopDoneFrame ==
  ASSUME IInv, NEW t \in Tasks, StopDone(t)
  PROVE  Frame
<1>1. PICK s \in Slots : s = task[t].slot
  BY TaskTyped DEF IInv
<1>2. PICK ok \in BOOLEAN : ok = (task[t].ret = "ok")
  OBVIOUS
<1>3. PICK r : r = Stopped(slots[s], ok)
  OBVIOUS
<1>4. r \in SlotType /\ r.reply = slots[s].reply /\ Holds(t)
  <2>1. slots[s] \in SlotType /\ Holds(t)
    BY <1>1, GotFacts DEF StopDone
  <2> QED  BY <1>3, <2>1 DEF Stopped, SlotType
<1>5. \/ UNCHANGED replies
      \/ Detached(t, s, r)
      \/ Rearm(t, s, task[t].ior, r, ok)
      \/ Retire(t, s, task[t].ior, task[t].stage, r, ok)
  BY <1>1, <1>2, <1>3 DEF StopDone
<1>6. CASE UNCHANGED replies
  BY <1>6 DEF Frame
<1>7. CASE Detached(t, s, r)
  <2>1. Wrote(s) /\ Moves(t, s)
    BY <1>4, <1>7 DEF Detached, Wrote, Moves
  <2> QED  BY <1>4, <2>1, MovesFrame
<1>8. CASE Rearm(t, s, task[t].ior, r, ok) \/ Retire(t, s, task[t].ior, task[t].stage, r, ok)
  BY <1>4, <1>8, RearmWrites, RetireWrites, MovesFrame
<1> QED  BY <1>5, <1>6, <1>7, <1>8

\* A step on a slot that holds no aborted request.
LEMMA OtherSlots ==
  ASSUME IInv, NEW s \in Slots, slots[s].reply = NoIor, NEW n, Put(s, n)
  PROVE  Frame
BY DEF Put, IInv, TypeInv, TypeOK, Frame

\* and the answer to an ARM or a REAP,
LEMMA PollAnswerFrame ==
  ASSUME IInv, (\E reap \in BOOLEAN : ArmDone(reap)) \/ ReapDone
  PROVE  Frame
<1>1. PICK s \in Slots : s = task[Poll].slot
  BY TaskTyped DEF IInv, Tasks
<1>2. PICK i : i = task[Poll].ior
  OBVIOUS
<1>3. slots[s] \in SlotType /\ slots[s].reply = NoIor
  <2>1. Poll \in Tasks /\ Got(Poll, {"arm", "reap"})
    BY DEF ArmDone, ReapDone, Got, Tasks
  <2>2. /\ task[Poll].stage \in {"arm", "reap"} /\ slots[s] \in SlotType /\ SlotOK(slots[s])
        /\ Command(Poll, task[Poll], slots[s])
    BY <1>1, <2>1, GotFacts
  <2>3. task[Poll].ior \in Ints
    BY <2>1, <2>2, TaskTyped DEF IInv
  <2>4. slots[s].ior # NoIor
    BY <2>2, <2>3, IorsAssumption DEF Command, Iors
  <2> QED  BY <2>2, <2>4 DEF SlotOK
<1>4. CASE \E reap \in BOOLEAN : ArmDone(reap)
  <2>1. PICK b : b = [[slots[s] EXCEPT !.arming = FALSE] EXCEPT !.armed = TRUE, !.reusing = FALSE]
    OBVIOUS
  <2>2. b \in SlotType /\ b.reply = slots[s].reply
    BY <1>3, <2>1 DEF SlotType
  <2>3. PICK reap \in BOOLEAN : ArmDone(reap)
    BY <1>4
  <2>4. /\ [slots[s] EXCEPT !.arming = FALSE].used = slots[s].used
        /\ [slots[s] EXCEPT !.arming = FALSE].ior = slots[s].ior
        /\ [slots[s] EXCEPT !.arming = FALSE].reusing \in BOOLEAN
    BY <1>3 DEF SlotType
  <2>5. UNCHANGED replies \/ (\E n : Put(s, n)) \/ StopFirst(Poll, s, i, "reuse failed", b)
    BY <1>1, <1>2, <2>1, <2>3, <2>4 DEF ArmDone, Same
  <2>6. CASE StopFirst(Poll, s, i, "reuse failed", b)
    BY <1>3, <2>2, <2>6, StopFirstWrites, OtherSlots DEF Wrote, Tasks
  <2>7. CASE \E n : Put(s, n)
    BY <1>3, <2>7, OtherSlots
  <2>8. CASE UNCHANGED replies
    BY <2>8 DEF Frame
  <2> QED  BY <2>5, <2>6, <2>7, <2>8
<1>5. CASE ReapDone
  <2>1. task[Poll].ret \in {"ok", "err", "none"} /\ slots[s].abort \in BOOLEAN
    BY <1>3, <1>5, TaskTyped DEF IInv, ReapDone, Got, SlotType, Tasks
  <2>2. \/ UNCHANGED replies \/ (\E n : Put(s, n))
        \/ \E stage \in {"abort", "write done", "reap failed"} :
             StopFirst(Poll, s, i, stage, slots[s])
    BY <1>1, <1>2, <1>5, <2>1 DEF ReapDone
  <2>3. ASSUME NEW stage, StopFirst(Poll, s, i, stage, slots[s])
        PROVE  Frame
    BY <1>3, <2>3, StopFirstWrites, OtherSlots DEF Wrote, Tasks
  <2>4. CASE \E n : Put(s, n)
    BY <1>3, <2>4, OtherSlots
  <2>5. CASE UNCHANGED replies
    BY <2>5 DEF Frame
  <2> QED  BY <2>2, <2>3, <2>4, <2>5
<1> QED  BY <1>4, <1>5

\* and a look of a flush at a slot,
LEMMA FlushSlotFrame ==
  ASSUME IInv, FlushSlot
  PROVE  Frame
<1>1. PICK s \in Slots : s = todo
  BY DEF FlushSlot
<1>2. PICK i : i = IF slots[s].ior # NoIor THEN slots[s].ior ELSE slots[s].reply
  OBVIOUS
<1>3. PICK n : n = [slots[s] EXCEPT !.ticks = 0]
  OBVIOUS
<1>4. n \in SlotType /\ n.reply = slots[s].reply
  <2>1. slots[s] \in SlotType /\ 0 \in 0..Grace
    BY SizesAssumption DEF IInv, TypeInv, TypeOK
  <2> QED  BY <1>3, <2>1 DEF SlotType
<1>5. Holds(Flush) /\ Flush \in Tasks
  BY DEF FlushSlot, IInv, Locks, Holds, Tasks
<1>6. StopFirst(Flush, s, i, "flush", n) \/ UNCHANGED replies
  BY <1>1, <1>2, <1>3 DEF FlushSlot
<1>7. CASE StopFirst(Flush, s, i, "flush", n)
  BY <1>4, <1>5, <1>7, StopFirstWrites, MovesFrame
<1>8. CASE UNCHANGED replies
  BY <1>8 DEF Frame
<1> QED  BY <1>6, <1>7, <1>8

\* and what the callers do,
LEMMA CallerFrame ==
  ASSUME IInv, CallerStep
  PROVE  Frame
<1>1. ASSUME NEW i \in Ints, NEW changed \in BOOLEAN, queue_int_ior(i, changed)
      PROVE  Frame
  <2>1. PICK s \in Slots :
           /\ \/ detached_int_slot_matches(slots[s], i) \/ int_slot_matches(slots[s], i)
              \/ slots[s].reply = NoIor
           /\ \E n : Put(s, n)
    BY <1>1, QueueCases
  <2>2. slots[s].reply = NoIor
    BY <2>1 DEF detached_int_slot_matches, int_slot_matches, IInv, Requests, SlotOK
  <2> QED  BY <2>1, <2>2, OtherSlots
<1>2. ASSUME NEW i \in Iors, abort_io(i)
      PROVE  Frame
  <2>1. CASE UNCHANGED slots
    BY <2>1 DEF Frame
  <2>2. CASE \E s \in Slots : slots[s].ior = i /\ \E n : Put(s, n)
    <3>1. PICK s \in Slots : slots[s].ior = i /\ \E n : Put(s, n)
      BY <2>2
    <3>2. slots[s].reply = NoIor
      BY <3>1, IorsAssumption DEF IInv, Requests, SlotOK
    <3> QED  BY <3>1, <3>2, OtherSlots
  <2> QED  BY <1>2, <2>1, <2>2, AbortCases
<1>3. CASE (\E i \in Roots : handle_roothub_int(i)) \/ ClearPortChange \/ FlushBegins
  BY <1>3 DEF handle_roothub_int, ClearPortChange, FlushBegins, Frame
<1> QED  BY <1>1, <1>2, <1>3 DEF CallerStep

\* and so every step.
LEMMA NextFrame ==
  ASSUME IInv, [Next]_vars
  PROVE  Frame
<1>1. CASE (\E t \in Tasks : Send(t)) \/ FlushEnds \/ Recover \/ UNCHANGED vars
           \/ (\E done, lost \in BOOLEAN : USBReset(done, lost))
  BY <1>1 DEF Send, FlushEnds, Recover, vars, USBReset, Frame
<1>2. CASE poll_roothub_pending
  BY <1>2 DEF poll_roothub_pending, Frame
<1>3. ASSUME PortDone PROVE Frame
  <2>1. PICK gone : /\ gone \subseteq {s \in Slots : slots[s].ior # NoIor}
                    /\ slots' = [s \in Slots |-> IF s \in gone THEN clear_int_slot ELSE slots[s]]
    BY <1>3 DEF PortDone
  <2>2. \A s \in Slots : slots[s].reply # NoIor => slots[s].ior = NoIor
    BY DEF IInv, Requests, SlotOK
  <2> QED  BY <2>1, <2>2 DEF Frame
<1> QED  BY <1>1, <1>2, <1>3, PollFrame, StopDoneFrame, PollAnswerFrame, FlushSlotFrame, CallerFrame
         DEF Next, PollStep, FlushStep, Tasks

\* "Replying before PERIODIC_STOP lets device teardown race the live firmware
\* queue": an aborted request is replied by a step after which the firmware
\* has no queue for its endpoint, unless another slot has armed one.
THEOREM AbortsWaitForStop ==
  ASSUME RtModes = {FALSE}
  PROVE  Spec => AbortWaitsForStop
<1>1. Init => IInv
  BY InvInit
<1>2. IInv /\ [Next]_vars => IInv'
  BY InvNext
<1>3. ASSUME IInv, IInv', [Next]_vars, NEW s \in Slots, NEW i \in Ints,
             slots[s].reply = i, replies'[i] > replies[i]
      PROVE  \/ EpOf[i] \notin fw'
             \/ \E u \in Slots \ {s} : slots[u].armed /\ slots[u].ep = EpOf[i]
  <2>1. i # NoIor /\ i \in Iors /\ i \in In(slots[s])
    BY <1>3, IorsAssumption DEF Iors, In
  <2>2. replies[i] = 0 /\ replies'[i] # 0
    BY <1>3, <2>1 DEF IInv, Requests, Held
  <2>3. ~Held(i)'
    BY <1>3, <2>1, <2>2 DEF IInv, Requests
  <2>4. slots'[s].reply # i
    BY <2>1, <2>3 DEF Held, In
  <2>5. task'[Poll].pc # "sent" /\ \E u \in Slots : Wrote(u)
    BY <1>3, <2>1, <2>2, <2>4, NextFrame DEF Frame
  <2>6. PICK u \in Slots : Wrote(u)
    BY <2>5
  <2>7. PICK n : /\ Put(u, n)
                 /\ slots[u].reply # NoIor => n.reply = slots[u].reply \/ n = clear_int_slot
    BY <2>6 DEF Wrote
  <2>8. \A v \in Slots : slots'[v] = IF v = u THEN n ELSE slots[v]
    BY <1>3, <2>7 DEF Put, IInv, TypeInv, TypeOK
  <2>9. u = s /\ n = clear_int_slot
    BY <1>3, <2>1, <2>4, <2>7, <2>8
  <2>10. ~slots'[s].armed
    BY <2>8, <2>9 DEF clear_int_slot
  <2> SUFFICES ASSUME EpOf[i] \in fw'
               PROVE  \E v \in Slots \ {s} : slots[v].armed /\ slots[v].ep = EpOf[i]
    OBVIOUS
  <2>11. PICK v \in Slots : slots'[v].armed /\ slots'[v].ep = EpOf[i]
    BY <1>3, <2>5 DEF IInv, Queues, ArmUnseen
  <2> QED  BY <2>8, <2>9, <2>10, <2>11
<1>4. IInv /\ IInv' /\ [Next]_vars =>
        [\A s \in Slots, i \in Ints :
           slots[s].reply = i /\ replies'[i] > replies[i]
           => \/ EpOf[i] \notin fw'
              \/ \E u \in Slots \ {s} : slots[u].armed /\ slots[u].ep = EpOf[i]]_vars
  BY <1>3
<1> QED  BY <1>1, <1>2, <1>4, PTL DEF Spec, AbortWaitsForStop
=============================================================================
