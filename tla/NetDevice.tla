----------------------------- MODULE NetDevice -----------------------------
(***************************************************************************)
(* Life cycle of ZZ9000Net.device: openers, the framer process they share, *)
(* the interrupt server, the RX staging buffer, the read list, AbortIO and *)
(* expunge.  Exec calls DevOpen, DevClose and DevExpunge under Forbid, so  *)
(* each runs as one step up to the next Wait: the WaitPort of the first    *)
(* open, and the ObtainSemaphore on db_ProcExitSem.  Frame contents, slot  *)
(* classification and transmission are in NetRx and NetTx.                 *)
(***************************************************************************)
EXTENDS Naturals, Sequences, FiniteSets

CONSTANTS Openers,      \* tasks that open unit 0, one read request each
          NoOne,        \* not an opener
          Types,        \* packet types on the wire
          PacketType,   \* opener -> the type its read asks for
          Overlap,      \* other tasks enter the device while a call waits
          MaxSessions,  \* bound: first opens
          MaxReads,     \* bound: reads an opener submits
          MaxFrames     \* bound: frames received

NoProc == 0
Framers == 1..MaxSessions

ASSUME OpenersAssumption == IsFiniteSet(Openers) /\ NoOne \notin Openers \cup Framers
ASSUME PacketTypeAssumption == PacketType \in [Openers -> Types]
ASSUME OverlapAssumption == Overlap \in BOOLEAN
ASSUME BoundsAssumption == MaxSessions \in Nat /\ MaxReads \in Nat /\ MaxFrames \in Nat

VARIABLES
  openCnt, delexp, gone,   \* lib_OpenCnt, LIBF_DELEXP, the base was freed
  proc,         \* db_Proc
  server,       \* db_interrupt is set and the server is in the chain
  stage,        \* db_RxStage: 0, or which allocation it is
  stages,       \* staging buffers allocated so far
  groups,       \* the multicast table is not empty
  readList,     \* db_ReadList, head first
  exitSem,      \* db_ProcExitSem: who owns it, who waits
  granted,      \* openers whose ObtainSemaphore was granted
  op,           \* where each opener is
  joined,       \* openers that joined a group in this session
  io,           \* each opener's read request
  sent, replied,   \* history: reads submitted and replied to
  fr,           \* framer instances
  irqEn,        \* bit 0 of the interrupt register
  backlog, frames  \* frames waiting on the card, frames received

libVars == <<openCnt, delexp, gone>>
semVars == <<exitSem, granted>>
ioVars == <<readList, io, sent, replied>>
netVars == <<backlog, frames>>
vars == <<openCnt, delexp, gone, proc, server, stage, stages, groups, readList,
          exitSem, granted, op, joined, io, sent, replied, fr, irqEn, backlog, frames>>

\* An opener inside DevOpen or DevClose, in one of their waits.
InCall(o) == op[o] \in {"opening", "failing", "closing"}

\* Exec enters the device under Forbid; a Wait inside the call breaks it.
MayEnter == ~gone /\ (Overlap \/ \A o \in Openers : ~InCall(o))

-----------------------------------------------------------------------------
(* The Exec semaphore db_ProcExitSem (external).  Releasing hands it to the *)
(* first waiter and wakes that task; initialising it forgets owner and      *)
(* waiters, but not that a task was already woken.                          *)

InitSemaphore == [owner |-> NoOne, wait |-> <<>>]
Free == exitSem.owner = NoOne
Obtain(o) ==
  IF Free THEN exitSem' = [exitSem EXCEPT !.owner = o] /\ granted' = granted \cup {o}
          ELSE /\ exitSem' = [exitSem EXCEPT !.wait = Append(@, o)]
               /\ UNCHANGED granted
Release(done) ==
  IF exitSem.wait = <<>>
  THEN exitSem' = InitSemaphore /\ granted' = granted \ done
  ELSE /\ exitSem' = [owner |-> Head(exitSem.wait), wait |-> Tail(exitSem.wait)]
       /\ granted' = (granted \ done) \cup {Head(exitSem.wait)}

-----------------------------------------------------------------------------
(* DevOpen.                                                                *)

\* The first open, up to WaitPort: a new session and a new framer.
OpenFirst(o) ==
  /\ MayEnter /\ op[o] = "closed" /\ openCnt = 0
  /\ \E f \in Framers :
       /\ fr[f].pc = "none" /\ \A g \in Framers : g < f => fr[g].pc # "none"
       /\ fr' = [fr EXCEPT ![f].pc = "start"]
       /\ proc' = f
  /\ openCnt' = 1
  /\ groups' = FALSE /\ readList' = <<>> /\ exitSem' = InitSemaphore
  /\ op' = [op EXCEPT ![o] = "opening"]
  /\ UNCHANGED <<granted, delexp, gone, server, stage, stages, joined, io, sent, replied,
                 irqEn, netVars>>

\* The first open fails before it has a framer (no memory, port or process).
OpenFails(o) ==
  /\ MayEnter /\ op[o] = "closed" /\ openCnt = 0
  /\ \/ UNCHANGED <<groups, readList, proc>>
     \/ groups' = FALSE /\ readList' = <<>> /\ UNCHANGED proc
     \/ groups' = FALSE /\ readList' = <<>> /\ proc' = NoProc
  /\ UNCHANGED <<libVars, server, stage, stages, semVars, op, joined, io, sent,
                 replied, fr, irqEn, netVars>>

\* A secondary open: it needs memory and a session that is completely up.
OpenSecond(o) ==
  /\ MayEnter /\ op[o] = "closed" /\ openCnt > 0
  /\ \E ok \in {TRUE, FALSE} :
       /\ ok => proc # NoProc /\ server
       /\ openCnt' = IF ok THEN openCnt + 1 ELSE openCnt
       /\ op' = IF ok THEN [op EXCEPT ![o] = "open"] ELSE op
       /\ delexp' = IF ok THEN FALSE ELSE delexp
  /\ UNCHANGED <<gone, proc, server, stage, stages, groups, semVars, joined,
                 ioVars, fr, irqEn, netVars>>

\* The framer replied: the interrupt server, the staging buffer (may fail, or
\* be left from before) and the interrupt.
OpenFinish(o) ==
  /\ op[o] = "opening" /\ fr[proc].pc \notin {"none", "start"}
  /\ server' = TRUE
  /\ \/ stage # 0 /\ UNCHANGED <<stage, stages>>
     \/ stage = 0 /\ UNCHANGED <<stage, stages>>
     \/ stage = 0 /\ stage' = stages + 1 /\ stages' = stages + 1
  /\ irqEn' = TRUE
  /\ op' = [op EXCEPT ![o] = "open"]
  /\ delexp' = FALSE
  /\ UNCHANGED <<openCnt, gone, proc, groups, semVars, joined, ioVars, fr, netVars>>

\* No memory for the interrupt: the framer is told to quit and waited for.
OpenUndo(o) ==
  /\ op[o] = "opening" /\ fr[proc].pc \notin {"none", "start"}
  /\ fr' = [fr EXCEPT ![proc].sigC = TRUE]
  /\ Obtain(o)
  /\ op' = [op EXCEPT ![o] = "failing"]
  /\ UNCHANGED <<libVars, proc, server, stage, stages, groups, joined, ioVars,
                 irqEn, netVars>>

OpenUndone(o) ==
  /\ op[o] = "failing" /\ o \in granted
  /\ Release({o})
  /\ openCnt' = openCnt - 1
  /\ op' = [op EXCEPT ![o] = "closed"]
  /\ UNCHANGED <<delexp, gone, proc, server, stage, stages, groups, joined,
                 ioVars, fr, irqEn, netVars>>

-----------------------------------------------------------------------------
(* DevClose and DevExpunge.                                                *)

\* Disables the interrupt for everyone, as drivers before multi-open did.
CloseNotLastIrqOff(o) ==
  /\ MayEnter /\ op[o] = "open" /\ openCnt > 1
  /\ io[o] \in {"none", "done"}
  /\ openCnt' = openCnt - 1
  /\ irqEn' = FALSE /\ server' = FALSE
  /\ op' = [op EXCEPT ![o] = "closed"] /\ joined' = joined \ {o}
  /\ UNCHANGED <<delexp, gone, proc, stage, stages, groups, semVars, ioVars, fr,
                 netVars>>

\* Frees the staging buffer on every close.
CloseNotLastFree(o) ==
  /\ MayEnter /\ op[o] = "open" /\ openCnt > 1
  /\ io[o] \in {"none", "done"}
  /\ openCnt' = openCnt - 1 /\ stage' = 0
  /\ op' = [op EXCEPT ![o] = "closed"] /\ joined' = joined \ {o}
  /\ UNCHANGED <<delexp, gone, proc, server, stages, groups, semVars,
                 ioVars, fr, irqEn, netVars>>

\* A close that leaves other openers.  A client closes only when its read has
\* come back (the SANA-II contract).
CloseNotLast(o) ==
  /\ MayEnter /\ op[o] = "open" /\ openCnt > 1
  /\ io[o] \in {"none", "done"}
  /\ openCnt' = openCnt - 1
  /\ op' = [op EXCEPT ![o] = "closed"] /\ joined' = joined \ {o}
  /\ UNCHANGED <<delexp, gone, proc, server, stage, stages, groups, semVars,
                 ioVars, fr, irqEn, netVars>>

\* The last close, up to ObtainSemaphore: no interrupt, no server, and
\* CTRL_C to the framer.
CloseLast(o) ==
  /\ MayEnter /\ op[o] = "open" /\ openCnt = 1
  /\ io[o] \in {"none", "done"}
  /\ openCnt' = 0
  /\ irqEn' = FALSE /\ server' = FALSE
  /\ fr' = [fr EXCEPT ![proc].sigC = TRUE]
  /\ proc' = NoProc
  /\ Obtain(o)
  /\ op' = [op EXCEPT ![o] = "closing"] /\ joined' = joined \ {o}
  /\ UNCHANGED <<delexp, gone, stage, stages, groups, ioVars, netVars>>

\* DevExpunge: refused while open, and while the card still owns TX slots
\* (NetTx!DrainDone).
DevExpunge(drained) ==
  IF openCnt' # 0 \/ ~drained THEN delexp' = TRUE /\ UNCHANGED gone
                              ELSE gone' = TRUE /\ UNCHANGED delexp

\* The framer is gone: the group table, the staging buffer, and the expunge
\* that was put off.
CloseFinish(o) ==
  /\ op[o] = "closing" /\ o \in granted
  /\ Release({o})
  /\ groups' = FALSE /\ stage' = 0
  /\ op' = [op EXCEPT ![o] = "closed"]
  /\ UNCHANGED openCnt
  /\ IF delexp THEN \E drained \in BOOLEAN : DevExpunge(drained)
               ELSE UNCHANGED <<delexp, gone>>
  /\ UNCHANGED <<proc, server, stages, joined, ioVars, fr, irqEn, netVars>>

\* Exec needs memory.
Expunge ==
  /\ MayEnter
  /\ UNCHANGED openCnt
  /\ \E drained \in BOOLEAN : DevExpunge(drained)
  /\ UNCHANGED <<proc, server, stage, stages, groups, semVars, op, joined,
                 ioVars, fr, irqEn, netVars>>

-----------------------------------------------------------------------------
(* DevBeginIO and DevAbortIO; db_ReadListSem makes each list access one step. *)

CmdRead(o) ==
  /\ op[o] = "open" /\ io[o] \in {"none", "done"} /\ sent[o] < MaxReads
  /\ readList' = <<o>> \o readList
  /\ io' = [io EXCEPT ![o] = "pending"]
  /\ sent' = [sent EXCEPT ![o] = @ + 1]
  /\ UNCHANGED <<libVars, proc, server, stage, stages, groups, semVars, op,
                 joined, replied, fr, irqEn, netVars>>

\* S2_ADDMULTICASTADDRESS (the table itself is NetMcast)
AddMulticast(o) ==
  /\ op[o] = "open" /\ o \notin joined
  /\ groups' = TRUE /\ joined' = joined \cup {o}
  /\ UNCHANGED <<libVars, proc, server, stage, stages, semVars, op, ioVars, fr,
                 irqEn, netVars>>

Places(o) == {i \in 1..Len(readList) : readList[i] = o}

\* Remove of the node at place i.
Without(i) == [j \in 1..(Len(readList) - 1) |-> readList[IF j < i THEN j ELSE j + 1]]

\* Replies without looking for the request in the list.
DevAbortIOUnchecked(o) ==
  /\ op[o] = "open" /\ io[o] = "pending"
  /\ IF Places(o) = {} THEN UNCHANGED readList
                       ELSE \E i \in Places(o) : readList' = Without(i)
  /\ io' = [io EXCEPT ![o] = "done"]
  /\ replied' = [replied EXCEPT ![o] = @ + 1]
  /\ UNCHANGED <<libVars, proc, server, stage, stages, groups, semVars, op,
                 joined, sent, fr, irqEn, netVars>>

\* Removes and replies to a read that is still on the list; one the framer has
\* taken is not abortable.
DevAbortIO(o) ==
  /\ op[o] = "open" /\ io[o] = "pending"
  /\ \E i \in Places(o) : readList' = Without(i)
  /\ io' = [io EXCEPT ![o] = "done"]
  /\ replied' = [replied EXCEPT ![o] = @ + 1]
  /\ UNCHANGED <<libVars, proc, server, stage, stages, groups, semVars, op,
                 joined, sent, fr, irqEn, netVars>>

-----------------------------------------------------------------------------
(* The interrupt server, the card and the framer.                          *)

FrameArrives ==
  /\ frames < MaxFrames
  /\ frames' = frames + 1 /\ backlog' = backlog + 1
  /\ UNCHANGED <<libVars, proc, server, stage, stages, groups, semVars, op,
                 joined, ioVars, fr, irqEn>>

dev_isr ==
  /\ server /\ irqEn /\ backlog > 0
  /\ irqEn' = FALSE
  /\ fr' = IF proc # NoProc THEN [fr EXCEPT ![proc].sigF = TRUE] ELSE fr
  /\ UNCHANGED <<libVars, proc, server, stage, stages, groups, semVars, op,
                 joined, ioVars, netVars>>

\* The handshake of frame_proc: it owns db_ProcExitSem before it replies.
FramerStart(f) ==
  /\ fr[f].pc = "start" /\ Free
  /\ exitSem' = [exitSem EXCEPT !.owner = f]
  /\ fr' = [fr EXCEPT ![f].pc = "sleep"]
  /\ UNCHANGED <<libVars, granted, proc, server, stage, stages, groups, op, joined,
                 ioVars, irqEn, netVars>>

\* Wait returns: CTRL_C ends the loop, CTRL_F starts a drain.
FramerWake(f) ==
  /\ fr[f].pc = "sleep" /\ (fr[f].sigC \/ fr[f].sigF)
  /\ fr' = [fr EXCEPT ![f].pc = IF fr[f].sigC THEN "exit" ELSE "drain",
                      ![f].sigC = FALSE, ![f].sigF = FALSE]
  /\ UNCHANGED <<libVars, proc, server, stage, stages, groups, semVars, op,
                 joined, ioVars, irqEn, netVars>>

\* The first request on the list for a packet type.
Matches(t) == {i \in 1..Len(readList) : PacketType[readList[i]] = t}
FirstOf(t) == CHOOSE i \in Matches(t) : \A j \in Matches(t) : i <= j

\* A frame with a matching reader: the request leaves the list.
FramerTake(f) ==
  /\ fr[f].pc = "drain" /\ backlog > 0
  /\ \E t \in Types :
       /\ Matches(t) # {}
       /\ readList' = Without(FirstOf(t))
       /\ fr' = [fr EXCEPT ![f].pc = "copy", ![f].req = readList[FirstOf(t)],
                           ![f].staged = stage]
  /\ UNCHANGED <<libVars, proc, server, stage, stages, groups, semVars, op,
                 joined, io, sent, replied, irqEn, netVars>>

\* A frame without a reader, or that the multicast filter rejects, is acked.
FramerSkip(f) ==
  /\ fr[f].pc = "drain" /\ backlog > 0
  /\ backlog' = backlog - 1
  /\ UNCHANGED <<libVars, proc, server, stage, stages, groups, semVars, op,
                 joined, ioVars, fr, irqEn, frames>>

\* read_frame is over, well or badly: reply and ack.
FramerReply(f) ==
  /\ fr[f].pc = "copy"
  /\ io' = [io EXCEPT ![fr[f].req] = "done"]
  /\ replied' = [replied EXCEPT ![fr[f].req] = @ + 1]
  /\ backlog' = IF backlog > 0 THEN backlog - 1 ELSE 0
  /\ fr' = [fr EXCEPT ![f].pc = "drain", ![f].req = NoOne, ![f].staged = 0]
  /\ UNCHANGED <<libVars, proc, server, stage, stages, groups, semVars, op,
                 joined, readList, sent, irqEn, frames>>

\* An empty slot was read; frames may land before the interrupt is enabled.
FramerEmpty(f) ==
  /\ fr[f].pc = "drain" /\ backlog = 0
  /\ fr' = [fr EXCEPT ![f].pc = "rearm"]
  /\ UNCHANGED <<libVars, proc, server, stage, stages, groups, semVars, op,
                 joined, ioVars, irqEn, netVars>>

FramerRearm(f) ==
  /\ fr[f].pc = "rearm"
  /\ irqEn' = TRUE
  /\ fr' = [fr EXCEPT ![f].pc = "sleep"]
  /\ UNCHANGED <<libVars, proc, server, stage, stages, groups, semVars, op,
                 joined, ioVars, netVars>>

\* Leaves the interrupt as the last rearm left it.
FramerExitIrqOn(f) ==
  /\ fr[f].pc = "exit"
  /\ Release({})
  /\ fr' = [fr EXCEPT ![f].pc = "dead"]
  /\ UNCHANGED <<libVars, proc, server, stage, stages, groups, op, joined,
                 ioVars, irqEn, netVars>>

\* Ends without releasing db_ProcExitSem.
FramerExitHeld(f) ==
  /\ fr[f].pc = "exit"
  /\ irqEn' = FALSE
  /\ fr' = [fr EXCEPT ![f].pc = "dead"]
  /\ UNCHANGED <<libVars, proc, server, stage, stages, groups, semVars, op,
                 joined, ioVars, netVars>>

\* The interrupt off, then the semaphore released as the process ends.
FramerExit(f) ==
  /\ fr[f].pc = "exit"
  /\ irqEn' = FALSE
  /\ Release({})
  /\ fr' = [fr EXCEPT ![f].pc = "dead"]
  /\ UNCHANGED <<libVars, proc, server, stage, stages, groups, op, joined,
                 ioVars, netVars>>

-----------------------------------------------------------------------------
Init ==
  /\ openCnt = 0 /\ delexp = FALSE /\ gone = FALSE
  /\ proc = NoProc /\ server = FALSE /\ stage = 0 /\ stages = 0 /\ groups = FALSE
  /\ readList = <<>> /\ exitSem = InitSemaphore /\ granted = {}
  /\ op = [o \in Openers |-> "closed"] /\ joined = {}
  /\ io = [o \in Openers |-> "none"]
  /\ sent = [o \in Openers |-> 0] /\ replied = [o \in Openers |-> 0]
  /\ fr = [f \in Framers |-> [pc |-> "none", sigC |-> FALSE, sigF |-> FALSE,
                              req |-> NoOne, staged |-> 0]]
  /\ irqEn = FALSE /\ backlog = 0 /\ frames = 0

FramerStep(f) ==
  \/ FramerStart(f) \/ FramerWake(f) \/ FramerTake(f) \/ FramerSkip(f)
  \/ FramerReply(f) \/ FramerEmpty(f) \/ FramerRearm(f) \/ FramerExit(f)

\* The rest of a call, once its wait is over.
CallReturns(o) == OpenFinish(o) \/ OpenUndo(o) \/ OpenUndone(o) \/ CloseFinish(o)

Next ==
  \/ \E o \in Openers :
       \/ OpenFirst(o) \/ OpenFails(o) \/ OpenSecond(o) \/ CallReturns(o)
       \/ CloseNotLast(o) \/ CloseLast(o)
       \/ CmdRead(o) \/ AddMulticast(o) \/ DevAbortIO(o)
  \/ Expunge \/ FrameArrives \/ dev_isr
  \/ \E f \in Framers : FramerStep(f)

Spec == Init /\ [][Next]_vars

\* Tasks that can run do: the framer, and a caller whose wait is over.
Fairness ==
  /\ WF_vars(dev_isr)
  /\ \A f \in Framers : WF_vars(FramerStep(f))
  /\ \A o \in Openers : WF_vars(CallReturns(o))

FairSpec == Spec /\ Fairness

-----------------------------------------------------------------------------
FramerType ==
  [pc : {"none", "start", "sleep", "drain", "copy", "rearm", "exit", "dead"},
   sigC : BOOLEAN, sigF : BOOLEAN, req : Openers \cup {NoOne}, staged : Nat]

\* The device base, the framers and the requests have their types; the open
\* count never exceeds the number of openers.
TypeOK ==
  /\ openCnt \in 0..Cardinality(Openers) /\ delexp \in BOOLEAN /\ gone \in BOOLEAN
  /\ proc \in Framers \cup {NoProc} /\ server \in BOOLEAN /\ irqEn \in BOOLEAN
  /\ stages \in Nat /\ stage \in 0..stages /\ groups \in BOOLEAN
  /\ readList \in Seq(Openers)
  /\ exitSem \in [owner : Openers \cup Framers \cup {NoOne}, wait : Seq(Openers)]
  /\ granted \subseteq Openers /\ joined \subseteq Openers
  /\ op \in [Openers -> {"closed", "opening", "failing", "open", "closing"}]
  /\ io \in [Openers -> {"none", "pending", "done"}]
  /\ sent \in [Openers -> Nat] /\ replied \in [Openers -> Nat]
  /\ fr \in [Framers -> FramerType] /\ backlog \in Nat /\ frames \in Nat

Alive(f) == fr[f].pc \notin {"none", "dead"}

\* As long as anyone has the device open the receive path is up: one framer,
\* it is the one the interrupt server signals, a frame that waits can still
\* wake it (the interrupt is armed or the framer is not idle), and the groups
\* an opener joined are in the filter.  Other openers' closes and failed opens
\* must not disturb this.
SessionUp ==
  \A o \in Openers : op[o] = "open" =>
    /\ server /\ proc # NoProc /\ Alive(proc)
    /\ \A f \in Framers : Alive(f) => f = proc
    /\ irqEn \/ fr[proc].sigF \/ fr[proc].pc # "sleep"
    /\ o \in joined => groups

\* Nobody inside and nobody open: the framer is gone, the interrupt is off and
\* unserved, nothing is left allocated.  The base is freed in no other state.
QuietWhenClosed ==
  (\A o \in Openers : op[o] = "closed") \/ gone =>
    /\ \A o \in Openers : op[o] = "closed"
    /\ \A f \in Framers : ~Alive(f)
    /\ ~irqEn /\ ~server /\ stage = 0 /\ ~groups /\ openCnt = 0

\* Every read is replied to once: pending requests are on the list or in the
\* framer's hands, exactly one of the two, and all others have been replied to.
ReplyOnce ==
  \A o \in Openers :
    LET places == Cardinality(Places(o))
                  + Cardinality({f \in Framers : fr[f].req = o})
    IN  /\ places = IF io[o] = "pending" THEN 1 ELSE 0
        /\ sent[o] = replied[o] + places

\* DevClose: the staging buffer "is freed only after the worker process has
\* exited above", which "guarantees no read_frame can still be in flight
\* referencing db_RxStage".
StageNotFreedInUse == \A f \in Framers : fr[f].staged # 0 => stage = fr[f].staged

\* DevOpen and DevClose come back: nobody waits for a framer that does not
\* answer or does not end (traffic permitting, see MaxFrames).
CallsReturn == \A o \in Openers : InCall(o) ~> ~InCall(o)
=============================================================================
