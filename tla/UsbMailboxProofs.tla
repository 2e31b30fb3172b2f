-------------------------- MODULE UsbMailboxProofs --------------------------
(***************************************************************************)
(* The USB proxy mailboxes are fenced and recovery overwrites neither, for *)
(* flushes of any length, any number of waits interrupted by realtime ISO, *)
(* every mix of requests and polls, and a firmware that answers late, out  *)
(* of order or never.                                                      *)
(***************************************************************************)
EXTENDS UsbMailbox, TLAPS

-----------------------------------------------------------------------------
(* The inductive invariant.                                                *)

\* Where a task is without zz_Lock.
Unlocked == {"idle", "mbox", "zz", "sweep", "work", "finish", "poll"}

\* zz_Lock is with the task that runs the code between its ObtainSemaphore and
\* its ReleaseSemaphore.
Locks == \A t \in Tasks : pc[t] \notin Unlocked => zz = t

\* A wait a task will come back to is named in cont or after only while the
\* task serves realtime ISO or takes zz_Lock again.
Where ==
  \A t \in Tasks :
    /\ cont[t] \in Waits => pc[t] = "zz"
    /\ after[t] \in Waits => \/ pc[t] \in {"rtpoll", "rtside", "rtprim"}
                             \/ pc[t] = "zz" /\ cont[t] = "rtpoll"

\* QUERY_CAPS is sent on the sideband only once the primary mailbox is terminal,
\* and nothing is posted there meanwhile.
QueryOver == \A t \in Tasks : pc[t] = "qside" => prim.st # "pending"

\* A task that takes zz_Lock or serves realtime ISO knows where to go on.
Returns ==
  \A t \in Tasks :
    /\ pc[t] \in {"mbox", "zz"} => cont[t] # None
    /\ pc[t] = "mbox" => cont[t] # "rtpoll"
    /\ pc[t] \in {"rtpoll", "rtstop", "rtside", "rtprim"} => after[t] # None
    /\ pc[t] = "zz" /\ cont[t] = "rtpoll" => after[t] # None

IInv == TypeOK /\ Locks /\ Where /\ Returns /\ QueryOver /\ MailboxFenced

-----------------------------------------------------------------------------
(* Types.                                                                  *)

\* One task's entry of a function is set.
LEMMA SetEntry ==
  ASSUME NEW S, NEW f \in [Tasks -> S], NEW t \in Tasks, NEW v \in S
  PROVE  /\ Set(f, t, v) \in [Tasks -> S]
         /\ \A u \in Tasks : Set(f, t, v)[u] = IF u = t THEN v ELSE f[u]
BY DEF Set

\* The end of a command on the primary mailbox.
LEMMA ReturnType ==
  ASSUME FlagTypeOK, CallTypeOK, NEW t \in Tasks, NEW r \in Statuses, Return(t, r)
  PROVE  /\ ret' \in [Tasks -> Statuses] /\ left' \in [Tasks -> 0..MaxServe]
         /\ pc' \in [Tasks -> Places]
         /\ fg' \in Tasks \cup {None} /\ mbox' \in Tasks \cup {None}
<1>1. 0 \in 0..MaxServe /\ "done" \in Places
  BY SizesAssumption DEF Places
<1>2. ret' \in [Tasks -> Statuses] /\ left' \in [Tasks -> 0..MaxServe] /\ pc' \in [Tasks -> Places]
  BY <1>1, SetEntry DEF Return, CallTypeOK
<1>3. fg' \in Tasks \cup {None} /\ mbox' \in Tasks \cup {None}
  BY DEF Return, FlagTypeOK
<1> QED  BY <1>2, <1>3

\* A command is written to the primary mailbox.
LEMMA PostType ==
  ASSUME WireTypeOK, NEW id \in Ids, Post(id)
  PROVE  prim' \in [st : {"pending", "done"}, by : Ids] /\ run' \subseteq Ids
BY DEF WireTypeOK, Post

\* A command is sent, or refused over a quarantine.
LEMMA SendType ==
  ASSUME TypeOK, NEW t \in Tasks, NEW f \in BOOLEAN, Send(t, f)
  PROVE  /\ ret' \in [Tasks -> Statuses] /\ left' \in [Tasks -> 0..MaxServe]
         /\ pc' \in [Tasks -> Places]
         /\ fg' \in Tasks \cup {None} /\ mbox' \in Tasks \cup {None}
         /\ prim' \in [st : {"pending", "done"}, by : Ids] /\ run' \subseteq Ids
<1>1. CASE q
  <2>1. Return(t, "err") /\ UNCHANGED <<prim, run>> /\ "err" \in Statuses
    BY <1>1 DEF Send, Statuses
  <2> QED  BY <2>1, ReturnType DEF TypeOK, WireTypeOK
<1>2. CASE ~q
  <2>1. /\ Post(t) /\ fg' = (IF f THEN t ELSE fg) /\ pc' = Set(pc, t, "wait")
        /\ left' = Set(left, t, MaxServe) /\ ret' = Set(ret, t, "ok") /\ mbox' = mbox
    BY <1>2 DEF Send
  <2>2. t \in Ids /\ "wait" \in Places /\ "ok" \in Statuses
    BY DEF Ids, Places, Statuses
  <2>0. MaxServe \in 0..MaxServe
    BY SizesAssumption
  <2>3. prim' \in [st : {"pending", "done"}, by : Ids] /\ run' \subseteq Ids
    BY <2>1, <2>2, PostType DEF TypeOK
  <2>4. ret' \in [Tasks -> Statuses] /\ left' \in [Tasks -> 0..MaxServe] /\ pc' \in [Tasks -> Places]
    BY <2>0, <2>1, <2>2, SetEntry DEF TypeOK, CallTypeOK
  <2> QED  BY <2>1, <2>3, <2>4 DEF TypeOK, FlagTypeOK
<1> QED  BY <1>1, <1>2

\* The call of poll_rt_iso is over.
LEMMA RtDoneType ==
  ASSUME FlagTypeOK, CallTypeOK, NEW t \in Tasks, after[t] # None, RtDone(t)
  PROVE  /\ after' \in [Tasks -> Afters \cup {None}] /\ cont' \in [Tasks -> Conts \cup {None}]
         /\ pc' \in [Tasks -> Places] /\ zz' \in Tasks \cup {None}
<1>1. after[t] \in Afters /\ {"work", "mbox", "zz", "unlock", "recover"} \subseteq Places
      /\ "rtwait" \in Conts
  BY DEF CallTypeOK, Places, Conts
<1>2. after' \in [Tasks -> Afters \cup {None}]
  BY SetEntry DEF RtDone, CallTypeOK
<1>3. CASE after[t] \in {"unlock", "recover"}
  <2>1. pc' = Set(pc, t, after[t]) /\ UNCHANGED <<zz, cont>>
    BY <1>3 DEF RtDone
  <2> QED  BY <1>1, <1>2, <1>3, <2>1, SetEntry DEF FlagTypeOK, CallTypeOK
<1>4. CASE after[t] = "work"
  <2>1. pc' = Set(pc, t, "work") /\ zz' = None /\ cont' = cont
    BY <1>4 DEF RtDone
  <2> QED  BY <1>1, <1>2, <2>1, SetEntry DEF FlagTypeOK, CallTypeOK
<1>5. CASE after[t] = "mbox"
  <2>1. pc' = Set(pc, t, "mbox") /\ zz' = None /\ cont' = Set(cont, t, "rtwait")
    BY <1>5 DEF RtDone
  <2> QED  BY <1>1, <1>2, <2>1, SetEntry DEF FlagTypeOK, CallTypeOK
<1>6. CASE after[t] \notin {"unlock", "recover", "work", "mbox"}
  <2>1. pc' = Set(pc, t, "zz") /\ zz' = None /\ cont' = Set(cont, t, after[t])
    BY <1>6 DEF RtDone, GoZZ
  <2>2. after[t] \in Conts
    BY <1>1, <1>6 DEF Afters, Conts
  <2> QED  BY <1>1, <1>2, <2>1, <2>2, SetEntry DEF FlagTypeOK, CallTypeOK
<1> QED  BY <1>3, <1>4, <1>5, <1>6

-----------------------------------------------------------------------------
(* What a step of one task may do.                                         *)

\* Only task t moves.
Alone(t) ==
  \A u \in Tasks \ {t} : pc'[u] = pc[u] /\ cont'[u] = cont[u] /\ after'[u] = after[u]

\* What Where and Returns say of one task.
WhereOf(t) ==
  /\ cont[t] \in Waits => pc[t] = "zz"
  /\ after[t] \in Waits => \/ pc[t] \in {"rtpoll", "rtside", "rtprim"}
                           \/ pc[t] = "zz" /\ cont[t] = "rtpoll"

ReturnsOf(t) ==
  /\ pc[t] \in {"mbox", "zz"} => cont[t] # None
  /\ pc[t] = "mbox" => cont[t] # "rtpoll"
  /\ pc[t] \in {"rtpoll", "rtstop", "rtside", "rtprim"} => after[t] # None
  /\ pc[t] = "zz" /\ cont[t] = "rtpoll" => after[t] # None

\* A step of task t keeps zz_Lock: it has it where it needs it, and takes it
\* from nobody.
LEMMA LocksKept ==
  ASSUME Locks, NEW t \in Tasks, Alone(t),
         pc'[t] \notin Unlocked => zz' = t,
         zz' = zz \/ zz \in {t, None}
  PROVE  Locks'
<1>1. None \notin Tasks
  BY DEF Tasks, Worker, Flusher, None
<1> SUFFICES ASSUME NEW u \in Tasks, pc'[u] \notin Unlocked
             PROVE  zz' = u
  BY DEF Locks
<1>2. CASE u = t  BY <1>2
<1>3. CASE u # t
  <2>1. zz = u  BY <1>3 DEF Alone, Locks
  <2> QED  BY <1>1, <1>3, <2>1
<1> QED  BY <1>2, <1>3

\* A step of task t leaves the other task's way back as it is.
LEMMA WaysKept ==
  ASSUME Where, Returns, NEW t \in Tasks, Alone(t), WhereOf(t)', ReturnsOf(t)'
  PROVE  Where' /\ Returns'
<1>1. \A u \in Tasks \ {t} : pc'[u] = pc[u] /\ cont'[u] = cont[u] /\ after'[u] = after[u]
  BY DEF Alone
<1>2. Where'
  BY <1>1 DEF Where, WhereOf
<1>3. Returns'
  BY <1>1 DEF Returns, ReturnsOf
<1> QED  BY <1>2, <1>3

\* A step of task t during which the query of the other task is out posts
\* nothing, for that task has zz_Lock.
LEMMA QueryKept ==
  ASSUME Locks, QueryOver, NEW t \in Tasks, Alone(t),
         pc'[t] = "qside" => prim'.st # "pending",
         prim'.st = "pending" => prim.st = "pending" \/ zz = t
  PROVE  QueryOver'
<1> SUFFICES ASSUME NEW u \in Tasks, pc'[u] = "qside"  PROVE  prim'.st # "pending"
  BY DEF QueryOver
<1>1. CASE u = t  BY <1>1
<1>2. CASE u # t
  <2>1. pc[u] = "qside"
    BY <1>2 DEF Alone
  <2>2. zz = u
    BY <2>1 DEF Locks, Unlocked
  <2> QED  BY <1>2, <2>1, <2>2 DEF QueryOver
<1> QED  BY <1>1, <1>2

\* A step of task t keeps the fence of the primary mailbox: a pending command
\* is quarantined, awaited by t, or was there before and never t's to await.
LEMMA PrimaryKept ==
  ASSUME MailboxFenced, NEW t \in Tasks, Alone(t),
         prim'.st = "pending" => \/ q' \/ Awaits(t)'
                                 \/ prim.st = "pending" /\ ~Awaits(t) /\ (q => q')
  PROVE  prim'.st = "pending" => q' \/ \E u \in Tasks : Awaits(u)'
<1> SUFFICES ASSUME prim.st = "pending", ~Awaits(t), q => q', ~q'
             PROVE  \E u \in Tasks : Awaits(u)'
  OBVIOUS
<1>1. PICK u \in Tasks : Awaits(u)
  BY DEF MailboxFenced
<1>2. u # t
  BY <1>1
<1>3. pc'[u] = pc[u] /\ cont'[u] = cont[u] /\ after'[u] = after[u]
  BY <1>2 DEF Alone
<1>4. Awaits(u)'
  BY <1>1, <1>3 DEF Awaits
<1> QED  BY <1>4

\* The same of the maintenance mailbox.
LEMMA SidebandKept ==
  ASSUME MailboxFenced, NEW t \in Tasks, Alone(t),
         side' = "pending" => \/ mq' \/ pc'[t] \in {"rtside", "qside"}
                              \/ /\ side = "pending" /\ pc[t] \notin {"rtside", "qside"}
                                 /\ mq => mq'
  PROVE  side' = "pending" => mq' \/ \E u \in Tasks : pc'[u] \in {"rtside", "qside"}
<1> SUFFICES ASSUME side = "pending", pc[t] \notin {"rtside", "qside"}, mq => mq', ~mq'
             PROVE  \E u \in Tasks : pc'[u] \in {"rtside", "qside"}
  OBVIOUS
<1>1. PICK u \in Tasks : pc[u] \in {"rtside", "qside"}
  BY DEF MailboxFenced
<1>2. pc'[u] = pc[u]
  BY <1>1 DEF Alone
<1> QED  BY <1>1, <1>2

\* Together: a step of task t keeps the invariant.
LEMMA StepKept ==
  ASSUME IInv, NEW t \in Tasks, Alone(t), TypeOK', WhereOf(t)', ReturnsOf(t)',
         pc'[t] \notin Unlocked => zz' = t,
         zz' = zz \/ zz \in {t, None},
         pc'[t] = "qside" => prim'.st # "pending",
         prim'.st = "pending" => prim.st = "pending" \/ zz = t,
         prim'.st = "pending" => \/ q' \/ Awaits(t)'
                                 \/ prim.st = "pending" /\ ~Awaits(t) /\ (q => q'),
         side' = "pending" => \/ mq' \/ pc'[t] \in {"rtside", "qside"}
                              \/ /\ side = "pending" /\ pc[t] \notin {"rtside", "qside"}
                                 /\ mq => mq'
  PROVE  IInv'
<1>1. Locks'  BY LocksKept DEF IInv
<1>2. Where' /\ Returns'  BY WaysKept DEF IInv
<1>3. QueryOver'  BY QueryKept DEF IInv
<1>4. MailboxFenced'
  BY PrimaryKept, SidebandKept DEF IInv, MailboxFenced
<1> QED  BY <1>1, <1>2, <1>3, <1>4 DEF IInv

\* A task at none of these places waits for no answer.
Busy == Waits \cup {"zz", "rtpoll", "rtside", "rtprim", "qside"}

\* A task elsewhere comes back to no wait.
LEMMA NotAwaiting ==
  ASSUME Where, NEW t \in Tasks, pc[t] \notin Busy
  PROVE  cont[t] \notin Waits /\ after[t] \notin Waits /\ ~Awaits(t)
BY DEF Where, Awaits, Busy, Waits

\* A step of task t that has to do with neither mailbox.
LEMMA PlainKept ==
  ASSUME IInv, NEW t \in Tasks, Alone(t), TypeOK', pc[t] \notin Busy,
         pc'[t] \notin Busy \ {"zz", "rtpoll"},
         cont'[t] = cont[t] \/ cont'[t] \notin Waits,
         after'[t] = after[t] \/ after'[t] \notin Waits,
         ReturnsOf(t)',
         pc'[t] \notin Unlocked => zz' = t,
         zz' = zz \/ zz \in {t, None},
         UNCHANGED <<prim, side, mq>>, q => q'
  PROVE  IInv'
<1>1. cont[t] \notin Waits /\ after[t] \notin Waits /\ ~Awaits(t)
  BY NotAwaiting DEF IInv
<1>2. WhereOf(t)'
  BY <1>1 DEF WhereOf
<1>3. pc[t] \notin {"rtside", "qside"} /\ pc'[t] # "qside"
  BY DEF Busy
<1> QED  BY <1>1, <1>2, <1>3, StepKept

\* Types of what a step leaves alone.
LEMMA SameTypes ==
  ASSUME TypeOK
  PROVE  /\ UNCHANGED wireVars => WireTypeOK'
         /\ UNCHANGED <<protoVars, lockVars, fg, rt, workVars>> => FlagTypeOK'
         /\ UNCHANGED <<pc, callVars>> => CallTypeOK'
<1>1. UNCHANGED wireVars => WireTypeOK'
  BY DEF TypeOK, WireTypeOK, wireVars
<1>2. UNCHANGED <<protoVars, lockVars, fg, rt, workVars>> => FlagTypeOK'
  BY DEF TypeOK, FlagTypeOK, protoVars, lockVars, workVars
<1>3. UNCHANGED <<pc, callVars>> => CallTypeOK'
  BY DEF TypeOK, CallTypeOK, callVars
<1> QED  BY <1>1, <1>2, <1>3

\* g is f with the entry of t set to v, or left alone where it is v.
Sets(f, g, t, v) == g = Set(f, t, v) \/ (v = f[t] /\ g = f)

\* A task moves, and what it comes back to is set or left alone.
LEMMA Moves ==
  ASSUME CallTypeOK, NEW t \in Tasks, NEW p \in Places, pc' = Set(pc, t, p),
         NEW c \in Conts \cup {None}, Sets(cont, cont', t, c),
         NEW a \in Afters \cup {None}, Sets(after, after', t, a)
  PROVE  /\ pc' \in [Tasks -> Places] /\ pc'[t] = p
         /\ cont' \in [Tasks -> Conts \cup {None}] /\ cont'[t] = c
         /\ after' \in [Tasks -> Afters \cup {None}] /\ after'[t] = a
         /\ Alone(t)
<1>1. /\ pc' \in [Tasks -> Places] /\ pc'[t] = p
      /\ \A u \in Tasks \ {t} : pc'[u] = pc[u]
  BY DEF CallTypeOK, Set, Sets
<1>2. /\ cont' \in [Tasks -> Conts \cup {None}] /\ cont'[t] = c
      /\ \A u \in Tasks \ {t} : cont'[u] = cont[u]
  BY DEF CallTypeOK, Set, Sets
<1>3. /\ after' \in [Tasks -> Afters \cup {None}] /\ after'[t] = a
      /\ \A u \in Tasks \ {t} : after'[u] = after[u]
  BY DEF CallTypeOK, Set, Sets
<1> QED  BY <1>1, <1>2, <1>3 DEF Alone

\* A task moves and comes back to what it came back to before.
LEMMA OnlyMoves ==
  ASSUME CallTypeOK, NEW t \in Tasks, NEW p \in Places, pc' = Set(pc, t, p),
         UNCHANGED <<cont, after>>
  PROVE  /\ pc' \in [Tasks -> Places] /\ pc'[t] = p
         /\ cont' \in [Tasks -> Conts \cup {None}] /\ cont'[t] = cont[t]
         /\ after' \in [Tasks -> Afters \cup {None}] /\ after'[t] = after[t]
         /\ Alone(t)
<1>1. cont[t] \in Conts \cup {None} /\ after[t] \in Afters \cup {None}
  BY DEF CallTypeOK
<1> QED  BY <1>1, Moves DEF Sets

\* Names of tasks, places, jobs and statuses.
LEMMA Names ==
  /\ Worker \in Tasks /\ Flusher \in Tasks
  /\ {"idle", "mbox", "zz", "send", "rtwait", "begin", "wait", "drain", "done",
      "rtpoll", "rtstop", "rtside", "rtprim", "recover", "qside", "qwait",
      "sweep", "cleanup", "cleanup2", "work", "reset", "iso", "isoserved",
      "unlock", "finish", "poll", "release", "next"} \subseteq Places
  /\ {"sweep", "sweep2", "cleanup", "iso reap", "iso stop", "check", "stop",
      "periodic stop"} \subseteq Jobs
  /\ Work \subseteq Jobs /\ Polls \subseteq Jobs /\ None \in Jobs
  /\ {"ok", "busy", "err", "stale"} \subseteq Statuses
  /\ 0 \in 0..MaxServe /\ 0 \in 0..NumCmds
  /\ None \notin Tasks /\ None \notin Conts /\ None \notin Afters
<1>1. /\ {"sweep", "sweep2", "cleanup", "iso reap", "iso stop", "check", "stop",
          "periodic stop"} \subseteq Jobs
      /\ Work \subseteq Jobs /\ Polls \subseteq Jobs /\ None \in Jobs
  BY WorkAssumption DEF Jobs, Outer
<1>2. 0 \in 0..MaxServe /\ 0 \in 0..NumCmds
  BY SizesAssumption
<1>3. {"ok", "busy", "err", "stale"} \subseteq Statuses
  BY DEF Statuses
<1>4. Worker \in Tasks /\ Flusher \in Tasks
  BY DEF Tasks
<1>5. None \notin Tasks /\ None \notin Conts /\ None \notin Afters
  BY DEF None, Tasks, Worker, Flusher, Conts, Afters, Waits
<1> QED  BY <1>1, <1>2, <1>3, <1>4, <1>5 DEF Places


\* The other variables of a call.
RestTypeOK ==
  /\ job \in [Tasks -> Jobs] /\ kind \in [Tasks -> {"io", "stop"}]
  /\ ret \in [Tasks -> Statuses]
  /\ left \in [Tasks -> 0..MaxServe] /\ todo \in [Tasks -> 0..NumCmds]

\* A step to place p that sets where the task comes back to and touches
\* neither mailbox.
LEMMA PlainStep ==
  ASSUME IInv, NEW t \in Tasks, pc[t] \notin Busy,
         NEW p \in Places, p \notin Busy \ {"zz", "rtpoll"}, pc' = Set(pc, t, p),
         NEW c \in Conts \cup {None}, c \notin Waits,
         Sets(cont, cont', t, c),
         NEW a \in Afters \cup {None}, a \notin Waits,
         Sets(after, after', t, a),
         p \in {"mbox", "zz"} => c # None,
         p = "mbox" => c # "rtpoll",
         p \in {"rtpoll", "rtstop"} => a # None,
         p = "zz" /\ c = "rtpoll" => a # None,
         p \notin Unlocked => zz' = t,
         zz' = zz \/ zz \in {t, None},
         UNCHANGED wireVars, UNCHANGED mq, q => q',
         FlagTypeOK', RestTypeOK'
  PROVE  IInv'
<1>1. /\ pc' \in [Tasks -> Places] /\ pc'[t] = p
      /\ cont' \in [Tasks -> Conts \cup {None}] /\ cont'[t] = c
      /\ after' \in [Tasks -> Afters \cup {None}] /\ after'[t] = a
      /\ Alone(t)
  <2>1. CallTypeOK
    BY DEF IInv, TypeOK
  <2> QED  BY <2>1, Moves
<1>2. TypeOK'
  <2>1. CallTypeOK'
    BY <1>1 DEF CallTypeOK, RestTypeOK
  <2>2. WireTypeOK'
    BY SameTypes DEF IInv
  <2> QED  BY <2>1, <2>2 DEF TypeOK
<1>3. p \notin {"rtside", "rtprim"}
  BY DEF Busy
<1>4. ReturnsOf(t)'
  BY <1>1, <1>3 DEF ReturnsOf
<1> QED  BY <1>1, <1>2, <1>4, PlainKept DEF wireVars

\* The same of a step that leaves where the task comes back to alone.
LEMMA PlainMove ==
  ASSUME IInv, NEW t \in Tasks, pc[t] \notin Busy,
         NEW p \in Places, p \notin Busy, pc' = Set(pc, t, p), UNCHANGED <<cont, after>>,
         p # "mbox", p = "rtstop" => after[t] # None,
         p \notin Unlocked => zz' = t,
         zz' = zz \/ zz \in {t, None},
         UNCHANGED wireVars, UNCHANGED mq, q => q',
         FlagTypeOK', RestTypeOK'
  PROVE  IInv'
<1>1. cont[t] \in (Conts \cup {None}) \ Waits /\ after[t] \in (Afters \cup {None}) \ Waits
  <2>1. cont[t] \notin Waits /\ after[t] \notin Waits
    BY NotAwaiting DEF IInv
  <2> QED  BY <2>1 DEF IInv, TypeOK, CallTypeOK
<1>2. p \notin {"zz", "rtpoll"}
  BY DEF Busy
<1>3. Sets(cont, cont', t, cont[t]) /\ Sets(after, after', t, after[t])
  BY DEF Sets
<1> QED  BY <1>1, <1>2, <1>3, PlainStep

\* zz_Lock is with a task at a place behind it.
LEMMA HasLock ==
  ASSUME IInv, NEW t \in Tasks, pc[t] \notin Unlocked
  PROVE  zz = t
BY DEF IInv, Locks

\* A task drops zz_Lock to serve the stream and then goes on at a.
LEMMA PlainServe ==
  ASSUME IInv, NEW t \in Tasks, pc[t] \notin Busy, pc[t] \notin Unlocked,
         NEW a \in Afters, a \notin Waits, GoZZ(t, "rtpoll"), after' = Set(after, t, a),
         zz' = None, UNCHANGED wireVars, UNCHANGED mq, q => q',
         FlagTypeOK', RestTypeOK'
  PROVE  IInv'
<1>1. pc' = Set(pc, t, "zz") /\ zz = t
  BY HasLock DEF GoZZ
<1>2. Sets(cont, cont', t, "rtpoll") /\ Sets(after, after', t, a)
  BY DEF GoZZ, Sets
<1>3. "rtpoll" \in Conts \cup {None} /\ "rtpoll" \notin Waits /\ "rtpoll" # None
  BY DEF Conts, Waits, None
<1>4. a \in Afters \cup {None} /\ a # None /\ "zz" \in Places /\ "zz" \in Unlocked
  BY Names DEF Unlocked
<1> QED  BY <1>1, <1>2, <1>3, <1>4, PlainStep

\* A task goes to take a lock and then goes on at c.
LEMMA PlainObtain ==
  ASSUME IInv, NEW t \in Tasks, pc[t] \notin Busy,
         NEW p \in {"mbox", "zz"}, NEW c \in Conts, c \notin Waits, c # "rtpoll",
         pc' = Set(pc, t, p), cont' = Set(cont, t, c), UNCHANGED after,
         UNCHANGED zz, UNCHANGED wireVars, UNCHANGED mq, UNCHANGED q,
         FlagTypeOK', RestTypeOK'
  PROVE  IInv'
<1>1. c \in Conts \cup {None} /\ c # None /\ p \in Places
  BY Names
<1>2. after[t] \in Afters \cup {None} /\ after[t] \notin Waits
  BY NotAwaiting DEF IInv, TypeOK, CallTypeOK
<1>3. p \notin Busy \ {"zz", "rtpoll"} /\ p \in Unlocked /\ p # "rtpoll" /\ p # "rtstop"
  BY DEF Unlocked, Busy, Waits
<1>4. Sets(cont, cont', t, c) /\ Sets(after, after', t, after[t])
  BY DEF Sets
<1> QED  BY <1>1, <1>2, <1>3, <1>4, PlainStep

\* A step that changes only pc and variables of no type of its own.
LEMMA SameRest ==
  ASSUME IInv
  PROVE  /\ UNCHANGED <<job, kind, ret, left, todo>> => RestTypeOK'
         /\ UNCHANGED callVars => RestTypeOK' /\ UNCHANGED <<cont, after>>
BY DEF IInv, TypeOK, CallTypeOK, RestTypeOK, callVars

-----------------------------------------------------------------------------
(* The worker's and the flusher's own steps.                               *)

\* ObtainSemaphore(PrimaryMailboxLock).
LEMMA ObtainMailboxKeeps ==
  ASSUME IInv, NEW t \in Tasks, ObtainMailbox(t)
  PROVE  IInv'
<1>1. /\ pc[t] = "mbox" /\ mbox' = t /\ pc' = Set(pc, t, "zz")
      /\ UNCHANGED <<wireVars, protoVars, zz, fg, rt, workVars, callVars, cont, after>>
  BY DEF ObtainMailbox, callVars
<1>2. FlagTypeOK' /\ RestTypeOK'
  BY <1>1, SameRest DEF IInv, TypeOK, FlagTypeOK, protoVars, workVars
<1>3. cont[t] \in Conts /\ cont[t] \notin Waits /\ cont[t] # "rtpoll" /\ after[t] \notin Waits
  BY <1>1, NotAwaiting DEF IInv, TypeOK, CallTypeOK, Returns, Busy, Waits
<1>4. after[t] \in Afters \cup {None} /\ cont[t] # None
  BY <1>1 DEF IInv, TypeOK, CallTypeOK, Returns
<1>5. pc[t] \notin Busy /\ "zz" \in Unlocked /\ "zz" \in Places
  BY <1>1, Names DEF Busy, Waits, Unlocked
<1>6. Sets(cont, cont', t, cont[t]) /\ Sets(after, after', t, after[t])
  BY <1>1 DEF Sets
<1> QED  BY <1>1, <1>2, <1>3, <1>4, <1>5, <1>6, PlainStep DEF protoVars

\* send_usb_cmd_with_rt_service drops zz_Lock to serve the stream.
LEMMA ServiceFirstKeeps ==
  ASSUME IInv, NEW t \in Tasks, ServiceFirst(t)
  PROVE  IInv'
<1>1. /\ pc[t] = "begin" /\ zz' = None /\ GoZZ(t, "rtpoll") /\ after' = Set(after, t, "mbox")
      /\ UNCHANGED <<wireVars, protoVars, mbox, fg, rt, workVars, job, kind, ret, left, todo>>
  BY DEF ServiceFirst
<1>2. FlagTypeOK' /\ RestTypeOK'
  BY <1>1, SameRest DEF IInv, TypeOK, FlagTypeOK, protoVars, workVars
<1>3. pc[t] \notin Busy /\ pc[t] \notin Unlocked /\ "mbox" \in Afters /\ "mbox" \notin Waits
  BY <1>1 DEF Busy, Waits, Unlocked, Afters
<1> QED  BY <1>1, <1>2, <1>3, PlainServe DEF protoVars

\* The sweep of the poll task starts with recovery.
LEMMA SweepKeeps ==
  ASSUME IInv, Sweep
  PROVE  IInv'
<1>1. /\ pc[Worker] = "sweep" /\ pc' = Set(pc, Worker, "zz") /\ cont' = Set(cont, Worker, "recover")
      /\ job' = Set(job, Worker, "sweep")
      /\ UNCHANGED <<wireVars, protoVars, lockVars, fg, rt, workVars,
                     after, kind, ret, left, todo>>
  BY DEF Sweep, GoZZ
<1>2. FlagTypeOK' /\ RestTypeOK'
  BY <1>1, Names, SetEntry
     DEF IInv, TypeOK, FlagTypeOK, CallTypeOK, RestTypeOK, protoVars, lockVars, workVars
<1>3. "recover" \in Conts /\ "recover" \notin Waits /\ Worker \in Tasks /\ pc[Worker] \notin Busy
  BY <1>1, Names DEF Conts, Waits, Busy
<1> QED  BY <1>1, <1>2, <1>3, PlainObtain DEF protoVars, lockVars

\* The end of poll_simple_iso_cleanup: zz_Lock is dropped for poll_rt_iso.
LEMMA LeaveCleanupKeeps ==
  ASSUME IInv, LeaveCleanup, pc[Worker] \notin Busy, pc[Worker] \notin Unlocked,
         UNCHANGED <<wireVars, mq, kind, left, todo>>, q => q',
         zz' = None => FlagTypeOK'
  PROVE  IInv'
<1>1. /\ zz' = None /\ GoZZ(Worker, "rtpoll") /\ after' = Set(after, Worker, "work")
      /\ job' = Set(job, Worker, None) /\ ret' = Set(ret, Worker, "ok")
  BY DEF LeaveCleanup
<1>2. RestTypeOK'
  BY <1>1, Names, SetEntry DEF IInv, TypeOK, CallTypeOK, RestTypeOK
<1>3. "work" \in Afters /\ "work" \notin Waits /\ Worker \in Tasks
  BY Names DEF Afters, Waits
<1> QED  BY <1>1, <1>2, <1>3, PlainServe

\* poll_simple_iso_cleanup: it leaves, recovers once, or sends its STOP.
LEMMA CleanupKeeps ==
  ASSUME IInv, poll_simple_iso_cleanup
  PROVE  IInv'
<1>1. /\ pc[Worker] \in {"cleanup", "cleanup2"} /\ Worker \in Tasks
      /\ UNCHANGED <<wireVars, protoVars, mbox, fg, rt, workVars, kind, left, todo>>
  BY Names DEF poll_simple_iso_cleanup
<1>2. pc[Worker] \notin Busy /\ pc[Worker] \notin Unlocked
  BY <1>1 DEF Busy, Waits, Unlocked
<1>3. zz = Worker
  BY <1>1, <1>2, HasLock
<1>4. CASE LeaveCleanup
  <2>1. zz' = None => FlagTypeOK'
    BY <1>1 DEF IInv, TypeOK, FlagTypeOK, protoVars, workVars
  <2> QED  BY <1>1, <1>2, <1>3, <1>4, <2>1, LeaveCleanupKeeps DEF protoVars
<1>5. ASSUME NEW j \in {"sweep2", "cleanup"}, NEW p \in {"recover", "send"},
             GoJob(Worker, j, p), UNCHANGED <<zz, cont, after, ret>>
      PROVE  IInv'
  <2>1. job' = Set(job, Worker, j) /\ pc' = Set(pc, Worker, p)
    BY <1>5 DEF GoJob, Go
  <2>2. FlagTypeOK'
    BY <1>1, <1>5 DEF IInv, TypeOK, FlagTypeOK, protoVars, workVars
  <2>3. j \in Jobs /\ p \in Places
    BY Names
  <2>4. RestTypeOK'
    BY <1>1, <1>5, <2>1, <2>3, SetEntry DEF IInv, TypeOK, CallTypeOK, RestTypeOK
  <2>5. p \notin Busy /\ p # "mbox" /\ p # "rtstop"
    BY DEF Busy, Waits
  <2> QED  BY <1>1, <1>2, <1>3, <1>5, <2>1, <2>2, <2>3, <2>4, <2>5, PlainMove DEF protoVars
<1> QED  BY <1>1, <1>4, <1>5 DEF poll_simple_iso_cleanup

\* The STOP of a cleanup is over.
LEMMA CleanupDoneKeeps ==
  ASSUME IInv, CleanupDone
  PROVE  IInv'
<1>1. /\ pc[Worker] = "done" /\ LeaveCleanup /\ cleanup' \in BOOLEAN /\ q' \in BOOLEAN /\ (q => q')
      /\ UNCHANGED <<wireVars, mq, v2, mbox, fg, rt, active, aborted, kind, left, todo>>
  BY DEF CleanupDone, IInv, TypeOK, FlagTypeOK
<1>2. pc[Worker] \notin Busy /\ pc[Worker] \notin Unlocked
  BY <1>1 DEF Busy, Waits, Unlocked
<1>3. zz' = None => FlagTypeOK'
  BY <1>1 DEF IInv, TypeOK, FlagTypeOK
<1> QED  BY <1>1, <1>2, <1>3, LeaveCleanupKeeps

\* process_work_queue finds nothing, or takes PrimaryMailboxLock for a request.
LEMMA WorkQueueKeeps ==
  ASSUME IInv, process_work_queue
  PROVE  IInv'
<1>1. /\ pc[Worker] = "work" /\ Worker \in Tasks
      /\ UNCHANGED <<wireVars, protoVars, lockVars, fg, rt, cleanup, aborted,
                     after, kind, ret, left>>
  BY Names DEF process_work_queue
<1>2. pc[Worker] \notin Busy /\ {"poll", "mbox"} \cap Busy = {} /\ {"poll", "mbox"} \subseteq Unlocked
      /\ {"poll", "mbox"} \subseteq Places
  BY <1>1, Names DEF Busy, Waits, Unlocked
<1>3. CASE Go(Worker, "poll") /\ UNCHANGED <<active, job, cont, todo>>
  <2>1. FlagTypeOK'
    BY <1>1, <1>3 DEF IInv, TypeOK, FlagTypeOK, protoVars, lockVars
  <2>2. RestTypeOK'
    BY <1>1, <1>3, SameRest
  <2> QED  BY <1>1, <1>2, <1>3, <2>1, <2>2, PlainMove DEF Go, protoVars, lockVars
<1>4. ASSUME NEW j \in Work, NEW n \in 0..NumCmds, NEW c \in {"begin", "reset", "iso"},
             active' = TRUE, GoJob(Worker, j, "mbox"), todo' = Set(todo, Worker, n),
             cont' = Set(cont, Worker, c)
      PROVE  IInv'
  <2>1. job' = Set(job, Worker, j) /\ pc' = Set(pc, Worker, "mbox") /\ j \in Jobs
    BY <1>4, Names DEF GoJob, Go
  <2>2. FlagTypeOK'
    BY <1>1, <1>4 DEF IInv, TypeOK, FlagTypeOK, protoVars, lockVars
  <2>3. RestTypeOK'
    BY <1>1, <1>4, <2>1, SetEntry DEF IInv, TypeOK, CallTypeOK, RestTypeOK
  <2>4. c \in Conts /\ c \notin Waits /\ c # "rtpoll"
    BY DEF Conts, Waits
  <2> QED  BY <1>1, <1>2, <1>4, <2>1, <2>2, <2>3, <2>4, PlainObtain DEF protoVars, lockVars
<1>5. ASSUME NEW j \in Work
      PROVE  (CASE j = "xfer" -> "begin" [] j = "reset" -> "reset" [] j = "iso queue" -> "iso")
               \in {"begin", "reset", "iso"}
  BY WorkAssumption
<1> QED  BY <1>3, <1>4, <1>5 DEF process_work_queue

\* A worker's step under zz_Lock from a command's end: another command of the
\* request, or its end.
LEMMA RequestStep ==
  ASSUME IInv, NEW p \in Places, NEW j \in Jobs, pc[Worker] = "done",
         p \notin Busy, p # "mbox", p # "rtstop", pc' = Set(pc, Worker, p),
         job' = job \/ job' = Set(job, Worker, j),
         UNCHANGED <<wireVars, mq, v2, lockVars, fg, active, aborted,
                     cont, after, kind, ret, left>>,
         q' \in BOOLEAN, q => q', cleanup' \in BOOLEAN, rt' \in {None, rt},
         todo' \in [Tasks -> 0..NumCmds]
  PROVE  IInv'
<1>1. Worker \in Tasks /\ pc[Worker] \notin Busy /\ pc[Worker] \notin Unlocked
  BY Names DEF Busy, Waits, Unlocked
<1>2. zz = Worker
  BY <1>1, HasLock
<1>3. FlagTypeOK'
  BY DEF IInv, TypeOK, FlagTypeOK, lockVars
<1>4. RestTypeOK'
  <2>1. job' \in [Tasks -> Jobs]
    BY DEF IInv, TypeOK, CallTypeOK, Set
  <2> QED  BY <2>1 DEF IInv, TypeOK, CallTypeOK, RestTypeOK
<1> QED  BY <1>1, <1>2, <1>3, <1>4, PlainMove DEF lockVars

\* The types of the flags a request's step may set.
LEMMA FlagValues ==
  ASSUME IInv
  PROVE  /\ q \in BOOLEAN /\ cleanup \in BOOLEAN /\ aborted \in BOOLEAN
         /\ todo \in [Tasks -> 0..NumCmds]
         /\ \A t \in Tasks : todo[t] > 0 => Set(todo, t, todo[t] - 1) \in [Tasks -> 0..NumCmds]
<1>1. /\ q \in BOOLEAN /\ cleanup \in BOOLEAN /\ aborted \in BOOLEAN
      /\ todo \in [Tasks -> 0..NumCmds]
  BY DEF IInv, TypeOK, FlagTypeOK, CallTypeOK
<1>2. ASSUME NEW t \in Tasks, todo[t] > 0
      PROVE  Set(todo, t, todo[t] - 1) \in [Tasks -> 0..NumCmds]
  <2>1. todo[t] - 1 \in 0..NumCmds
    BY <1>1, <1>2, SizesAssumption
  <2> QED  BY <1>1, <2>1, SetEntry
<1> QED  BY <1>1, <1>2

\* UHCMD_CONTROLXFER and UHCMD_BULKXFER after a command.
LEMMA XferDoneKeeps ==
  ASSUME IInv, XferDone
  PROVE  IInv'
<1>1. PICK p \in {"unlock", "begin"} :
        /\ pc[Worker] = "done" /\ pc' = Set(pc, Worker, p)
        /\ UNCHANGED <<wireVars, protoVars, lockVars, fg, rt, workVars,
                       job, cont, after, kind, ret, left>>
  BY DEF XferDone, Go
<1>2. todo' \in [Tasks -> 0..NumCmds]
  BY FlagValues, Names DEF XferDone
<1>3. p \in Places /\ None \in Jobs /\ p \notin Busy /\ p # "mbox" /\ p # "rtstop"
  BY Names DEF Busy, Waits
<1> QED  BY <1>1, <1>2, <1>3, FlagValues, RequestStep DEF protoVars, workVars

\* UHCMD_USBRESET after RESET_PORT.
LEMMA ResetDoneKeeps ==
  ASSUME IInv, ResetDone
  PROVE  IInv'
<1>1. PICK p \in {"unlock", "send"} :
        /\ pc[Worker] = "done" /\ pc' = Set(pc, Worker, p)
        /\ job' = job \/ job' = Set(job, Worker, "check")
        /\ rt' \in {None, rt} /\ cleanup' \in {FALSE, cleanup}
        /\ UNCHANGED <<wireVars, protoVars, lockVars, fg, active, aborted,
                       cont, after, kind, ret, left, todo>>
  BY DEF ResetDone, Go, GoJob
<1>2. cleanup' \in BOOLEAN
  BY <1>1, FlagValues
<1>3. p \in Places /\ "check" \in Jobs /\ p \notin Busy /\ p # "mbox" /\ p # "rtstop"
  BY Names DEF Busy, Waits
<1> QED  BY <1>1, <1>2, <1>3, FlagValues, RequestStep DEF protoVars

\* The port check after a failed reset.
LEMMA CheckDoneKeeps ==
  ASSUME IInv, CheckDone
  PROVE  IInv'
<1>1. /\ pc[Worker] = "done" /\ pc' = Set(pc, Worker, "unlock")
      /\ UNCHANGED <<wireVars, protoVars, lockVars, fg, rt, workVars, callVars>>
  BY DEF CheckDone, Go
<1>2. "unlock" \in Places /\ None \in Jobs /\ "unlock" \notin Busy
  BY Names DEF Busy, Waits
<1> QED  BY <1>1, <1>2, FlagValues, RequestStep DEF protoVars, workVars, callVars

\* retire_simple_iso_request stops the batch or leaves it to the cleanup.
LEMMA RetireStep ==
  ASSUME IInv, Retire
  PROVE  \E p \in {"unlock", "begin"} :
           /\ pc' = Set(pc, Worker, p) /\ cleanup' \in BOOLEAN
           /\ job' = job \/ job' = Set(job, Worker, "iso stop")
BY FlagValues DEF Retire, Go, GoJob

\* execute_simple_iso after ISO_QUEUE.
LEMMA IsoQueueDoneKeeps ==
  ASSUME IInv, IsoQueueDone
  PROVE  IInv'
<1>1. /\ pc[Worker] = "done"
      /\ UNCHANGED <<wireVars, protoVars, lockVars, fg, rt, active, aborted,
                     cont, after, kind, ret, left, todo>>
  BY DEF IsoQueueDone
<1>2. PICK p \in {"unlock", "begin"}, j \in {"iso reap", "iso stop"} :
        /\ pc' = Set(pc, Worker, p) /\ cleanup' \in BOOLEAN
        /\ job' = job \/ job' = Set(job, Worker, j)
  <2>1. CASE ret[Worker] = "ok" /\ ~aborted
    <3>1. GoJob(Worker, "iso reap", "begin") /\ cleanup' = cleanup
      BY <2>1 DEF IsoQueueDone
    <3> QED  BY <3>1, FlagValues DEF GoJob, Go
  <2>2. CASE (ret[Worker] = "ok" /\ aborted) \/ (ret[Worker] # "ok" /\ q)
    <3>1. Retire
      BY <2>2 DEF IsoQueueDone
    <3> QED  BY <3>1, RetireStep
  <2>3. CASE ret[Worker] # "ok" /\ ~q
    <3>1. Go(Worker, "unlock") /\ UNCHANGED <<cleanup, job>>
      BY <2>3 DEF IsoQueueDone
    <3> QED  BY <3>1, FlagValues DEF Go
  <2> QED  BY <2>1, <2>2, <2>3, FlagValues
<1>3. p \in Places /\ j \in Jobs /\ p \notin Busy /\ p # "mbox" /\ p # "rtstop"
  BY Names DEF Busy, Waits
<1> QED  BY <1>1, <1>2, <1>3, FlagValues, RequestStep DEF protoVars

\* execute_simple_iso after ISO_REAP.
LEMMA IsoReapDoneKeeps ==
  ASSUME IInv, IsoReapDone
  PROVE  IInv'
<1>1. /\ pc[Worker] = "done"
      /\ UNCHANGED <<wireVars, protoVars, lockVars, fg, rt, active, aborted,
                     cont, after, kind, ret, left>>
  BY DEF IsoReapDone
<1>2. PICK p \in {"unlock", "begin"} :
        /\ pc' = Set(pc, Worker, p) /\ cleanup' \in BOOLEAN
        /\ job' = job \/ job' = Set(job, Worker, "iso stop")
        /\ todo' \in [Tasks -> 0..NumCmds]
  BY FlagValues, RetireStep, Names DEF IsoReapDone, Go
<1>3. p \in Places /\ "iso stop" \in Jobs /\ p \notin Busy /\ p # "mbox" /\ p # "rtstop"
  BY Names DEF Busy, Waits
<1> QED  BY <1>1, <1>2, <1>3, FlagValues, RequestStep DEF protoVars

\* execute_simple_iso after ISO_STOP.
LEMMA IsoStopDoneKeeps ==
  ASSUME IInv, IsoStopDone
  PROVE  IInv'
<1>1. /\ pc[Worker] = "done" /\ pc' = Set(pc, Worker, "unlock") /\ cleanup' \in BOOLEAN
      /\ UNCHANGED <<wireVars, protoVars, lockVars, fg, rt, active, aborted, callVars>>
  BY DEF IsoStopDone, Go
<1>2. "unlock" \in Places /\ None \in Jobs /\ "unlock" \notin Busy
  BY Names DEF Busy, Waits
<1> QED  BY <1>1, <1>2, FlagValues, RequestStep DEF protoVars, callVars

\* poll_roothub_pending and poll_int_pending after a command.
LEMMA PollDoneKeeps ==
  ASSUME IInv, PollDone
  PROVE  IInv'
<1>1. /\ pc[Worker] = "done" /\ job[Worker] \in {"port", "int", "periodic stop"}
      /\ UNCHANGED <<wireVars, mq, v2, lockVars, fg, rt, workVars,
                     cont, after, kind, ret, left, todo>>
  BY DEF PollDone
<1>2. PICK p \in {"release", "recover", "begin"} :
        /\ pc' = Set(pc, Worker, p) /\ q' \in BOOLEAN /\ (q => q')
        /\ job' = job \/ job' = Set(job, Worker, "periodic stop")
  <2>1. CASE job[Worker] = "port"
    <3>1. Go(Worker, IF ret[Worker] = "ok" THEN "release" ELSE "recover") /\ UNCHANGED <<q, job>>
      BY <2>1 DEF PollDone
    <3> QED  BY <3>1, FlagValues DEF Go
  <2>2. CASE job[Worker] = "int"
    <3>1. /\ \/ Go(Worker, "release") /\ UNCHANGED job
             \/ GoJob(Worker, "periodic stop", "begin")
          /\ UNCHANGED q
      BY <2>2 DEF PollDone
    <3> QED  BY <3>1, FlagValues DEF Go, GoJob
  <2>3. CASE job[Worker] = "periodic stop"
    <3>1. q' = (q \/ ~stop_status_retired(ret[Worker])) /\ Go(Worker, "release") /\ UNCHANGED job
      BY <2>3 DEF PollDone
    <3> QED  BY <3>1, FlagValues DEF Go
  <2> QED  BY <1>1, <2>1, <2>2, <2>3
<1>3. p \in Places /\ "periodic stop" \in Jobs /\ p \notin Busy /\ p # "mbox" /\ p # "rtstop"
  BY Names DEF Busy, Waits
<1> QED  BY <1>1, <1>2, <1>3, FlagValues, RequestStep DEF workVars

\* A task under zz_Lock goes on to stop the stream and then at a.
LEMMA StopStream ==
  ASSUME IInv, NEW t \in Tasks, pc[t] \in {"reset", "next"}, NEW a \in Afters, a \notin Waits,
         pc' = Set(pc, t, "rtstop"), after' = Set(after, t, a), UNCHANGED cont,
         UNCHANGED <<wireVars, protoVars, lockVars, fg, rt, workVars>>,
         UNCHANGED <<job, kind, ret, left, todo>>
  PROVE  IInv'
<1>1. pc[t] \notin Busy /\ pc[t] \notin Unlocked
  BY DEF Busy, Waits, Unlocked
<1>2. cont[t] \in Conts \cup {None} /\ cont[t] \notin Waits /\ zz = t
  BY <1>1, NotAwaiting, HasLock DEF IInv, TypeOK, CallTypeOK
<1>3. Sets(cont, cont', t, cont[t]) /\ Sets(after, after', t, a)
  BY DEF Sets
<1>4. FlagTypeOK' /\ RestTypeOK'
  BY SameRest, SameTypes DEF IInv
<1>5. "rtstop" \in Places /\ "rtstop" \notin Busy /\ a \in Afters \cup {None} /\ a # None
  BY Names DEF Busy, Waits
<1> QED  BY <1>1, <1>2, <1>3, <1>4, <1>5, PlainStep DEF protoVars, lockVars

\* UHCMD_USBRESET begins with the stream.
LEMMA ResetBeginsKeeps ==
  ASSUME IInv, ResetBegins
  PROVE  IInv'
<1>1. /\ pc[Worker] = "reset" /\ pc' = Set(pc, Worker, "rtstop") /\ after' = Set(after, Worker, "recover")
      /\ UNCHANGED <<wireVars, protoVars, lockVars, fg, rt, workVars,
                     job, cont, kind, ret, left, todo>>
  BY DEF ResetBegins, Go
<1>2. "recover" \in Afters /\ "recover" \notin Waits /\ Worker \in Tasks
  BY Names DEF Afters, Waits
<1> QED  BY <1>1, <1>2, StopStream

\* CMD_FLUSH stops the next slot, or at last the stream.
LEMMA FlushNextKeeps ==
  ASSUME IInv, FlushNext
  PROVE  IInv'
<1>1. /\ pc[Flusher] = "next" /\ Flusher \in Tasks
      /\ UNCHANGED <<wireVars, protoVars, lockVars, fg, rt, workVars, cont, kind, ret, left>>
  BY Names DEF FlushNext
<1>2. CASE todo[Flusher] > 0
  <2>1. /\ todo' = Set(todo, Flusher, todo[Flusher] - 1) /\ job' = Set(job, Flusher, "stop")
        /\ pc' = Set(pc, Flusher, "begin") /\ after' = after
    BY <1>2 DEF FlushNext, GoJob, Go
  <2>2. FlagTypeOK'
    BY <1>1, SameTypes DEF IInv
  <2>3. "stop" \in Jobs /\ todo' \in [Tasks -> 0..NumCmds]
    BY <1>1, <1>2, <2>1, FlagValues, Names
  <2>4. RestTypeOK'
    BY <1>1, <2>1, <2>3, SetEntry DEF IInv, TypeOK, CallTypeOK, RestTypeOK
  <2>5. "begin" \in Places /\ "begin" \notin Busy /\ pc[Flusher] \notin Busy /\ pc[Flusher] \notin Unlocked
    BY <1>1, Names DEF Busy, Waits, Unlocked
  <2>6. zz = Flusher
    BY <1>1, <2>5, HasLock
  <2> QED  BY <1>1, <2>1, <2>2, <2>4, <2>5, <2>6, PlainMove DEF protoVars, lockVars
<1>3. CASE ~(todo[Flusher] > 0)
  <2>1. /\ pc' = Set(pc, Flusher, "rtstop") /\ after' = Set(after, Flusher, "unlock")
        /\ UNCHANGED <<job, todo>>
    BY <1>3 DEF FlushNext, Go
  <2>2. "unlock" \in Afters /\ "unlock" \notin Waits
    BY DEF Afters, Waits
  <2> QED  BY <1>1, <2>1, <2>2, StopStream
<1> QED  BY <1>2, <1>3

\* CMD_FLUSH after the STOP of a slot.
LEMMA FlushStopDoneKeeps ==
  ASSUME IInv, FlushStopDone
  PROVE  IInv'
<1>1. /\ pc[Flusher] = "done" /\ pc' = Set(pc, Flusher, "next") /\ q' \in BOOLEAN /\ (q => q')
      /\ UNCHANGED <<wireVars, mq, v2, lockVars, fg, rt, workVars, callVars>>
  BY FlagValues DEF FlushStopDone, Go
<1>2. FlagTypeOK' /\ RestTypeOK' /\ UNCHANGED <<cont, after>>
  BY <1>1, SameRest DEF IInv, TypeOK, FlagTypeOK, lockVars, workVars
<1>3. /\ "next" \in Places /\ "next" \notin Busy /\ Flusher \in Tasks
      /\ pc[Flusher] \notin Busy /\ pc[Flusher] \notin Unlocked
  BY <1>1, Names DEF Busy, Waits, Unlocked
<1>4. zz = Flusher
  BY <1>3, HasLock
<1> QED  BY <1>1, <1>2, <1>3, <1>4, PlainMove DEF lockVars

\* CMD_FLUSH: abort_unit_work, then the locks of execute_io.
LEMMA FlushKeeps ==
  ASSUME IInv, Flush
  PROVE  IInv'
<1>1. PICK n \in 0..NumCmds :
        /\ pc[Flusher] = "idle" /\ aborted' = active /\ todo' = Set(todo, Flusher, n)
        /\ pc' = Set(pc, Flusher, "mbox") /\ cont' = Set(cont, Flusher, "next")
        /\ UNCHANGED <<wireVars, protoVars, lockVars, fg, rt, cleanup, active,
                       job, after, kind, ret, left>>
  BY DEF Flush, Go
<1>2. FlagTypeOK'
  BY <1>1 DEF IInv, TypeOK, FlagTypeOK, protoVars, lockVars
<1>3. Flusher \in Tasks /\ pc[Flusher] \notin Busy /\ "next" \in Conts /\ "next" \notin Waits
  BY <1>1, Names DEF Conts, Waits, Busy
<1>4. RestTypeOK'
  BY <1>1, <1>3, SetEntry DEF IInv, TypeOK, CallTypeOK, RestTypeOK
<1> QED  BY <1>1, <1>2, <1>3, <1>4, PlainObtain DEF protoVars, lockVars

\* execute_simple_iso: refused, on to the queue command, or the stream first.
LEMMA IsoBeginsKeeps ==
  ASSUME IInv, IsoBegins
  PROVE  IInv'
<1>1. /\ pc[Worker] = "iso" /\ Worker \in Tasks
      /\ UNCHANGED <<wireVars, protoVars, mbox, fg, rt, workVars, job, kind, ret, left, todo>>
  BY Names DEF IsoBegins
<1>2. pc[Worker] \notin Busy /\ pc[Worker] \notin Unlocked
  BY <1>1 DEF Busy, Waits, Unlocked
<1>3. RestTypeOK'
  BY <1>1, SameRest
<1>4. ASSUME NEW p \in {"unlock", "rtwait"}, pc' = Set(pc, Worker, p), UNCHANGED <<zz, cont, after>>
      PROVE  IInv'
  <2>1. FlagTypeOK'
    BY <1>1, <1>4 DEF IInv, TypeOK, FlagTypeOK, protoVars, workVars
  <2>2. p \in Places /\ p \notin Busy /\ zz = Worker
    BY <1>1, <1>2, HasLock, Names DEF Busy, Waits
  <2> QED  BY <1>1, <1>2, <1>3, <1>4, <2>1, <2>2, PlainMove DEF protoVars
<1>5. CASE cleanup
  BY <1>4, <1>5 DEF IsoBegins, Go
<1>6. CASE ~cleanup /\ rt = None
  BY <1>4, <1>6 DEF IsoBegins, Go
<1>7. CASE ~cleanup /\ rt # None
  <2>1. zz' = None /\ GoZZ(Worker, "rtpoll") /\ after' = Set(after, Worker, "isoserved")
    BY <1>7 DEF IsoBegins
  <2>2. FlagTypeOK'
    BY <1>1, <2>1 DEF IInv, TypeOK, FlagTypeOK, protoVars, workVars
  <2>3. "isoserved" \in Afters /\ "isoserved" \notin Waits
    BY DEF Afters, Waits
  <2> QED  BY <1>1, <1>2, <1>3, <2>1, <2>2, <2>3, PlainServe DEF protoVars
<1> QED  BY <1>5, <1>6, <1>7

\* execute_simple_iso after the stream was served.
LEMMA IsoServedKeeps ==
  ASSUME IInv, IsoServed
  PROVE  IInv'
<1>1. PICK p \in {"unlock", "rtwait"} : pc' = Set(pc, Worker, p)
  BY DEF IsoServed, Go
<1>2. /\ pc[Worker] = "isoserved" /\ Worker \in Tasks
      /\ UNCHANGED <<wireVars, protoVars, lockVars, fg, rt, workVars, callVars>>
  BY Names DEF IsoServed
<1>3. FlagTypeOK' /\ RestTypeOK' /\ UNCHANGED <<cont, after>>
  BY <1>2, SameRest, SameTypes DEF IInv
<1>4. p \in Places /\ p \notin Busy /\ pc[Worker] \notin Busy /\ pc[Worker] \notin Unlocked
  BY <1>2, Names DEF Busy, Waits, Unlocked
<1>5. zz = Worker
  BY <1>2, <1>4, HasLock
<1> QED  BY <1>1, <1>2, <1>3, <1>4, <1>5, PlainMove DEF protoVars, lockVars

\* process_work_queue after execute_io.
LEMMA FinishWorkKeeps ==
  ASSUME IInv, FinishWork
  PROVE  IInv'
<1>1. /\ pc[Worker] = "finish" /\ pc' = Set(pc, Worker, "poll") /\ Worker \in Tasks
      /\ active' = FALSE /\ aborted' = FALSE
      /\ UNCHANGED <<wireVars, protoVars, lockVars, fg, rt, cleanup, callVars>>
  BY Names DEF FinishWork, Go
<1>2. FlagTypeOK' /\ RestTypeOK' /\ UNCHANGED <<cont, after>>
  BY <1>1, SameRest DEF IInv, TypeOK, FlagTypeOK, protoVars, lockVars
<1>3. "poll" \in Places /\ "poll" \notin Busy /\ pc[Worker] \notin Busy /\ "poll" \in Unlocked
  BY <1>1, Names DEF Busy, Waits, Unlocked
<1> QED  BY <1>1, <1>2, <1>3, PlainMove DEF protoVars, lockVars

\* The polls go on to the next sweep, or take zz_Lock for a command.
LEMMA PollPortsKeeps ==
  ASSUME IInv, PollPorts
  PROVE  IInv'
<1>1. /\ pc[Worker] = "poll" /\ Worker \in Tasks
      /\ UNCHANGED <<wireVars, protoVars, lockVars, fg, rt, workVars,
                     after, kind, ret, left, todo>>
  BY Names DEF PollPorts
<1>2. FlagTypeOK'
  BY <1>1, SameTypes DEF IInv
<1>3. CASE Go(Worker, "sweep") /\ UNCHANGED <<job, cont>>
  <2>1. RestTypeOK'
    BY <1>1, <1>3, SameRest
  <2>2. "sweep" \in Places /\ "sweep" \notin Busy /\ pc[Worker] \notin Busy /\ "sweep" \in Unlocked
    BY <1>1, Names DEF Busy, Waits, Unlocked
  <2> QED  BY <1>1, <1>2, <1>3, <2>1, <2>2, PlainMove DEF Go, protoVars, lockVars
<1>4. ASSUME NEW j \in Polls, GoZZ(Worker, "begin"), job' = Set(job, Worker, j)
      PROVE  IInv'
  <2>1. j \in Jobs /\ pc' = Set(pc, Worker, "zz") /\ cont' = Set(cont, Worker, "begin")
    BY <1>4, Names DEF GoZZ
  <2>2. RestTypeOK'
    BY <1>1, <1>4, <2>1, SetEntry DEF IInv, TypeOK, CallTypeOK, RestTypeOK
  <2>3. "begin" \in Conts /\ "begin" \notin Waits /\ pc[Worker] \notin Busy
    BY <1>1 DEF Conts, Waits, Busy
  <2> QED  BY <1>1, <1>2, <2>1, <2>2, <2>3, PlainObtain DEF protoVars, lockVars
<1> QED  BY <1>3, <1>4 DEF PollPorts

\* A poll gives back zz_Lock.
LEMMA ReleasePollKeeps ==
  ASSUME IInv, ReleasePoll
  PROVE  IInv'
<1>1. /\ pc[Worker] = "release" /\ pc' = Set(pc, Worker, "sweep") /\ zz' = None /\ Worker \in Tasks
      /\ job' = Set(job, Worker, None) /\ ret' = Set(ret, Worker, "ok")
      /\ UNCHANGED <<wireVars, protoVars, mbox, fg, rt, workVars, cont, after, kind, left, todo>>
  BY Names DEF ReleasePoll, Go
<1>2. FlagTypeOK'
  BY <1>1 DEF IInv, TypeOK, FlagTypeOK, protoVars, workVars
<1>3. RestTypeOK'
  BY <1>1, Names, SetEntry DEF IInv, TypeOK, CallTypeOK, RestTypeOK
<1>4. /\ "sweep" \in Places /\ "sweep" \notin Busy /\ "sweep" \in Unlocked
      /\ pc[Worker] \notin Busy /\ pc[Worker] \notin Unlocked
  BY <1>1, Names DEF Busy, Waits, Unlocked
<1>5. zz = Worker
  BY <1>1, <1>4, HasLock
<1> QED  BY <1>1, <1>2, <1>3, <1>4, <1>5, PlainMove DEF protoVars

\* execute_io gives back both locks.
LEMMA UnlockKeeps ==
  ASSUME IInv, NEW t \in Tasks, Unlock(t)
  PROVE  IInv'
<1>1. PICK p \in {"finish", "idle"} : pc' = Set(pc, t, p)
  BY DEF Unlock
<1>2. /\ pc[t] = "unlock" /\ zz' = None /\ mbox' = None
      /\ job' = Set(job, t, None) /\ ret' = Set(ret, t, "ok") /\ todo' = Set(todo, t, 0)
      /\ UNCHANGED <<wireVars, protoVars, fg, rt, workVars, cont, after, kind, left>>
  BY DEF Unlock
<1>3. FlagTypeOK'
  BY <1>2 DEF IInv, TypeOK, FlagTypeOK, protoVars, workVars
<1>4. RestTypeOK'
  BY <1>2, Names, SetEntry DEF IInv, TypeOK, CallTypeOK, RestTypeOK
<1>5. /\ p \in Places /\ p \notin Busy /\ p \in Unlocked /\ p # "mbox" /\ p # "rtstop"
      /\ pc[t] \notin Busy /\ pc[t] \notin Unlocked
  BY <1>2, Names DEF Busy, Waits, Unlocked
<1>6. zz = t
  BY <1>5, HasLock
<1> QED  BY <1>1, <1>2, <1>3, <1>4, <1>5, <1>6, PlainMove DEF protoVars

-----------------------------------------------------------------------------
(* send_usb_cmd.                                                           *)

\* Where a task on the primary mailbox is; it comes back to no other wait.
Sending == {"send", "rtwait", "begin", "wait", "drain"}

\* A task that sends or waits itself holds zz_Lock.
LEMMA SenderFacts ==
  ASSUME IInv, NEW t \in Tasks, pc[t] \in Sending \cup {"qwait"}
  PROVE  /\ zz = t /\ pc[t] \notin {"rtside", "qside"}
         /\ cont[t] \notin Waits /\ after[t] \notin Waits
<1>1. zz = t
  BY HasLock DEF Sending, Unlocked
<1>2. pc[t] \notin {"rtside", "qside"} /\ cont[t] \notin Waits /\ after[t] \notin Waits
  BY DEF IInv, Where, Sending, Waits
<1> QED  BY <1>1, <1>2

\* A command ends: what it leaves pending is quarantined.
LEMMA ReturnKept ==
  ASSUME IInv, NEW t \in Tasks, pc[t] \in Sending, NEW r \in Statuses, Return(t, r),
         UNCHANGED <<wireVars, mq, v2, zz, rt, workVars, job, cont, after, kind, todo>>,
         q' \in BOOLEAN, q => q',
         pc[t] \in Waits /\ prim.st = "pending" => q'
  PROVE  IInv'
<1>1. /\ zz = t /\ pc[t] \notin {"rtside", "qside"}
      /\ cont[t] \notin Waits /\ after[t] \notin Waits
  BY SenderFacts
<1>2. /\ ret' \in [Tasks -> Statuses] /\ left' \in [Tasks -> 0..MaxServe]
      /\ fg' \in Tasks \cup {None} /\ mbox' \in Tasks \cup {None}
  BY ReturnType DEF IInv, TypeOK
<1>3. /\ pc' \in [Tasks -> Places] /\ pc'[t] = "done"
      /\ cont'[t] = cont[t] /\ after'[t] = after[t] /\ Alone(t)
  <2>1. pc' = Set(pc, t, "done") /\ "done" \in Places /\ CallTypeOK
    BY Names DEF Return, IInv, TypeOK
  <2> QED  BY <2>1, OnlyMoves
<1>4. TypeOK'
  <2>1. FlagTypeOK'
    BY <1>2 DEF IInv, TypeOK, FlagTypeOK, workVars
  <2>2. CallTypeOK'
    BY <1>2, <1>3 DEF IInv, TypeOK, CallTypeOK
  <2> QED  BY <2>1, <2>2, SameTypes DEF IInv, TypeOK
<1>5. WhereOf(t)' /\ ReturnsOf(t)'
  BY <1>1, <1>3 DEF WhereOf, ReturnsOf
<1>6. Awaits(t) => pc[t] \in Waits
  BY <1>1 DEF Awaits, Sending, Waits
<1> QED  BY <1>1, <1>3, <1>4, <1>5, <1>6, StepKept DEF wireVars

\* A command is refused over a quarantine, or written and awaited.
LEMMA SendKept ==
  ASSUME IInv, NEW t \in Tasks, pc[t] \in {"send", "rtwait", "begin"}, NEW f \in BOOLEAN, Send(t, f),
         UNCHANGED <<side, protoVars, zz, rt, workVars, job, cont, after, kind, todo>>
  PROVE  IInv'
<1>1. pc[t] \in Sending /\ pc[t] \notin Waits
  BY DEF Sending, Waits
<1>2. CASE q
  <2>1. Return(t, "err") /\ UNCHANGED <<prim, run>> /\ "err" \in Statuses
    BY <1>2, Names DEF Send
  <2>2. q' = q /\ q \in BOOLEAN /\ UNCHANGED <<mq, v2>>
    BY FlagValues DEF protoVars
  <2> QED  BY <1>1, <2>1, <2>2, ReturnKept DEF wireVars
<1>3. CASE ~q
  <2>1. Post(t) /\ pc' = Set(pc, t, "wait")
    BY <1>3 DEF Send
  <2>2. /\ ret' \in [Tasks -> Statuses] /\ left' \in [Tasks -> 0..MaxServe]
        /\ fg' \in Tasks \cup {None} /\ mbox' \in Tasks \cup {None}
        /\ prim' \in [st : {"pending", "done"}, by : Ids] /\ run' \subseteq Ids
    BY SendType DEF IInv
  <2>3. /\ pc' \in [Tasks -> Places] /\ pc'[t] = "wait"
        /\ cont'[t] = cont[t] /\ after'[t] = after[t] /\ Alone(t)
    <3>1. "wait" \in Places /\ CallTypeOK
      BY Names DEF IInv, TypeOK
    <3> QED  BY <2>1, <3>1, OnlyMoves
  <2>4. TypeOK'
    <3>1. FlagTypeOK'
      BY <2>2 DEF IInv, TypeOK, FlagTypeOK, protoVars, workVars
    <3>2. CallTypeOK'
      BY <2>2, <2>3 DEF IInv, TypeOK, CallTypeOK
    <3>3. WireTypeOK'
      BY <2>2 DEF IInv, TypeOK, WireTypeOK
    <3> QED  BY <3>1, <3>2, <3>3 DEF TypeOK
  <2>5. /\ zz = t /\ pc[t] \notin {"rtside", "qside"}
        /\ cont[t] \notin Waits /\ after[t] \notin Waits
    BY <1>1, SenderFacts
  <2>6. WhereOf(t)' /\ ReturnsOf(t)' /\ Awaits(t)'
    BY <2>3, <2>5 DEF WhereOf, ReturnsOf, Awaits, Waits
  <2> QED  BY <2>3, <2>4, <2>5, <2>6, StepKept DEF protoVars
<1> QED  BY <1>2, <1>3

\* send_usb_cmd without a stream to serve first.
LEMMA SendPlainKeeps ==
  ASSUME IInv, NEW t \in Tasks, SendPlain(t) \/ send_usb_cmd_with_rt_service(t)
  PROVE  IInv'
BY SendKept DEF SendPlain, send_usb_cmd_with_rt_service

\* send_usb_cmd_with_rt_wait: an aborted request is refused first.
LEMMA SendRtWaitKeeps ==
  ASSUME IInv, NEW t \in Tasks, send_usb_cmd_with_rt_wait(t)
  PROVE  IInv'
<1>1. /\ pc[t] = "rtwait"
      /\ UNCHANGED <<side, protoVars, zz, rt, workVars, job, cont, after, kind, todo>>
  BY DEF send_usb_cmd_with_rt_wait
<1>2. CASE rt # None /\ aborted
  <2>1. Return(t, "err") /\ UNCHANGED <<prim, run>> /\ "err" \in Statuses
    BY <1>2, Names DEF send_usb_cmd_with_rt_wait
  <2>2. q' = q /\ q \in BOOLEAN /\ UNCHANGED <<mq, v2>>
    BY <1>1, FlagValues DEF protoVars
  <2>3. pc[t] \in Sending /\ pc[t] \notin Waits
    BY <1>1 DEF Sending, Waits
  <2> QED  BY <1>1, <2>1, <2>2, <2>3, ReturnKept DEF wireVars
<1>3. CASE ~(rt # None /\ aborted)
  <2>1. Send(t, rt # None)
    BY <1>3 DEF send_usb_cmd_with_rt_wait
  <2>2. PICK f \in BOOLEAN : f = (rt # None)
    OBVIOUS
  <2>3. Send(t, f)
    BY <2>1, <2>2
  <2> QED  BY <1>1, <2>3, SendKept
<1> QED  BY <1>2, <1>3

\* send_usb_cmd_wire sees an answer, its own or another's.
LEMMA WaitAnsweredKeeps ==
  ASSUME IInv, NEW t \in Tasks, WaitAnswered(t)
  PROVE  IInv'
<1>1. /\ pc[t] = "wait" /\ prim.st = "done"
      /\ UNCHANGED <<wireVars, mq, v2, zz, rt, workVars, job, cont, after, kind, todo>>
  BY DEF WaitAnswered, Answered
<1>2. PICK r \in Statuses : Return(t, r) /\ (q' = q \/ q' = TRUE)
  BY Names DEF WaitAnswered, Answered
<1>3. q' \in BOOLEAN /\ (q => q')
  <2>1. q \in BOOLEAN
    BY FlagValues
  <2>2. CASE q' = q  BY <2>1, <2>2
  <2>3. CASE q' = TRUE  BY <2>3
  <2> QED  BY <1>2, <2>2, <2>3
<1>4. pc[t] \in Sending /\ prim.st # "pending"
  BY <1>1 DEF Sending
<1> QED  BY <1>1, <1>2, <1>3, <1>4, ReturnKept

\* The limit is reached, in the wait proper or in the drain of an aborted one.
LEMMA WaitEndsKeeps ==
  ASSUME IInv, NEW t \in Tasks, WaitTimeout(t) \/ DrainEnds(t)
  PROVE  IInv'
<1>1. /\ pc[t] \in {"wait", "drain"} /\ Return(t, "err")
      /\ q' \in BOOLEAN /\ (q => q') /\ (prim.st = "pending" => q')
      /\ UNCHANGED <<wireVars, mq, v2, zz, rt, workVars, job, cont, after, kind, todo>>
  BY FlagValues DEF WaitTimeout, DrainEnds
<1>2. pc[t] \in Sending /\ "err" \in Statuses
  BY <1>1, Names DEF Sending
<1> QED  BY <1>1, <1>2, ReturnKept

\* The request is aborted: the wait goes on for the mailbox alone.
LEMMA WaitAbortedKeeps ==
  ASSUME IInv, NEW t \in Tasks, WaitAborted(t)
  PROVE  IInv'
<1>1. /\ pc[t] = "wait" /\ pc' = Set(pc, t, "drain")
      /\ UNCHANGED <<wireVars, protoVars, lockVars, fg, rt, workVars, callVars>>
  BY DEF WaitAborted
<1>2. /\ zz = t /\ pc[t] \notin {"rtside", "qside"}
      /\ cont[t] \notin Waits /\ after[t] \notin Waits
  BY <1>1, SenderFacts DEF Sending
<1>3. /\ pc' \in [Tasks -> Places] /\ pc'[t] = "drain"
      /\ cont'[t] = cont[t] /\ after'[t] = after[t] /\ Alone(t)
  <2>1. "drain" \in Places /\ CallTypeOK /\ UNCHANGED <<cont, after>>
    BY <1>1, Names DEF IInv, TypeOK, callVars
  <2> QED  BY <1>1, <2>1, OnlyMoves
<1>4. TypeOK'
  <2>1. CallTypeOK'
    BY <1>1, <1>3 DEF IInv, TypeOK, CallTypeOK, callVars
  <2> QED  BY <1>1, <2>1, SameTypes DEF IInv, TypeOK
<1>5. WhereOf(t)' /\ ReturnsOf(t)' /\ Awaits(t)'
  BY <1>2, <1>3 DEF WhereOf, ReturnsOf, Awaits, Waits
<1> QED  BY <1>1, <1>2, <1>3, <1>4, <1>5, StepKept DEF wireVars, protoVars, lockVars

\* service_rt_iso_during_work: the wait drops zz_Lock and is named in after.
LEMMA WaitServeKeeps ==
  ASSUME IInv, NEW t \in Tasks, WaitServe(t)
  PROVE  IInv'
<1>1. /\ pc[t] \in Waits /\ zz' = None /\ left[t] > 0 /\ left' = Set(left, t, left[t] - 1)
      /\ pc' = Set(pc, t, "zz") /\ cont' = Set(cont, t, "rtpoll") /\ after' = Set(after, t, pc[t])
      /\ UNCHANGED <<wireVars, protoVars, mbox, fg, rt, workVars, job, kind, ret, todo>>
  BY DEF WaitServe, GoZZ, Waits
<1>2. zz = t /\ pc[t] \notin {"rtside", "qside"}
  BY <1>1, SenderFacts DEF Sending, Waits
<1>3. PICK a \in Afters \cup {None} : a = pc[t] /\ a # None
  BY <1>1, Names DEF Afters
<1>4. /\ pc' \in [Tasks -> Places] /\ pc'[t] = "zz"
      /\ cont' \in [Tasks -> Conts \cup {None}] /\ cont'[t] = "rtpoll"
      /\ after' \in [Tasks -> Afters \cup {None}] /\ after'[t] = a
      /\ Alone(t)
  <2>1. "zz" \in Places /\ "rtpoll" \in Conts \cup {None} /\ CallTypeOK
    BY Names DEF Conts, IInv, TypeOK
  <2>2. Sets(cont, cont', t, "rtpoll") /\ Sets(after, after', t, a)
    BY <1>1, <1>3 DEF Sets
  <2> QED  BY <1>1, <2>1, <2>2, Moves
<1>5. TypeOK'
  <2>1. left' \in [Tasks -> 0..MaxServe]
    <3>1. left \in [Tasks -> 0..MaxServe]
      BY DEF IInv, TypeOK, CallTypeOK
    <3>2. left[t] - 1 \in 0..MaxServe
      BY <1>1, <3>1, SizesAssumption
    <3> QED  BY <1>1, <3>1, <3>2, SetEntry
  <2>2. CallTypeOK'
    BY <1>1, <1>4, <2>1 DEF IInv, TypeOK, CallTypeOK
  <2>3. FlagTypeOK'
    BY <1>1 DEF IInv, TypeOK, FlagTypeOK, protoVars, workVars
  <2> QED  BY <1>1, <2>2, <2>3, SameTypes DEF IInv, TypeOK
<1>6. "rtpoll" \notin Waits /\ "rtpoll" # None /\ "zz" \in Unlocked
  BY DEF Waits, None, Unlocked
<1>7. WhereOf(t)' /\ ReturnsOf(t)'
  BY <1>3, <1>4, <1>6 DEF WhereOf, ReturnsOf
<1>8. Awaits(t)'
  BY <1>1, <1>3, <1>4 DEF Awaits
<1> QED  BY <1>1, <1>2, <1>4, <1>5, <1>6, <1>7, <1>8, StepKept DEF wireVars, protoVars

-----------------------------------------------------------------------------
(* zz_Lock again, and realtime ISO.                                        *)

\* ObtainSemaphore(zz_Lock): the task goes on where cont says, a wait included.
LEMMA ObtainZZKeeps ==
  ASSUME IInv, NEW t \in Tasks, ObtainZZ(t)
  PROVE  IInv'
<1>1. /\ pc[t] = "zz" /\ zz = None /\ zz' = t
      /\ pc' = Set(pc, t, cont[t]) /\ cont' = Set(cont, t, None)
      /\ UNCHANGED <<wireVars, protoVars, mbox, fg, rt, workVars,
                     job, after, kind, ret, left, todo>>
  BY DEF ObtainZZ
<1>2. cont[t] \in Conts /\ after[t] \in Afters \cup {None}
  BY <1>1 DEF IInv, TypeOK, CallTypeOK, Returns
<1>3. cont[t] \in Places /\ cont[t] \notin {"mbox", "zz", "rtstop", "rtside", "rtprim", "qside"}
  BY <1>2 DEF Conts, Waits, Places
<1>4. /\ pc' \in [Tasks -> Places] /\ pc'[t] = cont[t]
      /\ cont' \in [Tasks -> Conts \cup {None}] /\ cont'[t] = None
      /\ after' \in [Tasks -> Afters \cup {None}] /\ after'[t] = after[t]
      /\ Alone(t)
  <2>1. Sets(cont, cont', t, None) /\ Sets(after, after', t, after[t])
    BY <1>1 DEF Sets
  <2> QED  BY <1>1, <1>2, <1>3, <2>1, Moves DEF IInv, TypeOK
<1>5. TypeOK'
  <2>1. CallTypeOK'
    BY <1>1, <1>4 DEF IInv, TypeOK, CallTypeOK
  <2>2. FlagTypeOK'
    BY <1>1 DEF IInv, TypeOK, FlagTypeOK, protoVars, workVars
  <2> QED  BY <1>1, <2>1, <2>2, SameTypes DEF IInv, TypeOK
<1>6. after[t] \in Waits => cont[t] = "rtpoll"
  BY <1>1 DEF IInv, Where
<1>7. cont[t] = "rtpoll" => after[t] # None
  BY <1>1 DEF IInv, Returns
<1>8. WhereOf(t)' /\ ReturnsOf(t)'
  BY <1>3, <1>4, <1>6, <1>7, Names DEF WhereOf, ReturnsOf, None, Waits
<1>9. Awaits(t) => Awaits(t)'
  BY <1>1, <1>4 DEF Awaits, Waits
<1> QED  BY <1>1, <1>3, <1>4, <1>5, <1>8, <1>9, StepKept DEF wireVars, protoVars

\* Where poll_rt_iso and stop_rt_iso_for_unit are.
RtPlaces == {"rtpoll", "rtstop", "rtside", "rtprim"}

\* A task there holds zz_Lock and comes back to a wait only by after.
LEMMA RtFacts ==
  ASSUME IInv, NEW t \in Tasks, pc[t] \in RtPlaces
  PROVE  /\ zz = t /\ cont[t] \notin Waits /\ after[t] # None /\ after[t] \in Afters
         /\ Awaits(t) => pc[t] = "rtprim" \/ after[t] \in Waits
         /\ pc[t] = "rtstop" => after[t] \notin Waits
<1>1. zz = t
  BY HasLock DEF RtPlaces, Unlocked
<1>2. cont[t] \notin Waits /\ (pc[t] = "rtstop" => after[t] \notin Waits)
  BY DEF IInv, Where, RtPlaces
<1>3. after[t] # None /\ after[t] \in Afters
  BY DEF IInv, TypeOK, CallTypeOK, Returns, RtPlaces
<1>4. Awaits(t) => pc[t] = "rtprim" \/ after[t] \in Waits
  BY <1>2 DEF Awaits, RtPlaces, Waits
<1> QED  BY <1>1, <1>2, <1>3, <1>4

\* poll_rt_iso is over: what it leaves pending is quarantined, and the wait it
\* interrupted, if any, is taken up again.
LEMMA RtLeaves ==
  ASSUME IInv, NEW t \in Tasks, pc[t] \in RtPlaces, RtDone(t),
         UNCHANGED <<wireVars, v2, mbox, fg, workVars, job, ret, left, todo>>,
         kind' \in [Tasks -> {"io", "stop"}], rt' \in {None, "running", "stopping"},
         q' \in BOOLEAN, mq' \in BOOLEAN, q => q', mq => mq',
         pc[t] = "rtprim" /\ prim.st = "pending" => q',
         pc[t] = "rtside" /\ side = "pending" => mq'
  PROVE  IInv'
<1>1. /\ zz = t /\ cont[t] \notin Waits /\ after[t] # None /\ after[t] \in Afters
      /\ Awaits(t) => pc[t] = "rtprim" \/ after[t] \in Waits
  BY RtFacts
<1>2. /\ after' \in [Tasks -> Afters \cup {None}] /\ cont' \in [Tasks -> Conts \cup {None}]
      /\ pc' \in [Tasks -> Places] /\ zz' \in Tasks \cup {None}
  BY <1>1, RtDoneType DEF IInv, TypeOK
<1>3. TypeOK'
  <2>1. CallTypeOK'
    BY <1>2 DEF IInv, TypeOK, CallTypeOK
  <2>2. FlagTypeOK'
    BY <1>2 DEF IInv, TypeOK, FlagTypeOK, workVars
  <2> QED  BY <2>1, <2>2, SameTypes DEF IInv, TypeOK
<1>4. CallTypeOK /\ Sets(after, after', t, None) /\ after'[t] = None
      /\ \A u \in Tasks \ {t} : after'[u] = after[u]
  BY DEF IInv, TypeOK, CallTypeOK, RtDone, Sets, Set
<1>5. /\ Alone(t) /\ WhereOf(t)' /\ ReturnsOf(t)' /\ pc'[t] \notin {"qside", "rtside", "rtprim"}
      /\ pc'[t] \notin Unlocked => zz' = t
      /\ after[t] \in Waits => Awaits(t)'
  <2>0. None \notin Waits /\ {"unlock", "recover", "work", "mbox"} \cap Waits = {}
    BY DEF Waits, None
  <2>1. CASE after[t] \in {"unlock", "recover"}
    <3>1. pc' = Set(pc, t, after[t]) /\ UNCHANGED <<zz, cont>>
      BY <2>1 DEF RtDone
    <3>2. pc'[t] = after[t] /\ \A u \in Tasks \ {t} : pc'[u] = pc[u]
      BY <1>4, <3>1 DEF CallTypeOK, Set
    <3>3. Alone(t) /\ WhereOf(t)' /\ ReturnsOf(t)'
      BY <1>1, <1>4, <2>0, <2>1, <3>1, <3>2 DEF Alone, WhereOf, ReturnsOf
    <3> QED  BY <1>1, <2>0, <2>1, <3>1, <3>2, <3>3
  <2>2. CASE after[t] = "work"
    <3>1. pc' = Set(pc, t, "work") /\ cont' = cont
      BY <2>2 DEF RtDone
    <3>2. pc'[t] = "work" /\ "work" \in Unlocked /\ \A u \in Tasks \ {t} : pc'[u] = pc[u]
      BY <1>4, <3>1 DEF CallTypeOK, Set, Unlocked
    <3>3. Alone(t) /\ WhereOf(t)' /\ ReturnsOf(t)'
      BY <1>1, <1>4, <2>0, <3>1, <3>2 DEF Alone, WhereOf, ReturnsOf
    <3> QED  BY <2>0, <2>2, <3>2, <3>3
  <2>3. CASE after[t] = "mbox"
    <3>1. pc' = Set(pc, t, "mbox") /\ cont' = Set(cont, t, "rtwait")
      BY <2>3 DEF RtDone
    <3>2. /\ pc'[t] = "mbox" /\ "mbox" \in Unlocked /\ cont'[t] = "rtwait"
          /\ \A u \in Tasks \ {t} : pc'[u] = pc[u] /\ cont'[u] = cont[u]
      BY <1>4, <3>1 DEF CallTypeOK, Set, Unlocked
    <3>3. "rtwait" \notin Waits /\ "rtwait" # None
      BY DEF Waits, None
    <3>4. Alone(t) /\ WhereOf(t)' /\ ReturnsOf(t)'
      BY <1>4, <2>0, <3>2, <3>3 DEF Alone, WhereOf, ReturnsOf
    <3> QED  BY <2>0, <2>3, <3>2, <3>4
  <2>4. CASE after[t] \notin {"unlock", "recover", "work", "mbox"}
    <3>1. pc' = Set(pc, t, "zz") /\ cont' = Set(cont, t, after[t])
      BY <2>4 DEF RtDone, GoZZ
    <3>2. /\ pc'[t] = "zz" /\ "zz" \in Unlocked /\ cont'[t] = after[t]
          /\ \A u \in Tasks \ {t} : pc'[u] = pc[u] /\ cont'[u] = cont[u]
      BY <1>4, <3>1 DEF CallTypeOK, Set, Unlocked
    <3>3. after[t] # "rtpoll"
      BY <1>1 DEF Afters, Waits
    <3>4. Alone(t) /\ WhereOf(t)' /\ ReturnsOf(t)'
      BY <1>1, <1>4, <2>0, <3>2, <3>3 DEF Alone, WhereOf, ReturnsOf
    <3>5. after[t] \in Waits => Awaits(t)'
      BY <3>2 DEF Awaits
    <3> QED  BY <3>2, <3>4, <3>5
  <2> QED  BY <2>1, <2>2, <2>3, <2>4
<1>6. prim'.st = "pending" => \/ q' \/ Awaits(t)'
                              \/ prim.st = "pending" /\ ~Awaits(t) /\ (q => q')
  BY <1>1, <1>5 DEF wireVars
<1>7. side' = "pending" => \/ mq' \/ pc'[t] \in {"rtside", "qside"}
                           \/ /\ side = "pending" /\ pc[t] \notin {"rtside", "qside"}
                              /\ mq => mq'
  BY DEF wireVars, RtPlaces
<1> QED  BY <1>1, <1>3, <1>5, <1>6, <1>7, StepKept DEF wireVars

\* poll_rt_iso goes on with another command, its STOP.
LEMMA RtRepeats ==
  ASSUME IInv, NEW t \in Tasks, pc[t] \in RtPlaces, pc' = Set(pc, t, "rtpoll"),
         rt' = "stopping", kind' \in [Tasks -> {"io", "stop"}],
         UNCHANGED <<wireVars, v2, mbox, fg, workVars, job, ret, left, todo>>,
         UNCHANGED <<zz, cont, after>>,
         q' \in BOOLEAN, mq' \in BOOLEAN, q => q', mq => mq',
         pc[t] = "rtprim" /\ prim.st = "pending" => q',
         pc[t] = "rtside" /\ side = "pending" => mq'
  PROVE  IInv'
<1>1. /\ zz = t /\ cont[t] \notin Waits /\ after[t] # None /\ after[t] \in Afters
      /\ Awaits(t) => pc[t] = "rtprim" \/ after[t] \in Waits
  BY RtFacts
<1>2. /\ pc' \in [Tasks -> Places] /\ pc'[t] = "rtpoll"
      /\ cont'[t] = cont[t] /\ after'[t] = after[t] /\ Alone(t)
  <2>1. "rtpoll" \in Places /\ CallTypeOK
    BY Names DEF IInv, TypeOK
  <2> QED  BY <2>1, OnlyMoves
<1>3. TypeOK'
  <2>1. CallTypeOK'
    BY <1>2 DEF IInv, TypeOK, CallTypeOK
  <2>2. FlagTypeOK'
    BY DEF IInv, TypeOK, FlagTypeOK, workVars
  <2> QED  BY <2>1, <2>2, SameTypes DEF IInv, TypeOK
<1>4. WhereOf(t)' /\ ReturnsOf(t)' /\ (after[t] \in Waits => Awaits(t)')
  BY <1>1, <1>2 DEF WhereOf, ReturnsOf, Awaits
<1>5. prim'.st = "pending" => \/ q' \/ Awaits(t)'
                              \/ prim.st = "pending" /\ ~Awaits(t) /\ (q => q')
  BY <1>1, <1>4 DEF wireVars
<1>6. side' = "pending" => \/ mq' \/ pc'[t] \in {"rtside", "qside"}
                           \/ /\ side = "pending" /\ pc[t] \notin {"rtside", "qside"}
                              /\ mq => mq'
  BY DEF wireVars, RtPlaces
<1> QED  BY <1>1, <1>2, <1>3, <1>4, <1>5, <1>6, StepKept DEF wireVars

\* A realtime ISO command ends, one way or the other.
LEMMA RtResultKept ==
  ASSUME IInv, NEW t \in Tasks, pc[t] \in RtPlaces, NEW k, NEW r, RtResult(t, k, r),
         UNCHANGED <<wireVars, v2, mbox, fg, workVars, job, ret, left, todo>>,
         q' \in BOOLEAN, mq' \in BOOLEAN, q => q', mq => mq',
         pc[t] = "rtprim" /\ prim.st = "pending" => q',
         pc[t] = "rtside" /\ side = "pending" => mq'
  PROVE  IInv'
<1>1. kind' \in [Tasks -> {"io", "stop"}]
  BY SetEntry DEF RtResult, IInv, TypeOK, CallTypeOK
<1>2. CASE k = "io" /\ r \notin {"ok", "busy"}
  <2>1. rt' = "stopping" /\ pc' = Set(pc, t, "rtpoll") /\ UNCHANGED <<zz, cont, after>>
    BY <1>2 DEF RtResult
  <2> QED  BY <1>1, <2>1, RtRepeats
<1>3. CASE ~(k = "io" /\ r \notin {"ok", "busy"})
  <2>1. RtDone(t) /\ rt' \in {None, "running", "stopping"}
    BY <1>3 DEF RtResult, IInv, TypeOK, FlagTypeOK
  <2> QED  BY <1>1, <2>1, RtLeaves
<1> QED  BY <1>2, <1>3

\* The types of the flags a realtime ISO step may set.
LEMMA RtValues ==
  ASSUME IInv
  PROVE  /\ q \in BOOLEAN /\ mq \in BOOLEAN /\ rt \in {None, "running", "stopping"}
         /\ kind \in [Tasks -> {"io", "stop"}]
BY DEF IInv, TypeOK, FlagTypeOK, CallTypeOK

\* stop_rt_iso_for_unit.
LEMMA StopRtKeeps ==
  ASSUME IInv, NEW t \in Tasks, stop_rt_iso_for_unit(t)
  PROVE  IInv'
<1>1. /\ pc[t] = "rtstop"
      /\ UNCHANGED <<wireVars, protoVars, mbox, fg, workVars, job, kind, ret, left, todo>>
  BY DEF stop_rt_iso_for_unit
<1>2. pc[t] \in RtPlaces /\ UNCHANGED <<q, mq, v2>>
  BY <1>1 DEF RtPlaces, protoVars
<1>3. CASE rt = None
  BY <1>1, <1>2, <1>3, RtValues, RtLeaves DEF stop_rt_iso_for_unit
<1>4. CASE rt # None
  BY <1>1, <1>2, <1>4, RtValues, RtRepeats DEF stop_rt_iso_for_unit
<1> QED  BY <1>3, <1>4

\* poll_rt_iso with nothing to do.
LEMMA RtIdleKeeps ==
  ASSUME IInv, NEW t \in Tasks, RtIdle(t)
  PROVE  IInv'
<1>1. /\ pc[t] = "rtpoll" /\ RtDone(t)
      /\ UNCHANGED <<wireVars, protoVars, mbox, fg, rt, workVars, job, kind, ret, left, todo>>
  BY DEF RtIdle
<1>2. pc[t] \in RtPlaces /\ UNCHANGED <<q, mq, v2>>
  BY <1>1 DEF RtPlaces, protoVars
<1> QED  BY <1>1, <1>2, RtValues, RtLeaves

\* send_usb_cmd_maintenance refuses over a quarantine.
LEMMA RtRefusedKeeps ==
  ASSUME IInv, NEW t \in Tasks, RtRefused(t)
  PROVE  IInv'
<1>1. /\ pc[t] = "rtpoll" /\ RtResult(t, RtKind, "err")
      /\ UNCHANGED <<wireVars, protoVars, mbox, fg, workVars, job, ret, left, todo>>
  BY DEF RtRefused
<1>2. pc[t] \in RtPlaces /\ UNCHANGED <<q, mq, v2>>
  BY <1>1 DEF RtPlaces, protoVars
<1> QED  BY <1>1, <1>2, RtValues, RtResultKept

\* send_usb_cmd_sideband ends; a command left pending is quarantined.
LEMMA RtSideEndsKeeps ==
  ASSUME IInv, NEW t \in Tasks, RtSideEnds(t)
  PROVE  IInv'
<1>1. /\ pc[t] = "rtside" /\ pc[t] \in RtPlaces
      /\ UNCHANGED <<wireVars, v2, mbox, fg, workVars, job, ret, left, todo>>
  BY DEF RtSideEnds, RtPlaces
<1>3. PICK r \in Statuses : /\ RtResult(t, kind[t], r)
                            /\ \/ UNCHANGED <<q, mq>> /\ side # "pending"
                               \/ q' = TRUE /\ mq' = TRUE
  BY Names DEF RtSideEnds
<1>4. CASE UNCHANGED <<q, mq>> /\ side # "pending"
  BY <1>1, <1>3, <1>4, RtValues, RtResultKept
<1>5. CASE q' = TRUE /\ mq' = TRUE
  <2>1. q' \in BOOLEAN /\ mq' \in BOOLEAN /\ (q => q') /\ (mq => mq')
    BY <1>5
  <2> QED  BY <1>1, <1>3, <1>5, <2>1, RtResultKept
<1> QED  BY <1>3, <1>4, <1>5

\* The same on the primary mailbox.
LEMMA RtPrimEndsKeeps ==
  ASSUME IInv, NEW t \in Tasks, RtPrimEnds(t)
  PROVE  IInv'
<1>1. /\ pc[t] = "rtprim" /\ pc[t] \in RtPlaces /\ mq' = mq
      /\ UNCHANGED <<wireVars, v2, mbox, fg, workVars, job, ret, left, todo>>
  BY DEF RtPrimEnds, RtPlaces
<1>2. PICK r \in Statuses : /\ RtResult(t, kind[t], r)
                            /\ \/ q' = q /\ prim.st # "pending"
                               \/ q' = TRUE
  BY Names DEF RtPrimEnds
<1>3. CASE q' = q /\ prim.st # "pending"
  BY <1>1, <1>2, <1>3, RtValues, RtResultKept
<1>4. CASE q' = TRUE
  <2>1. q' \in BOOLEAN /\ mq' \in BOOLEAN /\ (q => q') /\ (mq => mq')
    BY <1>1, <1>4, RtValues
  <2> QED  BY <1>1, <1>2, <1>4, <2>1, RtResultKept
<1> QED  BY <1>2, <1>3, <1>4

\* send_usb_cmd_maintenance writes a mailbox and waits on it.
LEMMA RtSendKeeps ==
  ASSUME IInv, NEW t \in Tasks, RtSend(t)
  PROVE  IInv'
<1>1. /\ pc[t] = "rtpoll" /\ kind' = Set(kind, t, RtKind)
      /\ UNCHANGED <<protoVars, lockVars, fg, rt, workVars, job, cont, after, ret, left, todo>>
  BY DEF RtSend
<1>2. PICK p \in {"rtside", "rtprim"} :
        /\ pc' = Set(pc, t, p)
        /\ \/ p = "rtside" /\ side' = "pending" /\ UNCHANGED <<prim, run>>
           \/ p = "rtprim" /\ Post(RtOf(t)) /\ side' = side
  BY DEF RtSend
<1>3. /\ zz = t /\ cont[t] \notin Waits /\ after[t] # None
      /\ Awaits(t) => pc[t] = "rtprim" \/ after[t] \in Waits
  BY <1>1, RtFacts DEF RtPlaces
<1>4. /\ pc' \in [Tasks -> Places] /\ pc'[t] = p
      /\ cont'[t] = cont[t] /\ after'[t] = after[t] /\ Alone(t)
  <2>1. p \in Places /\ CallTypeOK
    BY Names DEF IInv, TypeOK
  <2> QED  BY <1>1, <1>2, <2>1, OnlyMoves
<1>5. TypeOK'
  <2>1. RtKind \in {"io", "stop"} /\ RtOf(t) \in Ids
    BY DEF RtKind, RtOf, Ids
  <2>2. CallTypeOK'
    <3>1. kind' \in [Tasks -> {"io", "stop"}]
      BY <1>1, <2>1, RtValues, SetEntry
    <3> QED  BY <1>1, <1>4, <3>1 DEF IInv, TypeOK, CallTypeOK
  <2>3. WireTypeOK'
    <3>1. CASE p = "rtside" /\ side' = "pending" /\ UNCHANGED <<prim, run>>
      BY <3>1 DEF IInv, TypeOK, WireTypeOK
    <3>2. CASE p = "rtprim" /\ Post(RtOf(t)) /\ side' = side
      BY <2>1, <3>2, PostType DEF IInv, TypeOK, WireTypeOK
    <3> QED  BY <1>2, <3>1, <3>2
  <2> QED  BY <1>1, <2>2, <2>3, SameTypes DEF IInv, TypeOK
<1>6. WhereOf(t)' /\ ReturnsOf(t)'
  BY <1>3, <1>4 DEF WhereOf, ReturnsOf
<1>7. prim'.st = "pending" => \/ q' \/ Awaits(t)'
                              \/ prim.st = "pending" /\ ~Awaits(t) /\ (q => q')
  BY <1>1, <1>2, <1>3, <1>4 DEF Awaits, protoVars
<1>8. side' = "pending" => \/ mq' \/ pc'[t] \in {"rtside", "qside"}
                           \/ /\ side = "pending" /\ pc[t] \notin {"rtside", "qside"}
                              /\ mq => mq'
  BY <1>1, <1>2, <1>4 DEF protoVars
<1> QED  BY <1>1, <1>3, <1>4, <1>5, <1>6, <1>7, <1>8, StepKept DEF lockVars

-----------------------------------------------------------------------------
(* Recovery.                                                               *)

\* A step of recovery moves the worker, which waits for no other answer.
LEMMA RecoveryMoves ==
  ASSUME IInv, pc[Worker] \in {"recover", "qside", "qwait"},
         NEW p \in Places, p \notin Unlocked \cup RtPlaces, pc' = Set(pc, Worker, p),
         UNCHANGED <<lockVars, fg, rt, workVars, job, cont, after, kind, ret, todo>>,
         left' \in [Tasks -> 0..MaxServe],
         q' \in BOOLEAN, mq' \in BOOLEAN, v2' \in BOOLEAN
  PROVE  /\ Worker \in Tasks /\ zz = Worker /\ zz' = zz /\ Alone(Worker) /\ pc'[Worker] = p
         /\ FlagTypeOK' /\ CallTypeOK' /\ WhereOf(Worker)' /\ ReturnsOf(Worker)'
         /\ Awaits(Worker) <=> pc[Worker] = "qwait"
<1>1. Worker \in Tasks /\ zz = Worker
  BY Names, HasLock DEF Unlocked
<1>2. cont[Worker] \notin Waits /\ after[Worker] \notin Waits
  BY <1>1 DEF IInv, Where
<1>3. /\ pc' \in [Tasks -> Places] /\ pc'[Worker] = p
      /\ cont'[Worker] = cont[Worker] /\ after'[Worker] = after[Worker] /\ Alone(Worker)
  BY <1>1, OnlyMoves DEF IInv, TypeOK
<1>4. FlagTypeOK'
  BY DEF IInv, TypeOK, FlagTypeOK, lockVars, workVars
<1>5. CallTypeOK'
  BY <1>3 DEF IInv, TypeOK, CallTypeOK
<1>6. WhereOf(Worker)' /\ ReturnsOf(Worker)'
  BY <1>2, <1>3 DEF WhereOf, ReturnsOf, Unlocked, RtPlaces
<1>7. Awaits(Worker) <=> pc[Worker] = "qwait"
  BY <1>2 DEF Awaits, Waits
<1> QED  BY <1>1, <1>3, <1>4, <1>5, <1>6, <1>7 DEF lockVars

\* Where recovery returns to is under zz_Lock.
LEMMA RecoveredPlace ==
  /\ Recovered \in {"cleanup", "cleanup2", "send", "release"} /\ Recovered \in Places
  /\ Recovered \notin Unlocked \cup RtPlaces /\ Recovered \notin {"qside", "qwait"}
<1>1. Recovered \in {"cleanup", "cleanup2", "send", "release"}
  BY DEF Recovered
<1> QED  BY <1>1 DEF Places, Unlocked, RtPlaces

\* recover_quarantined_proxy: only with both mailboxes terminal is the query sent.
LEMMA RecoverKeeps ==
  ASSUME IInv, recover_quarantined_proxy
  PROVE  IInv'
<1>1. /\ pc[Worker] = "recover" /\ mq' = (mq /\ side = "pending")
      /\ UNCHANGED <<prim, run, lockVars, fg, rt, workVars, callVars>>
  BY DEF recover_quarantined_proxy
<1>2. mq' \in BOOLEAN /\ v2 \in BOOLEAN /\ q \in BOOLEAN /\ left \in [Tasks -> 0..MaxServe]
      /\ UNCHANGED <<job, cont, after, kind, ret, left, todo>>
  BY <1>1 DEF IInv, TypeOK, FlagTypeOK, CallTypeOK, callVars
<1>3. CASE q /\ ~mq' /\ prim.st # "pending"
  <2>1. q' = FALSE /\ v2' = FALSE /\ side' = "pending" /\ pc' = Set(pc, Worker, "qside")
    BY <1>3 DEF recover_quarantined_proxy
  <2>2. "qside" \in Places /\ "qside" \notin Unlocked \cup RtPlaces
    BY DEF Places, Unlocked, RtPlaces
  <2>3. /\ Worker \in Tasks /\ zz = Worker /\ zz' = zz /\ Alone(Worker) /\ pc'[Worker] = "qside"
        /\ FlagTypeOK' /\ CallTypeOK' /\ WhereOf(Worker)' /\ ReturnsOf(Worker)'
    BY <1>1, <1>2, <2>1, <2>2, RecoveryMoves
  <2>4. TypeOK'
    BY <1>1, <2>1, <2>3 DEF IInv, TypeOK, WireTypeOK
  <2> QED  BY <1>1, <1>3, <2>3, <2>4, StepKept
<1>4. CASE ~(q /\ ~mq' /\ prim.st # "pending")
  <2>1. pc' = Set(pc, Worker, Recovered) /\ UNCHANGED <<q, v2, side>>
    BY <1>4 DEF recover_quarantined_proxy
  <2>2. PICK p \in Places : p = Recovered /\ p \notin Unlocked \cup RtPlaces /\ p # "qside"
    BY RecoveredPlace
  <2>3. /\ Worker \in Tasks /\ zz = Worker /\ zz' = zz /\ Alone(Worker) /\ pc'[Worker] = p
        /\ FlagTypeOK' /\ CallTypeOK' /\ WhereOf(Worker)' /\ ReturnsOf(Worker)'
        /\ ~Awaits(Worker)
    BY <1>1, <1>2, <2>1, <2>2, RecoveryMoves
  <2>4. TypeOK'
    BY <1>1, <2>1, <2>3 DEF IInv, TypeOK, WireTypeOK
  <2>5. side' = "pending" => side = "pending" /\ (mq => mq')
    BY <1>1, <2>1
  <2> QED  BY <1>1, <2>1, <2>2, <2>3, <2>4, <2>5, StepKept
<1> QED  BY <1>3, <1>4

\* The sideband answers the query.
LEMMA QuerySideKeeps ==
  ASSUME IInv, QuerySideOk \/ QuerySidePoor
  PROVE  IInv'
<1>1. /\ pc[Worker] = "qside" /\ side = "idle" /\ pc' = Set(pc, Worker, Recovered)
      /\ v2' \in BOOLEAN /\ q' \in BOOLEAN
      /\ UNCHANGED <<wireVars, mq, lockVars, fg, rt, workVars, callVars>>
  BY DEF QuerySideOk, QuerySidePoor, Negotiated
<1>2. mq' \in BOOLEAN /\ left' \in [Tasks -> 0..MaxServe]
      /\ UNCHANGED <<job, cont, after, kind, ret, todo>>
  BY <1>1 DEF IInv, TypeOK, FlagTypeOK, CallTypeOK, callVars
<1>3. PICK p \in Places : p = Recovered /\ p \notin Unlocked \cup RtPlaces /\ p # "qside"
  BY RecoveredPlace
<1>4. /\ Worker \in Tasks /\ zz = Worker /\ zz' = zz /\ Alone(Worker) /\ pc'[Worker] = p
      /\ FlagTypeOK' /\ CallTypeOK' /\ WhereOf(Worker)' /\ ReturnsOf(Worker)'
  BY <1>1, <1>2, <1>3, RecoveryMoves
<1>5. TypeOK'
  BY <1>1, <1>4, SameTypes DEF IInv, TypeOK
<1>6. prim'.st # "pending" /\ side' # "pending"
  BY <1>1, Names DEF IInv, QueryOver, wireVars
<1> QED  BY <1>3, <1>4, <1>5, <1>6, StepKept

\* The query goes to the primary mailbox; an unanswered sideband is quarantined.
LEMMA QuerySideFailsKeeps ==
  ASSUME IInv, QuerySideFails
  PROVE  IInv'
<1>1. /\ pc[Worker] = "qside" /\ Post("query") /\ pc' = Set(pc, Worker, "qwait")
      /\ left' = Set(left, Worker, MaxServe)
      /\ UNCHANGED <<side, q, v2, lockVars, fg, rt, workVars, job, cont, after, kind, ret, todo>>
  BY DEF QuerySideFails
<1>2. mq' \in BOOLEAN /\ v2' \in BOOLEAN /\ q' \in BOOLEAN /\ (side' = "pending" => mq')
  BY DEF QuerySideFails, IInv, TypeOK, FlagTypeOK
<1>3. left' \in [Tasks -> 0..MaxServe]
  <2>1. MaxServe \in 0..MaxServe
    BY SizesAssumption
  <2> QED  BY <1>1, <2>1, Names, SetEntry DEF IInv, TypeOK, CallTypeOK
<1>4. "qwait" \in Places /\ "qwait" \notin Unlocked \cup RtPlaces
  BY DEF Places, Unlocked, RtPlaces
<1>5. /\ Worker \in Tasks /\ zz = Worker /\ zz' = zz /\ Alone(Worker) /\ pc'[Worker] = "qwait"
      /\ FlagTypeOK' /\ CallTypeOK' /\ WhereOf(Worker)' /\ ReturnsOf(Worker)'
  BY <1>1, <1>2, <1>3, <1>4, RecoveryMoves
<1>6. TypeOK'
  <2>1. "query" \in Ids
    BY DEF Ids
  <2> QED  BY <1>1, <1>5, <2>1, PostType DEF IInv, TypeOK, WireTypeOK
<1>7. Awaits(Worker)'
  BY <1>5 DEF Awaits, Waits
<1> QED  BY <1>2, <1>5, <1>6, <1>7, StepKept

\* The query on the primary mailbox ends: v2, or quarantined again.
LEMMA QueryPrimaryEndsKeeps ==
  ASSUME IInv, QueryPrimaryEnds
  PROVE  IInv'
<1>1. /\ pc[Worker] = "qwait" /\ pc' = Set(pc, Worker, Recovered) /\ left' = Set(left, Worker, 0)
      /\ v2' \in BOOLEAN /\ q' \in BOOLEAN /\ (prim.st = "pending" => q')
      /\ UNCHANGED <<wireVars, mq, lockVars, fg, rt, workVars, job, cont, after, kind, ret, todo>>
  <2>0. \/ prim = [st |-> "done", by |-> "query"] /\ Negotiated(TRUE)
        \/ Negotiated(FALSE)
    BY DEF QueryPrimaryEnds
  <2>1. \/ prim.st # "pending" /\ Negotiated(TRUE)
        \/ Negotiated(FALSE)
    <3>1. CASE prim = [st |-> "done", by |-> "query"]
      <4>1. prim.st # "pending"
        BY <3>1
      <4> QED  BY <2>0, <4>1
    <3> QED  BY <2>0, <3>1
  <2>2. v2' \in BOOLEAN /\ q' \in BOOLEAN /\ (prim.st = "pending" => q')
    BY <2>1 DEF Negotiated
  <2> QED  BY <2>2 DEF QueryPrimaryEnds, Negotiated
<1>2. mq' \in BOOLEAN
  BY <1>1 DEF IInv, TypeOK, FlagTypeOK
<1>3. left' \in [Tasks -> 0..MaxServe]
  BY <1>1, Names, SetEntry DEF IInv, TypeOK, CallTypeOK
<1>4. PICK p \in Places : p = Recovered /\ p \notin Unlocked \cup RtPlaces /\ p # "qside"
  BY RecoveredPlace
<1>5. /\ Worker \in Tasks /\ zz = Worker /\ zz' = zz /\ Alone(Worker) /\ pc'[Worker] = p
      /\ FlagTypeOK' /\ CallTypeOK' /\ WhereOf(Worker)' /\ ReturnsOf(Worker)'
  BY <1>1, <1>2, <1>3, <1>4, RecoveryMoves
<1>6. TypeOK'
  BY <1>1, <1>5, SameTypes DEF IInv, TypeOK
<1>7. (prim'.st = "pending" => q') /\ prim' = prim /\ side' = side /\ mq' = mq
  BY <1>1 DEF wireVars
<1> QED  BY <1>1, <1>4, <1>5, <1>6, <1>7, StepKept

-----------------------------------------------------------------------------
(* Callers without a lock, and the firmware.                               *)

\* A step that moves no task and posts nothing.
LEMMA StillKept ==
  ASSUME IInv, TypeOK', UNCHANGED <<pc, cont, after, zz, q, mq>>,
         prim' = prim \/ prim'.st # "pending", side' = side \/ side' # "pending"
  PROVE  IInv'
<1>1. Locks' /\ Where' /\ Returns' /\ QueryOver'
  BY DEF IInv, Locks, Where, Returns, QueryOver
<1>2. MailboxFenced'
  BY DEF IInv, MailboxFenced, Awaits
<1> QED  BY <1>1, <1>2 DEF IInv

\* start_rt_iso_handler, stop_rt_iso_handler, AbortIO, and no step at all.
LEMMA LockFreeKeeps ==
  ASSUME IInv, RtStart \/ RtStop \/ AbortActive \/ UNCHANGED vars
  PROVE  IInv'
<1>1. /\ UNCHANGED <<wireVars, protoVars, lockVars, fg, cleanup, active, pc, callVars>>
      /\ rt' \in {"running", "stopping", rt} /\ (aborted' = TRUE \/ aborted' = aborted)
  BY DEF RtStart, RtStop, AbortActive, vars, workVars
<1>2. FlagTypeOK'
  BY <1>1 DEF IInv, TypeOK, FlagTypeOK, protoVars, lockVars
<1>3. TypeOK'
  BY <1>1, <1>2, SameTypes DEF IInv, TypeOK
<1> QED  BY <1>1, <1>3, StillKept DEF wireVars, protoVars, lockVars, callVars

\* The firmware answers, in time or late.
LEMMA FirmwareKeeps ==
  ASSUME IInv, FwPrimary \/ FwSide
  PROVE  IInv'
<1>1. UNCHANGED <<protoVars, lockVars, fg, rt, workVars, pc, callVars>>
  BY DEF FwPrimary, FwSide
<1>2. /\ prim' = prim \/ \E id \in run : prim' = [st |-> "done", by |-> id]
      /\ run' \subseteq run /\ side' \in {side, "idle"}
  BY DEF FwPrimary, FwSide
<1>3. WireTypeOK' /\ (prim' = prim \/ prim'.st # "pending")
  BY <1>2 DEF IInv, TypeOK, WireTypeOK
<1>4. TypeOK'
  BY <1>1, <1>3, SameTypes DEF IInv, TypeOK
<1> QED  BY <1>1, <1>2, <1>3, <1>4, StillKept DEF protoVars, lockVars, callVars

-----------------------------------------------------------------------------
(* Who writes the maintenance mailbox.                                     *)

\* No task comes to a wait on the maintenance mailbox.
Elsewhere == \A u \in Tasks : pc'[u] = pc[u] \/ pc'[u] \notin {"rtside", "qside"}

\* A task moves to another place than these.
LEMMA GoElsewhere ==
  ASSUME IInv, NEW t \in Tasks, NEW p, p \notin {"rtside", "qside"}, pc' = Set(pc, t, p)
  PROVE  Elsewhere
BY DEF Elsewhere, Set, IInv, TypeOK, CallTypeOK

\* poll_rt_iso is over or sends another command.
LEMMA RtElsewhere ==
  ASSUME IInv, NEW t \in Tasks, pc[t] \in RtPlaces,
         RtDone(t) \/ pc' = Set(pc, t, "rtpoll")
  PROVE  Elsewhere
<1>1. after[t] \in Afters
  BY RtFacts
<1>2. CASE RtDone(t)
  <2>1. \E p \in {"unlock", "recover", "work", "mbox", "zz"} : pc' = Set(pc, t, p)
    BY <1>2 DEF RtDone, GoZZ
  <2> QED  BY <2>1, GoElsewhere
<1>3. CASE pc' = Set(pc, t, "rtpoll")
  BY <1>3, GoElsewhere
<1> QED  BY <1>2, <1>3

\* Of a task's calls only RtSend comes there.
LEMMA CallElsewhere ==
  ASSUME IInv, NEW t \in Tasks, Call(t) \/ RealtimeIso(t), ~RtSend(t)
  PROVE  Elsewhere
<1>1. CASE Call(t)
  <2>1. \E p \in {"zz", "wait", "drain", "done"} : pc' = Set(pc, t, p)
    BY <1>1 DEF Call, SendPlain, send_usb_cmd_with_rt_wait, ServiceFirst, send_usb_cmd_with_rt_service,
       Send, Return, GoZZ, WaitAnswered, Answered, WaitTimeout, WaitAborted, DrainEnds, WaitServe
  <2> QED  BY <2>1, GoElsewhere
<1>2. CASE RealtimeIso(t)
  <2>1. pc[t] \in RtPlaces /\ (RtDone(t) \/ pc' = Set(pc, t, "rtpoll"))
    BY <1>2 DEF RealtimeIso, stop_rt_iso_for_unit, RtIdle, RtRefused, RtSideEnds, RtPrimEnds,
       RtResult, RtPlaces
  <2> QED  BY <2>1, RtElsewhere
<1> QED  BY <1>1, <1>2

\* Of the worker's own steps only recovery does.
LEMMA WorkerElsewhere ==
  ASSUME IInv,
         \/ Unlock(Worker) \/ QuerySideOk \/ QuerySidePoor \/ QuerySideFails \/ QueryPrimaryEnds
         \/ Sweep \/ poll_simple_iso_cleanup \/ CleanupDone \/ process_work_queue
         \/ XferDone \/ ResetBegins \/ ResetDone \/ CheckDone
         \/ IsoBegins \/ IsoServed \/ IsoQueueDone \/ IsoReapDone \/ IsoStopDone
         \/ FinishWork \/ PollPorts \/ PollDone \/ ReleasePoll
  PROVE  Elsewhere
<1>1. CASE Unlock(Worker) \/ QuerySideOk \/ QuerySidePoor \/ QuerySideFails \/ QueryPrimaryEnds
  <2>1. \E p \in {"finish", "cleanup", "cleanup2", "send", "release", "qwait", "idle"} : pc' = Set(pc, Worker, p)
    BY <1>1, RecoveredPlace DEF Unlock, QuerySideOk, QuerySidePoor, QuerySideFails, QueryPrimaryEnds, Negotiated
  <2> QED  BY <2>1, GoElsewhere, Names
<1>2. CASE Sweep \/ poll_simple_iso_cleanup \/ CleanupDone \/ process_work_queue
  <2>1. \E p \in {"zz", "recover", "send", "poll", "mbox"} : pc' = Set(pc, Worker, p)
    <3>1. CASE poll_simple_iso_cleanup
      <4>1. LeaveCleanup \/ GoJob(Worker, "sweep2", "recover") \/ GoJob(Worker, "cleanup", "send")
        BY <3>1, FlagValues DEF poll_simple_iso_cleanup
      <4> QED  BY <4>1 DEF LeaveCleanup, GoZZ, GoJob, Go
    <3>2. CASE Sweep \/ CleanupDone \/ process_work_queue
      BY <3>2 DEF Sweep, CleanupDone, LeaveCleanup, process_work_queue, GoZZ, GoJob, Go
    <3> QED  BY <1>2, <3>1, <3>2
  <2> QED  BY <2>1, GoElsewhere, Names
<1>3. CASE XferDone \/ ResetBegins \/ ResetDone \/ CheckDone
  <2>1. \E p \in {"unlock", "begin", "rtstop", "send"} : pc' = Set(pc, Worker, p)
    BY <1>3 DEF XferDone, ResetBegins, ResetDone, CheckDone, GoJob, Go
  <2> QED  BY <2>1, GoElsewhere, Names
<1>4. CASE IsoBegins \/ IsoServed \/ IsoReapDone \/ IsoStopDone
  <2>1. \E p \in {"unlock", "begin", "rtwait", "zz"} : pc' = Set(pc, Worker, p)
    BY <1>4, FlagValues DEF IsoBegins, IsoServed, IsoReapDone, IsoStopDone, Retire, GoZZ, GoJob, Go
  <2> QED  BY <2>1, GoElsewhere, Names
<1>5. CASE IsoQueueDone
  <2>1. \/ GoJob(Worker, "iso reap", "begin") \/ Retire \/ Go(Worker, "unlock")
    BY <1>5, FlagValues DEF IsoQueueDone
  <2>2. \E p \in {"unlock", "begin"} : pc' = Set(pc, Worker, p)
    BY <2>1 DEF Retire, GoJob, Go
  <2> QED  BY <2>2, GoElsewhere, Names
<1>6. CASE FinishWork \/ PollPorts \/ ReleasePoll \/ PollDone
  <2>1. \E p \in {"poll", "sweep", "zz", "release", "recover", "begin"} : pc' = Set(pc, Worker, p)
    BY <1>6 DEF FinishWork, PollPorts, ReleasePoll, PollDone, GoZZ, GoJob, Go
  <2> QED  BY <2>1, GoElsewhere, Names
<1> QED  BY <1>1, <1>2, <1>3, <1>4, <1>5, <1>6

\* The maintenance mailbox is written with zz_Lock, once nothing is pending
\* there.
LEMMA SidebandFree ==
  ASSUME IInv, NEW t \in Tasks, pc[t] \in {"rtpoll", "recover"}, side = "pending"
  PROVE  mq
<1> SUFFICES ASSUME ~mq  PROVE FALSE
  OBVIOUS
<1>1. PICK u \in Tasks : pc[u] \in {"rtside", "qside"}
  BY DEF IInv, MailboxFenced
<1>2. zz = u /\ zz = t
  BY <1>1, HasLock DEF Unlocked
<1> QED  BY <1>1, <1>2

-----------------------------------------------------------------------------
(* The theorems.                                                           *)

\* The proxy starts with both mailboxes terminal and no lock taken.
LEMMA InitHolds ==
  ASSUME Init
  PROVE  IInv
<1>1. WireTypeOK
  BY DEF Init, WireTypeOK, Ids
<1>2. FlagTypeOK
  BY DEF Init, FlagTypeOK
<1>3. CallTypeOK
  <2>1. pc \in [Tasks -> Places]
    BY DEF Init, Places
  <2>2. job \in [Tasks -> Jobs] /\ cont \in [Tasks -> Conts \cup {None}] /\ after \in [Tasks -> Afters \cup {None}]
    BY DEF Init, Jobs
  <2>3. kind \in [Tasks -> {"io", "stop"}] /\ ret \in [Tasks -> Statuses]
    BY DEF Init, Statuses
  <2>4. left \in [Tasks -> 0..MaxServe] /\ todo \in [Tasks -> 0..NumCmds]
    BY Names DEF Init
  <2> QED  BY <2>1, <2>2, <2>3, <2>4 DEF CallTypeOK
<1>4. \A t \in Tasks : pc[t] \in {"sweep", "idle"} /\ cont[t] = None /\ after[t] = None
  BY DEF Init
<1>5. None \notin Waits
  BY DEF None, Waits
<1>6. Locks /\ Where /\ Returns
  BY <1>4, <1>5 DEF Locks, Unlocked, Where, Returns
<1>7. QueryOver /\ MailboxFenced
  BY DEF Init, QueryOver, MailboxFenced
<1> QED  BY <1>1, <1>2, <1>3, <1>6, <1>7 DEF IInv, TypeOK

\* A step of send_usb_cmd or of realtime ISO.
LEMMA CallKeeps ==
  ASSUME IInv, NEW t \in Tasks, Call(t) \/ RealtimeIso(t)
  PROVE  IInv'
<1>1. CASE Call(t)
  BY <1>1, SendPlainKeeps, SendRtWaitKeeps, ServiceFirstKeeps, WaitAnsweredKeeps,
     WaitEndsKeeps, WaitAbortedKeeps, WaitServeKeeps DEF Call
<1>2. CASE RealtimeIso(t)
  BY <1>2, StopRtKeeps, RtIdleKeeps, RtRefusedKeeps, RtSendKeeps, RtSideEndsKeeps,
     RtPrimEndsKeeps DEF RealtimeIso
<1> QED  BY <1>1, <1>2

\* Every step keeps the invariant.
LEMMA NextKeeps ==
  ASSUME IInv, [Next]_vars
  PROVE  IInv'
<1>1. ASSUME NEW t \in Tasks, ObtainMailbox(t) \/ ObtainZZ(t)
      PROVE  IInv'
  BY <1>1, ObtainMailboxKeeps, ObtainZZKeeps
<1>2. CASE WorkerStep
  <2>1. CASE Call(Worker) \/ RealtimeIso(Worker) \/ Unlock(Worker)
    BY <2>1, CallKeeps, UnlockKeeps, Names
  <2>2. CASE Recovery
    BY <2>2, RecoverKeeps, QuerySideKeeps, QuerySideFailsKeeps, QueryPrimaryEndsKeeps DEF Recovery
  <2>3. CASE Sweep \/ poll_simple_iso_cleanup \/ CleanupDone \/ process_work_queue
    BY <2>3, SweepKeeps, CleanupKeeps, CleanupDoneKeeps, WorkQueueKeeps
  <2>4. CASE XferDone \/ ResetBegins \/ ResetDone \/ CheckDone
    BY <2>4, XferDoneKeeps, ResetBeginsKeeps, ResetDoneKeeps, CheckDoneKeeps
  <2>5. CASE IsoBegins \/ IsoServed \/ IsoQueueDone \/ IsoReapDone \/ IsoStopDone
    BY <2>5, IsoBeginsKeeps, IsoServedKeeps, IsoQueueDoneKeeps, IsoReapDoneKeeps, IsoStopDoneKeeps
  <2>6. CASE FinishWork \/ PollPorts \/ PollDone \/ ReleasePoll
    BY <2>6, FinishWorkKeeps, PollPortsKeeps, PollDoneKeeps, ReleasePollKeeps
  <2> QED  BY <1>2, <2>1, <2>2, <2>3, <2>4, <2>5, <2>6 DEF WorkerStep
<1>3. CASE FlusherStep
  <2>1. CASE Call(Flusher) \/ RealtimeIso(Flusher) \/ Unlock(Flusher)
    BY <2>1, CallKeeps, UnlockKeeps, Names
  <2>2. CASE FlushNext \/ FlushStopDone
    BY <2>2, FlushNextKeeps, FlushStopDoneKeeps
  <2> QED  BY <1>3, <2>1, <2>2 DEF FlusherStep
<1>4. CASE Flush
  BY <1>4, FlushKeeps
<1>5. CASE AbortActive \/ RtStart \/ RtStop \/ UNCHANGED vars
  BY <1>5, LockFreeKeeps
<1>6. CASE FwPrimary \/ FwSide
  BY <1>6, FirmwareKeeps
<1> QED  BY <1>1, <1>2, <1>3, <1>4, <1>5, <1>6 DEF Next

\* The invariant holds of every behaviour.
LEMMA Inductive == Spec => []IInv
<1>1. Init => IInv
  BY InitHolds
<1>2. IInv /\ [Next]_vars => IInv'
  BY NextKeeps
<1> QED  BY <1>1, <1>2, PTL DEF Spec

\* Every variable keeps its kind, whoever holds which lock.
THEOREM TypeCorrect == Spec => []TypeOK
<1>1. IInv => TypeOK
  BY DEF IInv
<1> QED  BY <1>1, Inductive, PTL

\* A mailbox the firmware may still write is awaited or quarantined: whatever
\* times out, is aborted or drops zz_Lock for realtime ISO, send_usb_cmd_wire,
\* send_usb_cmd_sideband and recovery never leave one open.
THEOREM PendingIsFenced == Spec => []MailboxFenced
<1>1. IInv => MailboxFenced
  BY DEF IInv
<1> QED  BY <1>1, Inductive, PTL

\* recover_quarantined_proxy writes no query over a pending primary command,
\* and nobody writes the maintenance mailbox over a pending command.
THEOREM NeverOverwritten == Spec => RecoveryNeverOverwrites
<1> DEFINE Kept ==
      \A t \in Tasks :
        pc'[t] # pc[t] =>
          /\ (pc'[t] = "qwait" /\ pc[t] = "qside") => prim.st # "pending"
          /\ pc'[t] \in {"rtside", "qside"} => side # "pending"
<1>1. ASSUME IInv, Elsewhere
      PROVE  Kept
  BY <1>1 DEF Elsewhere, IInv, QueryOver
<1>2. ASSUME IInv, NEW t \in Tasks, RtSend(t)
      PROVE  Kept
  <2>1. PICK p \in {"rtside", "rtprim"} :
          pc' = Set(pc, t, p) /\ pc[t] = "rtpoll" /\ (p = "rtside" => ~mq)
    BY <1>2 DEF RtSend
  <2>2. p = "rtside" => side # "pending"
    BY <1>2, <2>1, SidebandFree
  <2>3. \A u \in Tasks : pc'[u] = IF u = t THEN p ELSE pc[u]
    BY <1>2, <2>1 DEF Set, IInv, TypeOK, CallTypeOK
  <2> QED  BY <2>1, <2>2, <2>3
<1>3. ASSUME IInv, recover_quarantined_proxy
      PROVE  Kept
  <2>1. pc[Worker] = "recover" /\ mq' = (mq /\ side = "pending") /\ Worker \in Tasks
    BY <1>3, Names DEF recover_quarantined_proxy
  <2>2. CASE q /\ ~mq' /\ prim.st # "pending"
    <3>1. side # "pending"
      BY <1>3, <2>1, <2>2, SidebandFree
    <3>2. \A u \in Tasks : pc'[u] # pc[u] => pc'[u] = "qside"
      BY <1>3, <2>1, <2>2 DEF recover_quarantined_proxy, Set, IInv, TypeOK, CallTypeOK
    <3> QED  BY <3>1, <3>2
  <2>3. CASE ~(q /\ ~mq' /\ prim.st # "pending")
    <3>1. pc' = Set(pc, Worker, Recovered)
      BY <1>3, <2>3 DEF recover_quarantined_proxy
    <3> QED  BY <1>1, <1>3, <2>1, <3>1, RecoveredPlace, GoElsewhere
  <2> QED  BY <2>2, <2>3
<1>4. ASSUME IInv, NEW t \in Tasks, ObtainMailbox(t) \/ ObtainZZ(t)
      PROVE  Kept
  <2>1. CASE ObtainMailbox(t)
    BY <1>1, <1>4, <2>1, GoElsewhere DEF ObtainMailbox
  <2>2. CASE ObtainZZ(t)
    <3>1. pc[t] = "zz" /\ pc' = Set(pc, t, cont[t])
      BY <2>2 DEF ObtainZZ
    <3>2. cont[t] \in Conts
      BY <1>4, <3>1 DEF IInv, TypeOK, CallTypeOK, Returns
    <3>3. cont[t] \notin {"rtside", "qside"}
      BY <3>2 DEF Conts, Waits
    <3> QED  BY <1>1, <1>4, <3>1, <3>3, GoElsewhere
  <2> QED  BY <1>4, <2>1, <2>2
<1>5. ASSUME IInv, NEW t \in Tasks, Call(t) \/ RealtimeIso(t)
      PROVE  Kept
  BY <1>1, <1>2, <1>5, CallElsewhere
<1>6. ASSUME IInv, WorkerStep
      PROVE  Kept
  BY <1>1, <1>3, <1>5, <1>6, WorkerElsewhere, Names DEF WorkerStep, Recovery
<1>7. ASSUME IInv, FlusherStep \/ Flush
      PROVE  Kept
  <2>1. CASE Call(Flusher) \/ RealtimeIso(Flusher)
    BY <1>5, <1>7, <2>1, Names
  <2>2. CASE Unlock(Flusher) \/ FlushNext \/ FlushStopDone \/ Flush
    <3>1. \E p \in {"finish", "idle", "begin", "rtstop", "next", "mbox"} : pc' = Set(pc, Flusher, p)
      BY <2>2 DEF Unlock, FlushNext, FlushStopDone, Flush, GoJob, Go
    <3> QED  BY <1>1, <1>7, <3>1, GoElsewhere, Names
  <2> QED  BY <1>7, <2>1, <2>2 DEF FlusherStep
<1>8. ASSUME IInv, AbortActive \/ RtStart \/ RtStop \/ FwPrimary \/ FwSide
      PROVE  Kept
  BY <1>8 DEF AbortActive, RtStart, RtStop, FwPrimary, FwSide
<1>9. IInv /\ [Next]_vars => [Kept]_vars
  BY <1>4, <1>6, <1>7, <1>8 DEF Next
<1> QED  BY <1>9, Inductive, PTL DEF Spec, RecoveryNeverOverwrites
=============================================================================
