----------------------------- MODULE MhiPlayer -----------------------------
(***************************************************************************)
(* A decoder of the MHI library (mhizz9000.c): the queue of compressed     *)
(* buffers, the feeder process that moves them to the card, and Play, Stop,*)
(* Pause and FreeDecoder.                                                  *)
(*                                                                         *)
(* io_lock serialises the firmware calls; the queue and the public Status  *)
(* are changed in Forbid windows, which do not wait for it.  One task      *)
(* plays, another queues, stops and pauses: a Stop or a Pause may come at  *)
(* any time, a Play only begins when none is under way.  A buffer is one   *)
(* chunk.  A command to the card is carried out and answered, refused, or  *)
(* times out: then the card may carry it out at any later step, or never.  *)
(***************************************************************************)
EXTENDS Naturals, Sequences, FiniteSets

CONSTANTS Bufs,        \* buffers of the application
          IdlePolls,   \* ZZ_MHI_DRAIN_IDLE_POLLS
          MaxSessions, \* bound: sessions the firmware opens
          MaxStops,    \* bound: Stops
          MaxFed,      \* bound: buffers the card takes in a session
          MaxLate      \* bound: commands out and sessions in doubt at a time

VARIABLES
  status,       \* mp->Status
  stream,       \* mp->session, 0 when closed
  playPending, pausePending,
  tgen,         \* transport_gen
  queue,        \* BufferList: buffer, handed over, where it ends, Played
  lgen,         \* list_gen
  haveUnfed, backpressure, eofSent,
  drainAsked,   \* drain_requested
  polls,        \* starvation_polls
  fed,          \* submitted_bytes, in buffers
  rings,        \* rings_allocated
  quit,         \* feeder_quit
  ioLock,       \* holder of io_lock
  wake,         \* the feeder's wake signal is pending
  place,        \* where each task is
  snap,         \* the feeder's chunk: buffer and list generation
  drainBusy,    \* what mhi_stream_service_drain returned
  playGen,      \* transport_gen as MHIPlay read it
  res,          \* mp->result: status, cursor and flags of the last answer
  bound,        \* card: session bound to the AX output
  late,         \* card: commands that timed out and may still be carried out
  astray,       \* history: sessions the card may play against the driver's belief
  taken, eaten, \* card: buffers accepted and consumed in the session
  sessions,     \* card: sessions so far
  mine,         \* buffers the application may touch
  dropped,      \* buffers a Stop has drained and not yet given back
  revived       \* history: a Play was published over a Stop under way

transportState == <<status, playPending, pausePending, tgen>>
list == <<queue, lgen, haveUnfed>>
streamState == <<stream, backpressure, eofSent, drainAsked, polls, fed, rings>>
feeder == <<quit, snap, drainBusy>>
output == <<bound, late, astray>>
cardState == <<output, taken, eaten, sessions>>
app == <<mine, dropped>>
playerVars ==
  <<transportState, list, streamState, feeder, ioLock, wake, place, playGen, res, cardState,
    app, revived>>

PlayerTasks == {"feeder", "player", "control"}
NoAnswer == [st |-> "ok", eaten |-> 0, drained |-> FALSE]
NoSnap == [buf |-> "none", gen |-> 0]
To(t, p) == place' = [place EXCEPT ![t] = p]
Lock(t) == ioLock = "free" /\ ioLock' = t
Unlock == ioLock' = "free"
Unfed(q) == {i \in DOMAIN q : ~q[i].handed}

-----------------------------------------------------------------------------
(* PLAY, STOP and CLOSE of a session at the card.                          *)

Without(s) == IF bound = s THEN 0 ELSE bound
Outstanding(s) == {c \in late : c.of = s}

\* An answer settles where the session is unless an older command is out.
Certain(s) == astray' = IF Outstanding(s) = {} THEN astray \ {s} ELSE astray
Doubt(s) == astray' = astray \cup {s} /\ s < MaxSessions

Done(s, session) == bound' = session /\ Certain(s) /\ UNCHANGED late
Delayed(s, ops) ==
  /\ late' = late \cup {[op |-> o, of |-> s] : o \in ops}
  /\ Cardinality(late') <= MaxLate
TimedOut(s, op) == Delayed(s, {op}) /\ Doubt(s) /\ UNCHANGED bound

\* A session that is closed at the card is no command's any more.
FwLate ==
  \E c \in late :
    /\ bound' = IF c.op = "play" THEN c.of ELSE Without(c.of)
    /\ late' = late \ (IF c.op = "close" THEN Outstanding(c.of) ELSE {c})
    /\ UNCHANGED <<transportState, list, streamState, feeder, ioLock, wake, place, playGen, res,
                   astray, taken, eaten, sessions, app, revived>>

-----------------------------------------------------------------------------
\* Marks whatever was handed over, consumed or not.
CompleteHanded(q, upTo, all) == [i \in DOMAIN q |-> [q[i] EXCEPT !.played = @ \/ q[i].handed]]

\* mhi_complete_consumed: in queue order, up to the decoder's cursor, or the
\* whole accepted part once a drain is over.
Complete(q, upTo, all) ==
  [i \in DOMAIN q |->
     [q[i] EXCEPT !.played =
        @ \/ \A j \in 1..i : q[j].played \/ (q[j].handed /\ (all \/ q[j].end <= upTo))]]

-----------------------------------------------------------------------------
(* The feeder process.                                                     *)

\* One pass under io_lock, and only while playing.
FeederTop ==
  /\ place["feeder"] = "top" /\ Lock("feeder") /\ UNCHANGED drainBusy
  /\ IF ~quit /\ stream # 0 /\ status = "PLAYING"
     THEN To("feeder", "scan") ELSE To("feeder", "pace")
  /\ UNCHANGED <<transportState, list, streamState, quit, snap, wake, playGen, res, cardState,
                 app, revived>>

\* mhi_feed_pending, the scan: have_unfed is published with it.
Scan ==
  /\ place["feeder"] = "scan"
  /\ haveUnfed' = (Unfed(queue) # {})
  /\ \/ /\ Unfed(queue) = {} /\ To("feeder", "bind") /\ UNCHANGED snap
     \/ \E i \in Unfed(queue) :
          /\ \A j \in Unfed(queue) : i <= j
          /\ snap' = [buf |-> queue[i].buf, gen |-> lgen]
          /\ To("feeder", "copy")
  /\ UNCHANGED <<transportState, queue, lgen, streamState, quit, drainBusy, ioLock, wake,
                 playGen, res, cardState, app, revived>>

\* The chunk is copied out of the application's memory and sent; the card
\* takes it, has no room for it, or the call fails.
Feed ==
  /\ place["feeder"] = "copy"
  /\ \/ /\ taken < MaxFed /\ taken' = taken + 1 /\ To("feeder", "accepted")
        /\ res' = [res EXCEPT !.eaten = eaten]
        /\ UNCHANGED <<queue, backpressure>>
     \/ /\ queue' = Complete(queue, eaten, FALSE) /\ backpressure' = TRUE
        /\ res' = [res EXCEPT !.eaten = eaten]
        /\ To("feeder", "bind") /\ UNCHANGED taken
     \/ To("feeder", "bind") /\ UNCHANGED <<taken, res, queue, backpressure>>
  /\ UNCHANGED <<transportState, lgen, haveUnfed, stream, eofSent, drainAsked, polls, fed, rings,
                 feeder, ioLock, wake, playGen, output, eaten, sessions, app, revived>>

\* The chunk's node is touched only if no Stop drained the queue.
SameList == snap.gen = lgen

HandOver(end) ==
  [i \in DOMAIN queue |->
     IF queue[i].buf = snap.buf /\ ~queue[i].handed
     THEN [queue[i] EXCEPT !.handed = TRUE, !.end = end] ELSE queue[i]]

Accepted ==
  /\ place["feeder"] = "accepted" /\ backpressure' = FALSE
  /\ \/ /\ SameList /\ To("feeder", "scan")
        /\ drainAsked' = FALSE /\ polls' = 0 /\ fed' = fed + 1
        /\ queue' = Complete(HandOver(fed'), res.eaten, FALSE)
     \/ ~SameList /\ To("feeder", "bind") /\ UNCHANGED <<drainAsked, polls, fed, queue>>
  /\ snap' = NoSnap
  /\ UNCHANGED <<transportState, lgen, haveUnfed, stream, eofSent, rings, quit, drainBusy,
                 ioLock, wake, playGen, res, cardState, app, revived>>

\* mhi_try_bind: a deferred Play binds once the card has PCM.
TryBind ==
  /\ place["feeder"] = "bind"
  /\ \/ playPending /\ status = "PLAYING" /\ To("feeder", "binding")
     \/ ~(playPending /\ status = "PLAYING") /\ To("feeder", "drain")
  /\ UNCHANGED <<transportState, list, streamState, feeder, ioLock, wake, playGen, res,
                 cardState, app, revived>>

\* Not ready, refused and timed out leave the Play pending.
Bind ==
  /\ place["feeder"] = "binding" /\ To("feeder", "drain")
  /\ \/ taken > 0 /\ Done(stream, stream) /\ playPending' = FALSE
     \/ taken > 0 /\ TimedOut(stream, "play") /\ UNCHANGED playPending
     \/ UNCHANGED <<output, playPending>>
  /\ UNCHANGED <<status, pausePending, tgen, list, streamState, feeder, ioLock, wake,
                 playGen, res, taken, eaten, sessions, app, revived>>

\* mhi_stream_service_drain: nothing left to hand over, so the live stream
\* is asked.  PLAY, the probe of a bound stream, binds it again.
DrainProbe ==
  /\ place["feeder"] = "drain"
  /\ \/ /\ status = "PLAYING" /\ ~haveUnfed /\ taken > 0
        /\ To("feeder", "probed") /\ UNCHANGED polls
        /\ \/ /\ IF playPending THEN UNCHANGED output ELSE Done(stream, stream)
              /\ res' = [st |-> "ok", eaten |-> eaten, drained |-> drainAsked /\ eaten = taken]
           \/ /\ ~playPending /\ TimedOut(stream, "play") /\ res' = [res EXCEPT !.st = "busy"]
           \/ /\ \E e \in {"busy", "failed"} : res' = [res EXCEPT !.st = e]
              /\ UNCHANGED output
     \/ /\ ~(status = "PLAYING" /\ ~haveUnfed /\ taken > 0)
        /\ polls' = 0 /\ To("feeder", "pace") /\ UNCHANGED <<output, res>>
  /\ UNCHANGED <<transportState, list, stream, backpressure, eofSent, drainAsked, fed, rings,
                 feeder, ioLock, wake, playGen, taken, eaten, sessions, app, revived>>

\* A busy card, or one that did not answer, is asked again; any other failure
\* stops the player, and tells the card nothing.
DrainFailed ==
  /\ place["feeder"] = "probed" /\ res.st # "ok" /\ To("feeder", "pace")
  /\ \/ /\ res.st = "busy" \/ status # "PLAYING"
        /\ drainBusy' = (res.st = "busy") /\ UNCHANGED <<status, playPending, astray>>
     \/ /\ res.st = "failed" /\ status = "PLAYING"
        /\ drainBusy' = FALSE /\ status' = "STOPPED" /\ playPending' = FALSE /\ Doubt(stream)
  /\ UNCHANGED <<pausePending, tgen, list, streamState, quit, snap, ioLock, wake, playGen, res,
                 bound, late, taken, eaten, sessions, app, revived>>

\* Sustained starvation asks for a resumable drain; the end of the drain, or
\* of an announced end of stream, is OUT_OF_DATA unless data came meanwhile.
\* The bind tried again after the drain request is left to the next pass.
DrainAnswered ==
  /\ place["feeder"] = "probed" /\ res.st = "ok" /\ To("feeder", "pace")
  /\ LET over == IF eofSent THEN res.eaten = taken ELSE drainAsked /\ res.drained
         starved == ~eofSent /\ ~drainAsked /\ res.eaten = taken
     IN  /\ polls' = IF ~starved THEN 0 ELSE IF polls < IdlePolls THEN polls + 1 ELSE polls
         /\ drainAsked' = (drainAsked \/ (starved /\ polls' = IdlePolls /\ ~haveUnfed))
         /\ queue' = Complete(queue, res.eaten, over /\ ~eofSent)
         /\ status' = IF over /\ status = "PLAYING" /\ ~haveUnfed THEN "OUT_OF_DATA" ELSE status
         /\ drainBusy' = ~over
  /\ UNCHANGED <<playPending, pausePending, tgen, lgen, haveUnfed, stream, backpressure,
                 eofSent, fed, rings, quit, snap, ioLock, wake, playGen, res, cardState, app,
                 revived>>

\* Sleeps for a retry when something is left to do, else for a signal.
FeederPace ==
  /\ place["feeder"] = "pace" /\ Unlock /\ res' = NoAnswer /\ drainBusy' = FALSE
  /\ LET feeding == stream # 0 /\ status = "PLAYING"
         busy == haveUnfed \/ backpressure \/ playPending \/ drainBusy
     IN  To("feeder", IF quit THEN "gone" ELSE IF feeding /\ busy THEN "timed" ELSE "idle")
  /\ UNCHANGED <<transportState, list, streamState, quit, snap, wake, playGen, cardState, app,
                 revived>>

FeederWake ==
  /\ place["feeder"] = "timed" \/ (place["feeder"] = "idle" /\ wake)
  /\ wake' = FALSE /\ To("feeder", "top")
  /\ UNCHANGED <<transportState, list, streamState, feeder, ioLock, playGen, res, cardState, app,
                 revived>>

-----------------------------------------------------------------------------
(* MHIQueueBuffer, MHIGetEmpty, and the end of stream extension.           *)

Alive == place["control"] # "freed" /\ ~quit

\* Adds the buffer without telling the feeder.
QueueSilent == UNCHANGED wake

\* mhi_wake_feeder, once a session exists
QueueWake == wake' = (wake \/ stream # 0)

MHIQueueBuffer(b) ==
  /\ Alive /\ place["control"] = "idle" /\ b \in mine /\ mine' = mine \ {b}
  /\ queue' = Append(queue, [buf |-> b, handed |-> FALSE, end |-> 0, played |-> FALSE])
  /\ haveUnfed' = TRUE /\ drainAsked' = FALSE /\ polls' = 0
  /\ status' = IF status = "OUT_OF_DATA" THEN "PLAYING" ELSE status
  /\ QueueWake
  /\ UNCHANGED <<playPending, pausePending, tgen, lgen, stream, backpressure, eofSent, fed,
                 rings, feeder, ioLock, place, playGen, res, cardState, dropped, revived>>

MHIGetEmpty ==
  /\ Alive /\ queue # << >> /\ Head(queue).played
  /\ mine' = mine \cup {Head(queue).buf} /\ queue' = Tail(queue)
  /\ UNCHANGED <<transportState, lgen, haveUnfed, streamState, feeder, ioLock, wake, place, playGen,
                 res, cardState, dropped, revived>>

\* mhi_stream_eof; a refused end of stream changes nothing.  A deferred Play
\* may bind now.
EndOfStream ==
  /\ Alive /\ place["player"] = "idle" /\ ioLock = "free"
  /\ stream # 0 /\ ~haveUnfed /\ taken > 0 /\ ~eofSent
  /\ status \in {"PLAYING", "OUT_OF_DATA"}
  /\ eofSent' = TRUE /\ drainAsked' = FALSE /\ polls' = 0
  /\ status' = "PLAYING" /\ wake' = TRUE
  /\ queue' = Complete(queue, eaten, FALSE)
  /\ \/ playPending /\ Done(stream, stream) /\ playPending' = FALSE
     \/ playPending /\ TimedOut(stream, "play") /\ UNCHANGED playPending
     \/ UNCHANGED <<output, playPending>>
  /\ UNCHANGED <<pausePending, tgen, lgen, haveUnfed, stream, backpressure, fed, rings, feeder,
                 ioLock, place, playGen, res, taken, eaten, sessions, app, revived>>

-----------------------------------------------------------------------------
(* MHIPlay                                                                 *)

\* The switch on Status, read without a lock.
MHIPlay ==
  /\ Alive /\ place["player"] = "idle" /\ place["control"] = "idle"
  /\ \/ status \in {"STOPPED", "OUT_OF_DATA"} /\ To("player", "open")
     \/ status = "PAUSED" /\ playPending /\ To("player", "rearm")
     \/ status = "PAUSED" /\ ~playPending /\ To("player", "resume")
  /\ UNCHANGED <<transportState, list, streamState, feeder, ioLock, wake, playGen, res,
                 cardState, app, revived>>

\* mhi_stream_open after the generation is read: the rings once, then BEGIN;
\* either may fail.
PlayOpen ==
  /\ place["player"] = "open" /\ Lock("player")
  /\ playGen' = tgen /\ pausePending' = FALSE /\ To("player", "opening")
  /\ UNCHANGED <<status, playPending, tgen, list, streamState, feeder, wake, res, cardState, app,
                 revived>>

PlayOpened ==
  /\ place["player"] = "opening"
  /\ \/ stream # 0 /\ To("player", "publish") /\ UNCHANGED <<streamState, ioLock, res, cardState>>
     \/ /\ stream = 0 /\ sessions < MaxSessions
        /\ sessions' = sessions + 1 /\ stream' = sessions' /\ rings' = TRUE
        /\ taken' = 0 /\ eaten' = 0 /\ UNCHANGED output
        /\ backpressure' = FALSE /\ eofSent' = FALSE /\ drainAsked' = FALSE
        /\ polls' = 0 /\ fed' = 0
        /\ res' = NoAnswer
        /\ To("player", "publish") /\ UNCHANGED ioLock
     \/ /\ stream = 0 /\ To("player", "idle") /\ Unlock
        /\ UNCHANGED <<streamState, res, cardState>>
  /\ UNCHANGED <<transportState, list, feeder, wake, playGen, app, revived>>

\* STOP, then CLOSE until it is not refused as busy.
Closed ==
  /\ bound' = Without(stream) /\ late' = late \ Outstanding(stream)
  /\ astray' = astray \ {stream} /\ UNCHANGED rings

\* The card may still own the session: the rings are abandoned to it.
Unconfirmed ==
  /\ bound' \in {bound, Without(stream)} /\ Doubt(stream) /\ rings' = FALSE
  /\ \E ops \in SUBSET {"stop", "close"} : Delayed(stream, ops)

\* mhi_stream_close
CloseStream ==
  /\ stream' = 0 /\ playPending' = FALSE /\ eofSent' = FALSE /\ drainAsked' = FALSE
  /\ polls' = 0 /\ fed' = 0
  /\ \/ stream = 0 /\ UNCHANGED <<rings, output>>
     \/ stream # 0 /\ (Closed \/ Unconfirmed)

\* No Stop came while the session opened.
PlayUncontested == tgen = playGen

PlayPublish ==
  /\ place["player"] = "publish" /\ Unlock
  /\ \/ /\ ~PlayUncontested /\ CloseStream /\ To("player", "idle")
        /\ UNCHANGED <<status, pausePending, backpressure, wake, revived>>
     \/ /\ PlayUncontested
        /\ status' = IF pausePending THEN "PAUSED" ELSE "PLAYING"
        /\ pausePending' = FALSE /\ playPending' = TRUE
        /\ wake' = (wake \/ ~pausePending) /\ To("player", "idle")
        /\ revived' = (revived \/ place["control"] = "close")
        /\ UNCHANGED <<streamState, output>>
  /\ UNCHANGED <<tgen, list, feeder, playGen, res, taken, eaten, sessions, app>>

\* Paused before the bind: Status is set again without another look at it.
PlayRearm ==
  /\ place["player"] = "rearm" /\ To("player", "idle")
  /\ status' = "PLAYING" /\ wake' = TRUE
  /\ revived' = (revived \/ status # "PAUSED")
  /\ UNCHANGED <<playPending, pausePending, tgen, list, streamState, feeder, ioLock, playGen,
                 res, cardState, app>>

\* Resume of a bound session; Status is looked at before and after the call.
PlayResume ==
  /\ place["player"] = "resume" /\ Lock("player")
  /\ To("player", IF status = "PAUSED" THEN "rebind" ELSE "give up")
  /\ UNCHANGED <<transportState, list, streamState, feeder, wake, playGen, res, cardState, app,
                 revived>>

PlayRebind ==
  /\ place["player"] = "rebind"
  /\ \/ Done(stream, stream) /\ To("player", "rebound")
     \/ (TimedOut(stream, "play") \/ UNCHANGED output) /\ To("player", "give up")
  /\ UNCHANGED <<transportState, list, streamState, feeder, ioLock, wake, playGen, res, taken,
                 eaten,
                 sessions, app, revived>>

PlayRebound ==
  /\ place["player"] \in {"rebound", "give up"} /\ Unlock /\ To("player", "idle")
  /\ IF place["player"] = "rebound" /\ status = "PAUSED"
     THEN status' = "PLAYING" /\ wake' = TRUE
     ELSE UNCHANGED <<status, wake>>
  /\ UNCHANGED <<playPending, pausePending, tgen, list, streamState, feeder, playGen, res,
                 cardState,
                 app, revived>>

-----------------------------------------------------------------------------
(* MHIStop, MHIPause and MHIFreeDecoder.                                   *)

\* drain_buffer_list_locked
DrainList ==
  /\ queue' = << >> /\ lgen' = lgen + 1 /\ haveUnfed' = FALSE
  /\ dropped' = {queue[i].buf : i \in DOMAIN queue}

MHIStop ==
  /\ Alive /\ place["control"] = "idle" /\ tgen < MaxStops
  /\ status' = "STOPPED" /\ playPending' = FALSE /\ pausePending' = FALSE
  /\ tgen' = tgen + 1 /\ DrainList
  /\ backpressure' = FALSE /\ drainAsked' = FALSE /\ polls' = 0
  /\ To("control", IF status # "STOPPED" THEN "close" ELSE "return")
  /\ UNCHANGED <<stream, eofSent, fed, rings, feeder, ioLock, wake, playGen, res, cardState, mine,
                 revived>>

StopClose ==
  /\ place["control"] = "close" /\ ioLock = "free" /\ CloseStream
  /\ To("control", "return")
  /\ UNCHANGED <<status, pausePending, tgen, list, backpressure, feeder, ioLock, wake,
                 playGen, res, taken, eaten, sessions, app, revived>>

StopReturns ==
  /\ place["control"] = "return" /\ To("control", "idle")
  /\ mine' = mine \cup dropped /\ dropped' = {}
  /\ UNCHANGED <<transportState, list, streamState, feeder, ioLock, wake, playGen, res,
                 cardState, revived>>

\* A Pause while Play waits for its session is remembered.
MHIPause ==
  /\ Alive /\ place["control"] = "idle"
  /\ \/ /\ status = "PLAYING" /\ status' = "PAUSED"
        /\ To("control", IF stream # 0 THEN "unbind" ELSE "idle")
        /\ UNCHANGED pausePending
     \/ /\ status = "STOPPED" /\ pausePending' = TRUE /\ UNCHANGED <<status, place>>
  /\ UNCHANGED <<playPending, tgen, list, streamState, feeder, ioLock, wake, playGen, res,
                 cardState,
                 app, revived>>

\* Returns without unbinding the session when the feeder has the lock.
UnbindWhenFree == IF ioLock = "free" THEN Done(stream, Without(stream)) ELSE UNCHANGED output

\* The AX output is given up under io_lock; the answer is not looked at.
Unbind ==
  /\ ioLock = "free"
  /\ \/ stream = 0 /\ UNCHANGED output
     \/ stream # 0 /\ (Done(stream, Without(stream)) \/ TimedOut(stream, "stop"))
     \/ stream # 0 /\ Doubt(stream) /\ UNCHANGED <<bound, late>>

PauseUnbind ==
  /\ place["control"] = "unbind" /\ Unbind /\ To("control", "idle")
  /\ UNCHANGED <<transportState, list, streamState, feeder, ioLock, wake, playGen, res, taken,
                 eaten,
                 sessions, app, revived>>

\* The application has no other call under way.
MHIFreeDecoder ==
  /\ Alive /\ place["control"] = "idle" /\ place["player"] = "idle"
  /\ status' = "STOPPED" /\ playPending' = FALSE /\ pausePending' = FALSE
  /\ tgen' = tgen + 1 /\ DrainList
  /\ quit' = TRUE /\ wake' = TRUE /\ To("control", "retire")
  /\ UNCHANGED <<streamState, snap, drainBusy, ioLock, playGen, res, cardState, mine, revived>>

\* The session is closed and the rings are freed only when the feeder is
\* gone; abandoned rings are left to the card.
FreeDecoderClose ==
  /\ place["control"] = "retire" /\ place["feeder"] = "gone"
  /\ CloseStream /\ To("control", "freed")
  /\ mine' = mine \cup dropped /\ dropped' = {}
  /\ UNCHANGED <<status, pausePending, tgen, list, backpressure, feeder, ioLock, wake,
                 playGen, res, taken, eaten, sessions, revived>>

\* The card decodes what it has taken.
FwDecode ==
  /\ eaten < taken /\ eaten' = eaten + 1
  /\ UNCHANGED <<transportState, list, streamState, feeder, ioLock, wake, place, playGen, res,
                 output, taken, sessions, app, revived>>

-----------------------------------------------------------------------------
PlayerInit ==
  /\ status = "STOPPED" /\ stream = 0 /\ playPending = FALSE /\ pausePending = FALSE
  /\ tgen = 0 /\ queue = << >> /\ lgen = 0 /\ haveUnfed = FALSE /\ backpressure = FALSE
  /\ eofSent = FALSE /\ drainAsked = FALSE /\ polls = 0 /\ fed = 0 /\ rings = FALSE
  /\ quit = FALSE /\ ioLock = "free" /\ wake = FALSE
  /\ place = [t \in PlayerTasks |-> IF t = "feeder" THEN "top" ELSE "idle"]
  /\ snap = NoSnap /\ drainBusy = FALSE /\ playGen = 0
  /\ res = NoAnswer
  /\ bound = 0 /\ late = {} /\ astray = {} /\ taken = 0 /\ eaten = 0 /\ sessions = 0
  /\ mine = Bufs /\ dropped = {} /\ revived = FALSE

PlayerNext ==
  \/ FeederTop \/ Scan \/ Feed \/ Accepted \/ TryBind \/ Bind
  \/ DrainProbe \/ DrainFailed \/ DrainAnswered \/ FeederPace \/ FeederWake
  \/ \E b \in Bufs : MHIQueueBuffer(b)
  \/ MHIGetEmpty \/ EndOfStream
  \/ MHIPlay \/ PlayOpen \/ PlayOpened \/ PlayPublish \/ PlayRearm
  \/ PlayResume \/ PlayRebind \/ PlayRebound
  \/ MHIStop \/ StopClose \/ StopReturns \/ MHIPause \/ PauseUnbind
  \/ MHIFreeDecoder \/ FreeDecoderClose \/ FwDecode \/ FwLate

PlayerSpec == PlayerInit /\ [][PlayerNext]_playerVars

-----------------------------------------------------------------------------
Settled == place["player"] = "idle" /\ place["control"] = "idle" /\ ioLock = "free"

\* Between calls the card does what Status says: a stopped or paused decoder
\* is not bound to the output, whichever of a deferred bind, a probe of the
\* feeder, a Play and a Stop or Pause came last, and a decoder that is not
\* stopped has a session.  The card may play a session against that only when
\* its last PLAY, STOP or CLOSE failed or an older one is still out, or the
\* feeder stopped the player on a failed probe; a confirmed close ends it.  A
\* decoder without a session is excepted after two Plays that publish PLAYING
\* over a Stop that has yet to close the session: one that found PAUSED with
\* a deferred bind, and one that waited for io_lock while the Stop came, so
\* that it read transport_gen after it.
TransportMatchesCard ==
  Settled => /\ status \in {"STOPPED", "PAUSED"} => bound \in {0} \cup astray
             /\ status # "STOPPED" /\ ~revived => stream # 0

\* The feeder reads a buffer only while the application may not touch it, and
\* marks one as played, which lets MHIGetEmpty give it back, only when the
\* card has consumed it in the session it was handed to, whatever Stop, Play
\* or end of stream came between the card's answer and the marking.
BuffersSafe ==
  [][ /\ place["feeder"] = "copy" => snap.buf \notin mine
      /\ \A j \in DOMAIN queue' :
           queue'[j].played /\ (\A i \in DOMAIN queue : queue[i] # queue'[j])
             => queue'[j].handed /\ queue'[j].end <= eaten' ]_playerVars

\* A feeder that sleeps without a timer has nothing to do, or its signal is
\* on the way: no queued buffer and no deferred Play of a playing decoder is
\* left behind.
FeederNotStranded ==
  place["feeder"] = "idle" /\ ~wake /\ Settled /\ status = "PLAYING" /\ stream # 0 =>
    Unfed(queue) = {} /\ ~playPending

\* Between calls the decoder is where Status says, on both sides.
PlayerSafe == TransportMatchesCard /\ FeederNotStranded
=============================================================================
