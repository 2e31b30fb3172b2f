------------------------------- MODULE ZzAhi -------------------------------
(***************************************************************************)
(* Sound of a program ZZRun runs, played through AHI on the Amiga          *)
(* (ZZRun.c, service_ahi_audio).  The firmware keeps a ring in the window  *)
(* with a header it rewrites for every stream, epoch last; the launcher    *)
(* copies from the ring into two linked requests and moves the tail when   *)
(* one comes back.  The ARM program goes on during a pass and may replace  *)
(* the stream at any point of it, so every access to the header is a step. *)
(* The console (ZzConsole) is served by the same loop.                     *)
(***************************************************************************)
EXTENDS ZzConsole

CONSTANTS
  AudioCap,   \* ZZAPP_AUDIO_CAP, in units of half a buffer
  BufUnits,   \* most a request takes
  MaxStreams, \* bound: streams the program opens
  MaxSound    \* bound: units a stream has

ASSUME SoundAssumption ==
  AudioCap \in Nat \ {0} /\ BufUnits \in Nat \ {0} /\ MaxStreams \in Nat /\ MaxSound \in Nat

VARIABLES
  uRoute,  \* header: the program's sound goes to AHI
  uEpoch,  \* header: epoch, 0 while it is rewritten
  uRate,   \* header: rate
  uHead, uTail, \* header: positions
  uFresh,  \* header: rewritten for the stream that is being opened
  uStreams, \* history: streams opened so far
  uAt,     \* place in the pass: its next access, or "gone"
  uSeen,   \* epoch and rate as the pass read them
  uPos,    \* head and tail as the pass read them
  uOpen,   \* the device is open, at this rate (0: it is not)
  uStream, \* ahi_stream_epoch, 0 when not valid
  uReqs,   \* requests under way, in order: bytes, and the epoch they were sent for
  uBack,   \* how many of them have come back to the port: the first ones
  uFailed, \* audio_open_failed
  uPlayed, \* history: units of this stream that have been played
  uCrossed \* history: a pass that began on another stream wrote this one's tail

hdrVars == <<uRoute, uEpoch, uRate, uHead, uTail, uFresh, uStreams, uCrossed>>
devVars == <<uOpen, uStream, uReqs, uBack, uFailed>>
passVars == <<uAt, uSeen, uPos>>
soundVars == <<hdrVars, passVars, devVars, uPlayed>>

Rates == {1, 2}
Fewer(a, b) == IF a < b THEN a ELSE b

-----------------------------------------------------------------------------
(* The program and the firmware                                            *)

\* A position difference is unsigned: a tail ahead of the head is out of range.
Plays ==
  /\ uEpoch # 0 /\ uHead < MaxSound /\ uHead - uTail \in 0 .. (AudioCap - 1)
  /\ uHead' = uHead + 1
  /\ UNCHANGED <<uRoute, uEpoch, uRate, uTail, uFresh, uStreams, uCrossed>>
  /\ UNCHANGED <<passVars, devVars, uPlayed>>

\* A new stream: the epoch goes to zero, the header is written, then the epoch.
NewStream ==
  /\ uStreams < MaxStreams
  /\ \/ /\ uEpoch # 0 /\ uEpoch' = 0 /\ uFresh' = FALSE
        /\ UNCHANGED <<uRoute, uRate, uHead, uTail, uStreams, uCrossed, uPlayed>>
     \/ /\ uEpoch = 0 /\ ~uFresh /\ uFresh' = TRUE /\ uRoute' = TRUE /\ uRate' \in Rates
        /\ uHead' = 0 /\ uTail' = 0 /\ uCrossed' = FALSE
        /\ UNCHANGED <<uEpoch, uStreams, uPlayed>>
     \/ /\ uEpoch = 0 /\ uFresh /\ uEpoch' = uStreams + 1 /\ uStreams' = uStreams + 1
        /\ uPlayed' = 0 /\ UNCHANGED <<uRoute, uRate, uHead, uTail, uFresh, uCrossed>>
  /\ UNCHANGED <<passVars, devVars>>

CloseSound ==
  /\ uEpoch # 0 /\ uRoute /\ uRoute' = FALSE
  /\ UNCHANGED <<uEpoch, uRate, uHead, uTail, uFresh, uStreams, uCrossed>>
  /\ UNCHANGED <<passVars, devVars, uPlayed>>

\* AHI plays linked requests in order.
Returns ==
  /\ uBack < Len(uReqs) /\ uBack' = uBack + 1
  /\ uPlayed' = IF uReqs[uBack'].of = uEpoch THEN uPlayed + uReqs[uBack'].bytes ELSE uPlayed
  /\ UNCHANGED <<hdrVars, passVars, uOpen, uStream, uReqs, uFailed>>

-----------------------------------------------------------------------------
(* service_ahi_audio                                                       *)

\* ahi_abort_pending: requests are ended and waited for, their bytes forgotten.
AbortPending == uReqs' = <<>> /\ uBack' = 0

\* Bytes handed to AHI stay in the ring until their request returns.
Bytes(q, i) == IF i <= Len(q) THEN q[i].bytes ELSE 0
Pending(q) == Bytes(q, 1) + Bytes(q, 2)

\* ahi_reap
Reaped(q, back) == SubSeq(q, 1, back)
Out(q, back) == SubSeq(q, back + 1, Len(q))

\* Sees a stream with another rate only.
ReplacedByRate(epoch) == uStream # 0 /\ uStream # epoch /\ uRate # uOpen

\* zzrun_audio_epoch_replaced
Replaced(epoch) == uStream # 0 /\ uStream # epoch

\* The pass is over; what it read is forgotten.
PassEnds == uAt' = "pass" /\ uSeen' = <<0, 0>> /\ uPos' = <<0, 0>>

\* ahi_close: no route, or the end of the launcher.
CloseDevice ==
  /\ uAt = "pass" /\ uOpen' = 0 /\ uStream' = 0 /\ AbortPending
  /\ \/ ~uRoute /\ UNCHANGED uAt
     \/ uAt' = "gone"
  /\ UNCHANGED <<hdrVars, uSeen, uPos, uFailed, uPlayed>>

\* A pass: the route and the epoch first.
SoundPass ==
  /\ uAt = "pass" /\ uRoute /\ uEpoch # 0 /\ uAt' = "rate" /\ uSeen' = <<uEpoch, 0>>
  /\ UNCHANGED <<hdrVars, uPos, devVars, uPlayed>>

\* Then the rate.  A new stream first drops what belongs to the old one; the
\* device is closed for a stream with another rate.
ReadRate ==
  /\ uAt = "rate" /\ uSeen' = <<uSeen[1], uRate>> /\ UNCHANGED <<hdrVars, uPos, uFailed, uPlayed>>
  /\ IF Replaced(uSeen[1])
       THEN AbortPending /\ uStream' = 0 /\ uOpen' = IF uRate = uOpen THEN uOpen ELSE 0
       ELSE UNCHANGED <<uOpen, uStream, uReqs, uBack>>
  /\ uAt' = IF uFailed THEN "pass" ELSE IF uOpen' = 0 THEN "opening" ELSE "head"

\* ahi_open, or the program is stopped.
OpenDevice ==
  /\ uAt = "opening" /\ UNCHANGED <<hdrVars, uStream, uReqs, uBack, uPlayed>>
  /\ \/ uOpen' = uSeen[2] /\ uAt' = "head" /\ UNCHANGED <<uSeen, uPos, uFailed>>
     \/ uFailed' = TRUE /\ PassEnds /\ UNCHANGED uOpen

\* The device plays the stream of the epoch read before; the head now.
ReadHead ==
  /\ uAt = "head" /\ uAt' = "tail" /\ uStream' = uSeen[1] /\ uPos' = <<uHead, 0>>
  /\ UNCHANGED <<hdrVars, uSeen, uOpen, uReqs, uBack, uFailed, uPlayed>>

ReadTail ==
  /\ uAt = "tail"
  /\ IF uPos[1] - uTail \in 0 .. AudioCap
       THEN uAt' = "move" /\ uPos' = <<uPos[1], uTail>> /\ UNCHANGED uSeen
       ELSE PassEnds
  /\ UNCHANGED <<hdrVars, devVars, uPlayed>>

\* What came back moves the tail; the header is not looked at again.
MoveTail ==
  /\ uAt = "move" /\ uAt' = "send"
  /\ LET tail == uPos[2] + Pending(Reaped(uReqs, uBack))
     IN /\ uPos' = <<uPos[1], tail>>
        /\ uTail' = IF uBack > 0 THEN tail ELSE uTail
  /\ uCrossed' = (uCrossed \/ (uBack > 0 /\ uEpoch # uStream))
  /\ uReqs' = Out(uReqs, uBack) /\ uBack' = 0
  /\ UNCHANGED <<uRoute, uEpoch, uRate, uHead, uFresh, uStreams, uSeen, uOpen, uStream, uFailed,
                 uPlayed>>

\* The next bytes of the ring are sent if a request is free.
SendSound ==
  /\ uAt = "send" /\ PassEnds
  /\ LET staged == uPos[2] + Pending(uReqs)
         n == Fewer(BufUnits, Fewer(uPos[1] - staged, AudioCap - (staged % AudioCap)))
     IN uReqs' = IF uPos[1] - staged \in 1 .. AudioCap /\ Len(uReqs) < 2
                  THEN Append(uReqs, [bytes |-> n, of |-> uStream]) ELSE uReqs
  /\ UNCHANGED <<hdrVars, uOpen, uStream, uBack, uFailed, uPlayed>>

-----------------------------------------------------------------------------
SoundInit ==
  /\ uRoute = FALSE /\ uEpoch = 0 /\ uRate = 1 /\ uHead = 0 /\ uTail = 0 /\ uStreams = 0
  /\ uFresh = FALSE /\ uCrossed = FALSE
  /\ uAt = "pass" /\ uSeen = <<0, 0>> /\ uPos = <<0, 0>> /\ uOpen = 0 /\ uStream = 0
  /\ uReqs = <<>> /\ uBack = 0 /\ uFailed = FALSE /\ uPlayed = 0

SoundNext ==
  \/ Plays \/ NewStream \/ CloseSound \/ Returns
  \/ CloseDevice \/ SoundPass \/ ReadRate \/ OpenDevice \/ ReadHead \/ ReadTail \/ MoveTail
  \/ SendSound

SoundSpec == SoundInit /\ [][SoundNext]_soundVars

-----------------------------------------------------------------------------
\* The consumer position of a stream never passes what of it has been played:
\* returns of a stream that was closed and reopened meanwhile are not added -
\* unless the stream was opened between the epoch read and the tail write of one
\* pass, which nothing in the code prevents.
TailPlayed == uEpoch # 0 /\ ~uCrossed => uTail <= uPlayed

\* Nothing is sent twice or before it is there.
SentOnce ==
  uEpoch # 0 /\ uStream = uEpoch /\ ~uCrossed =>
    uTail + Pending(uReqs) <= uHead /\ \A i \in DOMAIN uReqs : uReqs[i].of = uEpoch

\* The device, its requests and buffers are given back only when none is under
\* way.
ClosedIdle == uOpen = 0 => uReqs = <<>>

\* A stream is played once, in order, and accounted for.
SoundSafe == TailPlayed /\ SentOnce /\ ClosedIdle

\* Console and sound of a program: nothing is lost, repeated or counted for
\* another stream, and nothing is freed while a packet or request is out.
StreamsSafe == ConsoleSafe /\ SoundSafe
=============================================================================
