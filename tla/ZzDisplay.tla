----------------------------- MODULE ZzDisplay -----------------------------
(***************************************************************************)
(* The display of a program ZZRun runs: screen and buffers are opened as   *)
(* far as the system allows, flips of the program are shown and            *)
(* acknowledged, and everything is released again (ZZRun.c).  Intuition    *)
(* answers every buffer change later, with a SafeMessage to flip_safe_port.*)
(***************************************************************************)
EXTENDS Naturals, FiniteSets

CONSTANT MaxFlips \* bound: flips of the program

VARIABLES
  dPlace,       \* none, screen, buffers, window, bind, shown, closing, restored, closed
  dRes,      \* what is open
  dMode,     \* "none", "two", "pan" or "single"
  dFlags,    \* flip protocol of the program: "plain", "scanout", "mailbox"
  dGen,      \* window: flips asked for
  dAck,      \* window: flip acknowledged
  dAcked,    \* flip_acked
  dPending,  \* flip_pending
  dSafe,     \* flip_safe_pending
  dChanges,  \* buffer changes Intuition has not made safe
  dMsgs,     \* SafeMessages at the port
  dShowing,  \* buffer or page on the screen
  dSubmit,   \* scanout_submitted
  dFallback, \* scanout_fallback
  dVisible   \* history: newest flip whose buffer is safely on the screen

flipVars ==
  <<dAck, dAcked, dPending, dSafe, dChanges, dMsgs, dShowing, dSubmit, dFallback, dVisible>>
displayVars == <<dPlace, dRes, dMode, dFlags, dGen, flipVars>>

Buffers == {"front", "back", "port"}

-----------------------------------------------------------------------------
(* open_display                                                            *)

OpenScreen ==
  /\ dPlace = "none" /\ UNCHANGED <<dMode, dFlags, dGen, flipVars>>
  /\ \/ dPlace' = "buffers" /\ dRes' = {"screen"}
     \/ dPlace' = "closing" /\ dRes' = {"screen"}  \* no address for its bitmap
     \/ dPlace' = "closed" /\ UNCHANGED dRes

\* Front buffer, back buffer, message port: two buffers only with all of them.
DoubleBuffer ==
  /\ dPlace = "buffers" /\ UNCHANGED <<dFlags, dGen, flipVars>>
  /\ \E got \in {{}, {"front"}, {"front", "back"}, Buffers} :
       /\ dRes' = dRes \cup got
       /\ \/ got = Buffers /\ dMode' = "two" /\ dPlace' = "window"
          \/ dMode' = "none" /\ dPlace' = "fall back"

\* Without them the buffers are given back and one tall screen of three or two
\* pages takes their place, or the program has a single buffer.
FallBack ==
  /\ dPlace = "fall back" /\ dRes' = dRes \ Buffers /\ dPlace' = "window"
  /\ dMode' \in {"pan", "single"}
  /\ UNCHANGED <<dFlags, dGen, flipVars>>

\* The input window, then DISPLAY_BIND; either may fail.
BindDisplay ==
  /\ dPlace = "window" /\ UNCHANGED <<dMode, dFlags, dGen, flipVars>>
  /\ \/ dRes' = dRes \cup {"window"} /\ dPlace' \in {"shown", "closing"}
     \/ UNCHANGED dRes /\ dPlace' = "closing"

-----------------------------------------------------------------------------
(* ack_flip                                                                *)

Flip ==
  /\ dPlace = "shown" /\ dGen < MaxFlips /\ dGen' = dGen + 1
  /\ UNCHANGED <<dPlace, dRes, dMode, dFlags, flipVars>>

Intuition ==
  /\ dChanges > 0 /\ dChanges' = dChanges - 1 /\ dMsgs' = dMsgs + 1
  /\ dVisible' = IF dPending # 0 THEN dPending ELSE dVisible
  /\ UNCHANGED <<dPlace, dRes, dMode, dFlags, dGen, dAck, dAcked, dPending, dSafe, dShowing,
                 dSubmit, dFallback>>

ackRest == <<dPlace, dRes, dMode, dFlags, dGen>>

\* The answer to the change under way: only then is the flip acknowledged.
AckSafe ==
  /\ dPlace = "shown" /\ dPending # 0 /\ dMsgs > 0
  /\ dMsgs' = dMsgs - 1 /\ dSafe' = dSafe - 1
  /\ dAck' = dPending /\ dAcked' = dPending /\ dPending' = 0
  /\ UNCHANGED <<ackRest, dChanges, dShowing, dSubmit, dFallback, dVisible>>

\* Scanout by address: the card acknowledges at its vertical blank.
CardLatches ==
  /\ dSubmit # 0 /\ ~dFallback /\ dAck # dSubmit
  /\ dAck' = dSubmit /\ dVisible' = dSubmit
  /\ UNCHANGED <<ackRest, dAcked, dPending, dSafe, dChanges, dMsgs, dShowing, dSubmit, dFallback>>

\* Its acknowledgement was seen, or did not come in time: from then on the
\* Amiga's own vertical blank is waited for.
AckScanout ==
  /\ dPlace = "shown" /\ dPending = 0 /\ dSubmit # 0 /\ dSubmit' = 0 /\ dAcked' = dSubmit
  /\ \/ dAck = dSubmit /\ UNCHANGED <<dAck, dFallback, dVisible>>
     \/ dAck # dSubmit /\ dFallback' = TRUE /\ dAck' = dSubmit /\ dVisible' = dSubmit
  /\ UNCHANGED <<ackRest, dPending, dSafe, dChanges, dMsgs, dShowing>>

Waiting == dPending # 0 \/ dSubmit # 0

\* ChangeScreenBuffer accepted: one SafeMessage will come.
ChangeStarted == dChanges' = dChanges + 1 /\ dSafe' = dSafe + 1

\* A new flip with two buffers: the other one, which Intuition may refuse for
\* now.
ShowBuffer ==
  /\ dPlace = "shown" /\ dMode = "two" /\ ~Waiting /\ dGen # dAcked
  /\ ChangeStarted /\ dPending' = dGen /\ dShowing' = 1 - dShowing
  /\ UNCHANGED <<ackRest, dAck, dAcked, dMsgs, dSubmit, dFallback, dVisible>>

Acknowledge == dAck' = dGen /\ dAcked' = dGen /\ dVisible' = dGen

\* With pages: by address, by panning to the next page, or not at all when the
\* card owns the choice.
ShowPage ==
  /\ dPlace = "shown" /\ dMode = "pan" /\ ~Waiting /\ dGen # dAcked /\ dFlags # "mailbox"
  /\ \/ /\ dFlags = "scanout" /\ ~dFallback /\ dSubmit' = dGen
        /\ UNCHANGED <<dAck, dAcked, dVisible>>
     \/ (dFlags = "plain" \/ dFallback) /\ Acknowledge /\ UNCHANGED dSubmit
  /\ dShowing' = 1 - dShowing
  /\ UNCHANGED <<ackRest, dPending, dSafe, dChanges, dMsgs, dFallback>>

\* A single buffer is copied by the firmware: the vertical blank is enough.
ShowSingle ==
  /\ dPlace = "shown" /\ dMode = "single" /\ dGen # dAcked /\ Acknowledge
  /\ UNCHANGED <<ackRest, dPending, dSafe, dChanges, dMsgs, dShowing, dSubmit, dFallback>>

-----------------------------------------------------------------------------
(* close_display                                                           *)

BeginClose ==
  /\ dPlace = "shown" /\ dPlace' = "closing"
  /\ UNCHANGED <<dRes, dMode, dFlags, dGen, flipVars>>

\* flip_wait_safe_messages
Wait ==
  /\ dPlace \in {"closing", "restored"} /\ dMode = "two" /\ dSafe # 0 /\ dMsgs > 0
  /\ dMsgs' = dMsgs - 1 /\ dSafe' = dSafe - 1
  /\ UNCHANGED <<dPlace, dRes, dMode, dFlags, dGen, dAck, dAcked, dPending, dChanges, dShowing,
                 dSubmit, dFallback, dVisible>>

\* The front buffer is brought back, if it is not shown and may be.
RestoreFront ==
  /\ dPlace = "closing" /\ dMode = "two" /\ dSafe = 0 /\ dPending' = 0 /\ dPlace' = "restored"
  /\ \/ dShowing = 1 /\ ChangeStarted /\ dShowing' = 0
     \/ UNCHANGED <<dChanges, dSafe, dShowing>>
  /\ UNCHANGED <<dRes, dMode, dFlags, dGen, dAck, dAcked, dMsgs, dSubmit, dFallback, dVisible>>

\* Window, buffers, port and screen go, the buffers' message port only when no
\* answer is due.
FreeDisplay ==
  /\ \/ dPlace = "restored" /\ dSafe = 0
     \/ dPlace = "closing" /\ dMode # "two"
  /\ dPlace' = "closed" /\ dRes' = {} /\ dMode' = "none" /\ dSafe' = 0 /\ dShowing' = 0
  /\ UNCHANGED <<dFlags, dGen, dAck, dAcked, dPending, dChanges, dMsgs, dSubmit, dFallback,
                 dVisible>>

-----------------------------------------------------------------------------
DisplayInit ==
  /\ dPlace = "none" /\ dRes = {} /\ dMode = "none" /\ dFlags \in {"plain", "scanout", "mailbox"}
  /\ dGen = 0 /\ dAck = 0 /\ dAcked = 0 /\ dPending = 0 /\ dSafe = 0 /\ dChanges = 0 /\ dMsgs = 0
  /\ dShowing = 0 /\ dSubmit = 0 /\ dFallback = FALSE /\ dVisible = 0

DisplayNext ==
  \/ OpenScreen \/ DoubleBuffer \/ FallBack \/ BindDisplay
  \/ Flip \/ Intuition \/ AckSafe \/ CardLatches \/ AckScanout
  \/ ShowBuffer \/ ShowPage \/ ShowSingle
  \/ BeginClose \/ Wait \/ RestoreFront \/ FreeDisplay

DisplaySpec == DisplayInit /\ [][DisplayNext]_displayVars

-----------------------------------------------------------------------------
\* No SafeMessage is due, or waits, at a port that is gone, and no buffer is
\* freed while Intuition still uses it.
FreedSafely == "port" \notin dRes => dChanges = 0 /\ dMsgs = 0

\* A flip is acknowledged, so that the program draws into the old buffer, only
\* when the new one is safely on the screen.
AckedIsVisible == dAck <= dVisible

\* Whatever could not be opened, the rest is closed again.
ClosedAll == dPlace = "closed" => dRes = {}

\* The display is shown, acknowledged and released safely.
DisplaySafe == FreedSafely /\ AckedIsVisible /\ ClosedAll
=============================================================================
